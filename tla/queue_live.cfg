SPECIFICATION FairSpec
CONSTANTS
    c1 = c1
    c2 = c2
    good = good
    bad = bad
    None = None
    Payloads <- TwoMessages
    Malformed <- BadMessage
    Fatal <- NoMessage
    Consumers <- MCConsumers
    MaxAttempts = 2
    Batch = 1
    StaleTime = 1
    RetryDelay = 1
    MaxReplays = 0
    Punctual = FALSE
INVARIANT TypeOK
PROPERTY IsFairWorkQueue
