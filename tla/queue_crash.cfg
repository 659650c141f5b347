SPECIFICATION CrashSpec
CONSTANTS
    c1 = c1
    c2 = c2
    good = good
    bad = bad
    None = None
    Payloads <- TwoMessages
    Malformed <- NoMessage
    Fatal <- BadMessage
    Consumers <- MCConsumers
    MaxAttempts = 2
    Batch = 1
    StaleTime = 2
    RetryDelay = 1
    MaxReplays = 1
    Punctual = TRUE
SYMMETRY Symmetric
INVARIANTS AckedIsFinished SoleConsumer LettersAreExhausted
