SPECIFICATION CrashSpec
CONSTANTS
    c1 = c1
    c2 = c2
    good = good
    bad = bad
    None = None
    Payloads <- OneMessage
    Malformed <- NoMessage
    Fatal <- NoMessage
    Consumers <- MCConsumers
    MaxAttempts = 2
    Batch = 1
    StaleTime = 2
    RetryDelay = 1
    MaxReplays = 0
    Punctual = TRUE
SYMMETRY Symmetric
INVARIANT NothingLost
