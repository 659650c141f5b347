SPECIFICATION FairSpec
CONSTANTS
    w1 = w1
    w2 = w2
    hub = hub
    art = art
    None = None
    Urls <- MCUrls
    Workers <- MCWorkers
    Priority <- MCPriority
    Scopes <- MCScopes
    EntrySets <- MCEntrySets
    BatchLimit = 2
    LeaseTime = 2
    MaxRetries = 3
    RetryCap = 3
    Delays <- MCDelays
    RecrawlTime <- MCRecrawl
    ArticleRecrawl = 2
    Punctual = TRUE
INVARIANTS SoleHolder NoUrlLost RetryBudget
PROPERTIES LeaseEnds QueuedIsClaimed
