SPECIFICATION ApiSpec
CONSTANTS
    w1 = w1
    w2 = w2
    hub = hub
    art = art
    None = None
    Urls <- OneUrl
    Workers <- MCWorkers
    Priority <- OnePriority
    Scopes <- OneScope
    EntrySets <- OneScope
    BatchLimit = 1
    LeaseTime = 2
    MaxRetries = 3
    RetryCap = 4
    Delays <- MCDelays
    RecrawlTime <- OneRecrawl
    ArticleRecrawl = 1
    Punctual = FALSE
SYMMETRY Symmetric
INVARIANTS TypeOK LeaseColumnsAgree
PROPERTIES LeaseIsNotTaken LostOnlyLate
