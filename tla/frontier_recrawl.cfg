SPECIFICATION FairSpec
CONSTANTS
    w1 = w1
    w2 = w2
    hub = hub
    art = art
    None = None
    Urls <- OneUrl
    Workers <- MCWorkers
    Priority <- OnePriority
    Scopes <- OneScope
    EntrySets <- OneScope
    BatchLimit = 1
    LeaseTime = 1
    MaxRetries = 2
    RetryCap = 2
    Delays <- MCDelays
    RecrawlTime <- OneRecrawl
    ArticleRecrawl = 1
    Punctual = TRUE
PROPERTY RecrawledWhenDue
