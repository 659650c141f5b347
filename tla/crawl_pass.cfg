SPECIFICATION FairSpec
CONSTANTS
    w1 = w1
    w2 = w2
    index = index
    news = news
    old = old
    None = None
    Workers <- MCWorkers
    Urls <- MCUrls
    Seeds <- MCSeeds
    Type <- MCType
    Links <- MCLinks
    Disallowed <- MCDisallowed
    BatchSize = 2
    MaxPages <- MCMaxPages
    Concurrency = 2
    SitemapIndexLimit = 2
    Token = 1
    Burst = 1
    MaxWait = 2
    Ttl = 2
    Ahead <- MCAhead
    Skew = 1
    MaxPasses = 1
    MaxFaults = 1
INVARIANTS PagesAreCounted NothingIsLeftBehind BrowserIsLastResort Polite
PROPERTY PassEnds
CHECK_DEADLOCK FALSE
