SPECIFICATION Spec
CONSTANTS
    w1 = w1
    w2 = w2
    index = index
    news = news
    old = old
    None = None
    Workers <- MCWorkers
    Urls <- MCUrls
    Seeds <- MCSeeds
    Type <- MCType
    Links <- MCLinks
    Disallowed <- MCDisallowed
    BatchSize = 2
    MaxPages <- MCMaxPages
    Concurrency = 2
    SitemapIndexLimit = 1
    Token = 2
    Burst = 1
    MaxWait = 2
    Ttl = 3
    Ahead <- MCAhead
    Skew = 1
    MaxPasses = 1
    MaxFaults = 1
PROPERTY OutageIsRetried
CHECK_DEADLOCK FALSE
