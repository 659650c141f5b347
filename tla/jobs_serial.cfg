SPECIFICATION SerialSpec
CONSTANTS
    j1 = j1
    j2 = j2
    s1 = s1
    s2 = s2
    client1 = client1
    client2 = client2
    jw1 = jw1
    jw2 = jw2
    lw = lw
    None = None
    Jobs <- OneJob
    Sources <- OneSource
    SourceOf <- OneSourceOf
    Clients <- TwoClients
    JobWorkers <- TwoJobWorkers
    LoopWorkers <- OneLoopWorker
    SliceSizes <- MCSlices
    MaxPages = 1
    MaxRequests = 4
SYMMETRY Symmetric
INVARIANTS DatesAgree CrawledIsNotQueued
CHECK_DEADLOCK FALSE
