SPECIFICATION FairSpec
CONSTANTS
    j1 = j1
    j2 = j2
    s1 = s1
    s2 = s2
    client1 = client1
    client2 = client2
    jw1 = jw1
    jw2 = jw2
    lw = lw
    None = None
    Jobs <- TwoJobs
    Sources <- TwoSources
    SourceOf <- TwoSourcesOf
    Clients <- TwoClients
    JobWorkers <- NoJobWorker
    LoopWorkers <- OneLoopWorker
    SliceSizes <- MCSlices
    MaxPages = 1
    MaxRequests = 3
INVARIANT SignalsAgree
PROPERTY PauseIsHeard
CHECK_DEADLOCK FALSE
