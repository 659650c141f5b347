SPECIFICATION FairSpec
CONSTANTS
    a1 = a1
    a2 = a2
    en = en
    bn = bn
    None = None
    Articles <- MCArticles
    Languages <- MCLanguages
    LanguageOf <- MCLanguageOf
    Tables <- MCTables
    Window = 1
    DayLength = 2
    BatchSize = 1
    MaxBatches = 2
    MaxRows = 2
    MaxTime = 3
    MaxFaults = 1
INVARIANTS TypeOK CountedOnce LiveHasRaw CompletedIsClean
PROPERTY ExpiredIsPurged
