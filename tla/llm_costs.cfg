SPECIFICATION Spec
CONSTANTS
    w1 = w1
    w2 = w2
    a1 = a1
    a2 = a2
    e1 = e1
    e2 = e2
    None = None
    Workers <- MCWorkers
    Articles <- MCArticles
    Entities <- MCEntities
    Answers <- MCAnswers
    Summarized <- MCSummarized
    Primary = "gemini"
    Fallbacks <- MCFallbacks
    Keys <- MCKeys
    MaxRetries = 2
    MaxMishaps = 0
INVARIANT CostsAreOfTheirProvider
CHECK_DEADLOCK FALSE
