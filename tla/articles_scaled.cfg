SPECIFICATION Spec
CONSTANTS
    u1 = u1
    u2 = u2
    t1 = t1
    t2 = t2
    cl1 = cl1
    cl2 = cl2
    em = em
    em2 = em2
    an = an
    None = None
    Urls <- MCUrls
    Texts <- TwoTexts
    Near <- TwoNear
    Gray <- TwoGray
    Similar <- TwoSimilar
    Summarized <- MCSummarized
    English <- MCEnglish
    Cleaners <- OneCleaner
    Embedders <- TwoEmbedders
    Analysts <- MCAnalysts
    MaxAttempts = 2
    MaxFetches = 2
    MaxMishaps = 0
INVARIANT VectorIsPresent
CHECK_DEADLOCK FALSE
