SPECIFICATION Spec
CONSTANTS
    None = None
    u1 = u1
    u2 = u2
    u3 = u3
    u4 = u4
    c1 = c1
    c2 = c2
    Ids <- MCIds
    Cleaners <- MCCleaners
    Bylines <- MCBylines
    Bodies <- MCBodies
    FeatureHash <- MCFeatureHash
    Bands = 4
    BandBits = 2
    Threshold = 3
    GrayZone = 6
    Limit = 2
    MaxCandidates = 1
SYMMETRY Symmetric
INVARIANTS LookupIsExact CandidatesAreGray StoredAreApart
