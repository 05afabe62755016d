CONSTANTS
    k1 = k1
    k2 = k2
    k3 = k3
    d1 = d1
    d2 = d2
    Keys <- TwoKeys
    Data <- OneData
    None = None
    Sizes = {1, 2}
    L2Limit = 1
    L3Limit = 2
    FileLimit = 20
    InitSize = 10
    Wrap = 5
    Threshold = 0
    MaxFreq = 1
    ScanDepth = 2
    Ttl = FALSE
    KeepFile = TRUE
SPECIFICATION FairSpec
INVARIANTS
    RightChunk
PROPERTY Released
