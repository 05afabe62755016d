CONSTANTS
    k1 = k1
    k2 = k2
    k3 = k3
    d1 = d1
    d2 = d2
    Keys <- ThreeKeys
    Data <- TwoData
    None = None
    Sizes = {1}
    L2Limit = 2
    L3Limit = 2
    FileLimit = 21
    InitSize = 15
    Wrap = 8
    Threshold = 1
    MaxFreq = 2
    ScanDepth = 2
    Ttl = TRUE
    KeepFile = FALSE
SPECIFICATION Spec
INVARIANTS
    TypeOK
    LruAgrees
    Exclusive
    WithinLimits
PROPERTY Implements
SYMMETRY Symmetric
