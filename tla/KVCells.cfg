CONSTANTS
    Seqs = {0, 1}
    Configs <- SmallConfigs
    Shifts <- BackOne
    Ranges <- SmallRanges
    MaxShift = 1
    MaxCopies = 1
SPECIFICATION Spec
INVARIANTS
    TypeOK
    CountsAgree
    RopeAgrees
PROPERTIES
    Implements
    DecodeLeavesNoGap
VIEW Readable
