CONSTANTS
    NumBlocks = 3
    BlockSize = 2
    Seqs = {0, 1}
    MaxBlocks = 3
    MaxRef = 2
    Batches <- SmallBatches
SPECIFICATION Spec
INVARIANTS
    TypeOK
    RefsCover
    SharedAtSameIndex
    NoGap
PROPERTIES
    ApplyAllocatesNothing
VIEW WithoutGpu
