CONSTANTS
    Size = 3
    Batches <- SmallBatches
    MaxTokens = 2
    MaxPos = 1
    Shifts <- MoveBack
SPECIFICATION Spec
INVARIANTS
    TypeOK
    TailsAgree
    UsedIsCount
    StateIsText
    NeverAborts
VIEW Readable
