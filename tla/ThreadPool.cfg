CONSTANTS
    N = 3
    Graphs <- MCGraphs
    MaxGraphs = 2
SPECIFICATION Spec
INVARIANTS
    TypeOK
    ParametersQuiet
PROPERTIES
    Implements
    ComputeEnds
    FreeEnds
\* The system stops when the pool has been freed; ComputeEnds and FreeEnds say
\* that it stops nowhere else.
CHECK_DEADLOCK FALSE
