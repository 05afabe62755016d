CONSTANTS
    Models = {m1, m2}
    Clients = {c1, c2}
    MaxLoaded = 1
    Crashes = TRUE
    m1 = m1
    m2 = m2
    c1 = c1
    c2 = c2
SPECIFICATION Spec
INVARIANTS
    TypeOK
    NoOrphan
    JoinNeverWaits
PROPERTIES
    StopEnds
\* Shutdown may hang, see ShutdownEnds.
CHECK_DEADLOCK FALSE
