SPECIFICATION Spec
CONSTANTS
    c1 = c1 c2 = c2 c3 = c3 s1 = s1 s2 = s2
    None = None
    Clients <- ThreeClients
    Slots <- TwoSlots
    Requests <- AnyOrAction
    MaxTokens = 1
    Sleeps = TRUE
    Failures = TRUE
    Hangups = TRUE
    Signals = TRUE
SYMMETRY Symmetric
INVARIANTS
    TypeOK
    OnePlace
    NotLost
    NoStray
    Driven
CHECK_DEADLOCK FALSE
