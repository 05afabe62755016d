SPECIFICATION FairSpec
CONSTANTS
    c1 = c1 c2 = c2 c3 = c3 s1 = s1 s2 = s2
    None = None
    Clients <- ThreeClients
    Slots <- TwoSlots
    Requests <- Completions
    MaxTokens = 1
    Sleeps = FALSE
    Failures = FALSE
    Hangups = FALSE
    Signals = FALSE
PROPERTIES
    Answered
CHECK_DEADLOCK FALSE
