CONSTANTS
    Models = {m1}
    Clients = {c1}
    MaxLoaded = 1
    Crashes = TRUE
    m1 = m1
    m2 = m2
    c1 = c1
    c2 = c2
SPECIFICATION Spec
PROPERTIES
    LoadingEnds
\* A child that has ended by itself leaves its monitor waiting.
CHECK_DEADLOCK FALSE
