CONSTANTS
    Slots = {s1, s2}
    Fills = {10, 31, 48}
    Scores = {300, 410, 440, 710, 730, 800}
    MaxTime = 8
    s1 = s1
    s2 = s2
SPECIFICATION StrategySpec
INVARIANTS
    StrategyTypeOK
PROPERTIES
    RebuildsApart
    ContextOutlivesTasks
\* A failed reload, or a second free of the batch, ends the server.
CHECK_DEADLOCK FALSE
