SPECIFICATION MCSpec
CONSTANTS
    h1 = h1
    e1 = e1
    w1 = w1
    Hooks = {h1}
    Enders = {e1}
    Workers = {w1}
    AnchorLines = 1
    OverlapLines = 1
    MaxLines = 4
    MaxCompactions = 1
    MaxTorn = 1
    MaxFaults = 1
    MaxCalls = 3
    ForegroundLines = 3
    ForegroundCalls = 2
    SlowWorkers = TRUE
CHECK_DEADLOCK FALSE
INVARIANTS WellStored NothingSkipped CursorCovers
