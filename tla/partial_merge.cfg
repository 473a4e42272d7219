SPECIFICATION Spec
CONSTANTS
    j1 = j1
    j2 = j2
    Workers = {w1, w2}
    Enders = {}
    Jobs = {j1, j2}
    Absent = Absent
    NoJob = NoJob
    NoOne = NoOne
    MaxCrashes = 1
    SlowWorkers = FALSE
    MaxAttempts = 2
    MaxJobs = 2
    TimedWorkers = {w2}
    BusyDatabase = TRUE
    Shape <- PlainAndGated
INVARIANT CompletedMeansMerged
CHECK_DEADLOCK FALSE
