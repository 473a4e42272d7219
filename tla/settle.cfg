SPECIFICATION FairSpec
CONSTANTS
    j1 = j1
    j2 = j2
    Workers = {w1, w2}
    Enders = {e1}
    Jobs = {j1}
    Absent = Absent
    NoJob = NoJob
    NoOne = NoOne
    MaxCrashes = 1
    SlowWorkers = FALSE
    MaxAttempts = 2
    MaxJobs = 1
    TimedWorkers = {}
    BusyDatabase = FALSE
    Shape <- OneGated
PROPERTY EveryJobSettles
CHECK_DEADLOCK FALSE
