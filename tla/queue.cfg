SPECIFICATION MCSpec
CONSTANTS
    j1 = j1
    j2 = j2
    w3 = w3
    Workers = {w1, w2, w3}
    Enders = {e1}
    Jobs = {j1, j2}
    Absent = Absent
    NoJob = NoJob
    NoOne = NoOne
    MaxCrashes = 2
    SlowWorkers = TRUE
    MaxAttempts = 2
    MaxJobs = 2
    TimedWorkers = {w2}
    BusyDatabase = TRUE
    Shape <- PlainAndGated
CHECK_DEADLOCK FALSE
INVARIANTS TypeOK CompletedWasMerged ClaimNamesClaimant RepeatsAreBounded 
PROPERTIES PoisonStaysDead MonotoneTransitions
