SPECIFICATION FairSpec
CONSTANTS
    r1 = r1
    r2 = r2
    Readers = {r1, r2}
    MaxEvents = 2
    MaxMerges = 3
    MaxResets = 1
    MaxKills = 1
INVARIANTS TypeOK NothingMissing TrustedIsCurrent
PROPERTY EventuallyShown
CHECK_DEADLOCK FALSE
