SPECIFICATION MCSpec

CONSTANTS
    Facts = {1, 2, 3}
    Candidates = 3
    AgreeRank = 3
    SoloRank = 2
    AnchorTerms = 1
    MinTerms = 2
    MaxEvents = 2

CHECK_DEADLOCK FALSE

INVARIANT GroupingNeverEvicts
