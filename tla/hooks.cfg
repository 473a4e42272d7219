SPECIFICATION MCSpec

CONSTANTS
    f1 = f1
    f2 = f2
    w1 = w1
    c1 = c1
    Files = {f1, f2}
    MaxFiles = 1
    Passes = {w1, w2}
    MaxEdits = 2
    MaxTime = 3
    Calls = {c1, c2}
    Sessions = {s1}
    Policies = {"strict", "advisory"}
    Margin = 1
    Window = 1
    Facts = {1, 2, 3}
    Candidates = 3
    AgreeRank = 3
    SoloRank = 2
    AnchorTerms = 1
    MinTerms = 2
    MaxEvents = 2
    Hooks = {h1, h2}
    Threads = {1, 2}
    Prohibitions = {2, 3}
    MaxSurface = 1
    MaxPushes = 3
    Rank <- MCRank
    Greps <- MCGreps
    Topics <- MCTopics
    Prompts <- MCPrompts

CHECK_DEADLOCK FALSE
INVARIANTS SearchesAreSound ReadsAreSound PushesAreExplained
PROPERTIES InScopeIsKept DenialIsVouched RetryIsGranted NothingRepeated
