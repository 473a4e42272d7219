SPECIFICATION Spec
CONSTANTS
    None = None
    Statements <- AllStatements
    TypeOf <- StatementTypeOf
    Trait <- StatementTrait
    Overlaps <- OverlapPairs
    SameSubject <- SubjectPairs
    Echoes <- EchoPairs
    Handoffs = {"handoff", "later"}
    Cascades <- BlockedCascade
    A = A
    B = B
    m1 = m1
    m2 = m2
    Mergers = {m1, m2}
    Sessions = {A, B}
    Batches <- AllBatches
    MaxEvidence = 3
    MaxCalls = 3
    MaxFails = 1
    MaxLinks = 1
    InitialWeight = 2
    MaxWeight = 2
    DedupBump = 1
CONSTRAINT Focused
SYMMETRY Symmetric
CHECK_DEADLOCK FALSE
INVARIANTS WellFormed CountsOnce LiveEchoNeedsRace HandoffsStand CommitmentsStand
