\* Competing submissions in one round, and the chain of two rounds.
SPECIFICATION RunSpec
CONSTANTS
    a = a
    b = b
    h1 = h1
    h2 = h2
    g1 = g1
    g2 = g2
    None = None
    MaxRound = 1
    Closable = TRUE
    Node <- MCNode
    InstallerChoices <- MCInstallers
    CapabilityChoices <- MCCapability
    Assignments <- MCAssignments
    ParentHash = {p0}
    CandidateHash = {h1, h2}
    AggregateHash = {g1, g2}
    Vote = {yes}
    CAPayload = {ca}
INVARIANTS
    LogIsExactAccount
    AdmissionJudged
    AggregateOfAdmitted
    InstalledCanonical
    RoundsChained
PROPERTIES
    FinalizedRoundFrozen
    ImplementsContract
CHECK_DEADLOCK FALSE
