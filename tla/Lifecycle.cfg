\* One timed round, two rounds without timeouts, and a round of mutual judges.
SPECIFICATION RunSpec
CONSTANTS
    a = a
    b = b
    c = c
    None = None
    Node = {a, b, c}
    Experiments <- MCExperiments
    MaxRound = 1
INVARIANTS
    BarrierSeparation
    ChainOfAdmitted
    RelayIsCanonical
    NothingUnexpected
PROPERTIES
    ImplementsContract
    EveryoneEnds
CHECK_DEADLOCK FALSE
