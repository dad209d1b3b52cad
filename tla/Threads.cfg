\* Three virtual nodes on two actors, or two or three nodes that log.
SPECIFICATION ThreadsSpec
CONSTANTS
    n1 = n1
    n2 = n2
    n3 = n3
    p = p
    q = q
    x = x
    y = y
    z = z
    Node = {n1, n2, n3}
    Actor = {p, q}
    Jobs = 2
    Loads <- MCLoads
    LogNode = {x, y, z}
    Rounds = 1
    Connected = TRUE
    MaxUnderWay = 1
    Settings <- MCSettings
SYMMETRY Interchangeable
INVARIANTS
    AnswerIsOwn
    ActorsAreUsed
    LogIsExact
CHECK_DEADLOCK FALSE
