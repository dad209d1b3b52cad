\* Two elections, or two broadcasts over several paths with each transport.
SPECIFICATION DisseminationSpec
CONSTANTS
    Node = {1, 2, 3}
    Eligible = {1, 2}
    TrainSetSize = 1
    Weight = {1}
    MaxRound = 1
    Timeouts = FALSE
    Crashing = {3}
    None = None
    Peer = {1, 2, 3, 4}
    Message = {"vote", "ready"}
    Source <- Broadcasters
    Link <- Kite
    TTL = 2
    Saved = 1
    Transports = {"memory", "grpc"}
    Breaking = {2}
    Many = 2
INVARIANTS
    SameTrainSet
    CountedOnce
PROPERTY
    EverythingArrives
CHECK_DEADLOCK FALSE
