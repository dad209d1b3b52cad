\* Transfers of models, two rounds of three trainers, and the preparation of data.
SPECIFICATION Spec
CONSTANTS
    Entry = {1, 2, 3}
    Norm <- Euclid
    OptimizerStep <- Step
    Client = {1, 2, 3}
    SampleCount <- Counts
    Federations <- Scenes
    Dishonest = {3}
INVARIANTS
    RoundTrip
    SameWeightedModel
    HonestRange
    DataIsPrepared
    AuditIsExact
CHECK_DEADLOCK FALSE
