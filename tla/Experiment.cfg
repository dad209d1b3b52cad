SPECIFICATION FairSpec
CONSTANTS
    Scenes <- MCScenes
    MaxFaults = 1
    MaxBadStops = 1
    Patient = FALSE
INVARIANTS
    EvidenceIsWhole
PROPERTY
    RunEnds
