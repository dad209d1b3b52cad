SPECIFICATION FairSpec
CONSTANTS
    Node = {1, 2, 3}
    Trained = 0
    Scenes <- MCScenes
    EqualRounds = 2
    Starters = {1}
    MaxStarts = 1
    Prompt = TRUE
    Threads = 1
INVARIANTS
    InitialModelShared
PROPERTIES
    TrainedModelKept
    LearningEnds
CHECK_DEADLOCK FALSE
