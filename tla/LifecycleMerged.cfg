\* Three trainers of which one is rejected, merging the models they gossip.
SPECIFICATION Spec
CONSTANTS
    a = a
    b = b
    c = c
    None = None
    Node = {a, b, c}
    Experiments <- MCMerged
    MaxRound = 0
INVARIANT
    PoolIsGated
CHECK_DEADLOCK FALSE
