\* Two nodes with calls of their users, and a line of three without.
SPECIFICATION FairSpec
CONSTANTS
    a = a
    b = b
    c = c
    Node = {a, b, c}
    Networks <- MCNetworks
INVARIANTS
    ConnectionsHaveTwoEnds
PROPERTIES
    TablesSettle
CHECK_DEADLOCK FALSE
