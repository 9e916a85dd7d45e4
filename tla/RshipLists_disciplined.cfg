CONSTANTS
    n1 = n1
    n2 = n2
    UNKNOWN = UNKNOWN
    Tx = {1, 2, 3}
    Node = {n1, n2}
    MaxRship = 3
    Graph <- Parallel
    Pair <- Pairs
    MaxCalls = 3
    Disciplined = TRUE
SPECIFICATION Spec
INVARIANTS
    ListsMatch
    GraphMatches
    NoOrphan
    VacuumFinds
    WalkRight
    RshipsReleased
CHECK_DEADLOCK FALSE
