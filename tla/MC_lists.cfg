\* Four nodes, three hot degrees.
CONSTANTS
    Nodes = {n1, n2, n3, n4}
    ListHead = ListHead
    NULL = NULL
    Hot = {0, 1, 2}
SPECIFICATION Spec
INVARIANTS
    BothWays
    MissedOnlyIfMoved
PROPERTIES
    ImplementsHotList
