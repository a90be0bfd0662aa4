\* Seven addresses: every case of both fix-ups, at the root and below it.
CONSTANTS
    Keys = {1, 2, 3, 4, 5, 6, 7}
    Structs <- MCStructs
    NULL = NULL
SPECIFICATION MCSpec
INVARIANTS
    TypeOK
    Coherent
    RedBlack
PROPERTIES
    ImplementsMap
    OperationsEnd
