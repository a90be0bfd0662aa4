\* Three blocks of one machine and one of the other.
CONSTANTS
    m1 = m1
    m2 = m2
    b1 = b1
    b2 = b2
    b3 = b3
    b4 = b4
    Machines = {m1, m2}
    Nodes = {b1, b2, b3, b4}
    Owner <- MCOwner
    ListHead = ListHead
    NULL = NULL
    Hot = {0}
    T1 = 5
    T2 = 9
    Usage = {0, 4, 9}
    MaxActivity = 2
SPECIFICATION Spec
CHECK_DEADLOCK FALSE
INVARIANTS
    OffersOrHosts
PROPERTIES
    DiskIsLast
    OwnStepKeepsTmp
    ComesToRest
    
