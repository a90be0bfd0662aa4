\* Every operation and every adversity together.
CONSTANTS
    Clients = {c1}
    Blocks = {b1, b2}
    Bufs = {a1}
    Chunks = {n1}
    NULL = NULL
    Ops = {"pull", "refuse", "evict", "evicted", "pagefault", "to_ssd"}
    Adversity = {"async", "overtake", "regfail", "connfail", "touch", "wfail"}
SPECIFICATION Spec
SYMMETRY Symmetry
INVARIANTS
    TypeOK
    ClientBooks
    InRemoteIndexSound
    FreedStaysOut
CHECK_DEADLOCK FALSE
