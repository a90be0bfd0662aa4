\* EVICT frees the node that the fault thread polls.
CONSTANTS
    Clients = {c1}
    Blocks = {b1, b2}
    Bufs = {a1, a2}
    Chunks = {n1, n2}
    NULL = NULL
    Ops = {"pull", "evict", "pagefault"}
    Adversity = {}
SPECIFICATION Spec
SYMMETRY Symmetry
INVARIANTS
    FaultNodeAlive
CHECK_DEADLOCK FALSE
