\* The block is copied home before its RDMA read has landed.
CONSTANTS
    Clients = {c1}
    Blocks = {b1, b2}
    Bufs = {a1, a2}
    Chunks = {n1, n2}
    NULL = NULL
    Ops = {"pull", "evict"}
    Adversity = {"async"}
SPECIFICATION Spec
SYMMETRY Symmetry
INVARIANTS
    WaitingIsAtHome
CHECK_DEADLOCK FALSE
