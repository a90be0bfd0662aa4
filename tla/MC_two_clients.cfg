\* Two clients pull and give back while applications fault blocks back; the owner
\* may die (see null_cursor and fault_node_freed), its state stays right until then.
CONSTANTS
    Clients = {c1, c2}
    Blocks = {b1, b2}
    Bufs = {a1, a2}
    Chunks = {n1, n2}
    NULL = NULL
    Ops = {"pull", "evict", "pagefault"}
    Adversity = {}
SPECIFICATION Spec
SYMMETRY Symmetry
INVARIANTS
    PeersAgree
    LentOnce
    ListedIsBacked
    
    InRemoteNumMatches
CHECK_DEADLOCK FALSE
