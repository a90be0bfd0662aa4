\* A second puller moves the cursor to NULL before CLIENT_DONE.
CONSTANTS
    Clients = {c1, c2}
    Blocks = {b1, b2}
    Bufs = {a1, a2}
    Chunks = {n1, n2}
    NULL = NULL
    Ops = {"pull"}
    Adversity = {}
SPECIFICATION Spec
SYMMETRY Symmetry
INVARIANTS
    NoCrash
CHECK_DEADLOCK FALSE
