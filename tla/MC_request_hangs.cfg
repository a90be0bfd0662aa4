\* EVICT and EVICTED on the same block: the loser is never answered.
CONSTANTS
    Clients = {c1}
    Blocks = {b1}
    Bufs = {a1}
    Chunks = {n1}
    NULL = NULL
    Ops = {"pull", "evict", "evicted"}
    Adversity = {}
SPECIFICATION FairSpec
PROPERTIES
    RequestsReturn
CHECK_DEADLOCK FALSE
