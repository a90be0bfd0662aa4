\* All three ways home and the disk, one way at a time.
CONSTANTS
    Clients = {c1}
    Blocks = {b1, b2}
    Bufs = {a1, a2}
    Chunks = {n1, n2, n3}
    NULL = NULL
    Ops = {"pull", "refuse", "evict", "evicted", "pagefault", "to_ssd"}
    Adversity = {}
SPECIFICATION SerialSpec
INVARIANTS
    PeersAgree
    BlockSurvives
    WaitingIsAtHome
    
    FaultNodeAlive
    NoCrash
    LeaksOnce
PROPERTIES
    RequestsReturn
    ImplementsResidency
