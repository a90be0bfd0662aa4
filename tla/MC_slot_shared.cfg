CONSTANTS
    Requests = {r1, r2, r3}
    NULL = NULL
    MaxMessages = 1
    MaxFailures = 0
SPECIFICATION Spec
CHECK_DEADLOCK FALSE
INVARIANTS
    OwnMessage
