CONSTANTS
    Requests = {r1, r2}
    NULL = NULL
    MaxMessages = 2
    MaxFailures = 1
SPECIFICATION Spec
CHECK_DEADLOCK FALSE
INVARIANTS
    OwnMessageUnlessOvertaken
    HandlersContextLives
PROPERTIES
    EveryRequestHandled
    
