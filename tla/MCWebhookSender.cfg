SPECIFICATION Spec
CONSTANTS
    r1 = r1 r2 = r2 
    Request = {r1, r2}
    FailureThreshold = 2
    SuccessThreshold = 2
    Timeout = 1
    Capacity = 2
    MaxAttempts = 2
    MayShutDown = TRUE
INVARIANTS TypeOK CountedOnce
PROPERTIES TransitionsEarned SendsEnd
