SPECIFICATION Spec
CONSTANTS
    r1 = r1 
    Request = {r1}
    FailureThreshold = 1
    SuccessThreshold = 1
    Timeout = 1
    Capacity = 1
    MaxAttempts = 1
    MayShutDown = FALSE
PROPERTY BreakerRecovers
