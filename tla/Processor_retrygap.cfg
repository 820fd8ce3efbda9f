CONSTANTS
    Deployments <- WideWindow
    MaxSequence = 3
    MaxAttempts = 3
    MaxFaults = 1
    MaxDeletions = 1
    MaxRetries = 1
SPECIFICATION Spec
INVARIANT NothingLeftOut
CHECK_DEADLOCK FALSE
