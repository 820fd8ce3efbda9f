CONSTANTS
    Deployments <- MCDeployments
    MaxSequence = 3
    MaxAttempts = 3
    MaxFaults = 2
    MaxDeletions = 1
    MaxRetries = 1
SPECIFICATION Spec
INVARIANT NothingLeftOut
PROPERTIES LateResultsDropped CloseSettles
CHECK_DEADLOCK FALSE
