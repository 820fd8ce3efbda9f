SPECIFICATION FairSpec
CONSTANTS
    Readers    = {r1}
    capacity   = 2
    Subs       = {s1}
    Policies   = {"callback", "suspend", "error", "dropping", "sliding"}
    bufferSize = 1
    limit      = 2
    Programs   = {p1, p2}
    Leases     <- MCLeases
    MaxEffects = 2
    MaxUses    = 1
    MaxInputs  = 4
INVARIANTS
    GapsAreTold
    GracefulLosesNothing
    StreamTellsLosses
    LeasesWithinLimits
    InUseStaysOpen
PROPERTIES
    StatusFinallyShown
    UnmountSettles
CHECK_DEADLOCK FALSE
