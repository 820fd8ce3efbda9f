SPECIFICATION EventSpec
CONSTANTS
  Leases = {l1}
  Options <- ProgressOptions
  Bounds <- ProgressBounds
  LivePurge = FALSE
  Adapters <- AllAdapters
CHECK_DEADLOCK FALSE
INVARIANTS AtomicReplay
PROPERTIES CatchesUp FailedSaveEndsLease CloseSettles
