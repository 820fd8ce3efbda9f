SPECIFICATION Spec
CONSTANTS
  Leases = {l1, l2}
  Options <- ResumeOptions
  Bounds <- ResumeBounds
  LivePurge = FALSE
SYMMETRY Symmetry
CHECK_DEADLOCK FALSE
INVARIANTS NothingSkipped RedeliveryWindow CaughtUpMeansReplayed
