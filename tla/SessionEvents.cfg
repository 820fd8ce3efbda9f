SPECIFICATION EventsSpec
CONSTANTS
  Sessions = {s1, s2}
  MaxGeneration = 4
  Bounds <- MCBounds
  MaxValues = 0
  Keys = {k1}
  Contracts = {c1}
  Handles = {h1, h2}
  None = None
  GraceModes = {TRUE, FALSE}
SYMMETRY Symmetry
CHECK_DEADLOCK FALSE
INVARIANTS HeldSessionsStayOpen NoOrphanSession EventsAddUp
