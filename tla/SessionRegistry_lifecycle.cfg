SPECIFICATION FairSpec
CONSTANTS
  Sessions = {s1}
  MaxGeneration = 4
  MaxValues = 1
  Keys = {k1}
  Contracts = {c1}
  Handles = {h1}
  None = None
  GraceModes = {TRUE, FALSE}
CHECK_DEADLOCK FALSE
INVARIANTS NoZombie FinalValueKept
PROPERTIES HoldsSourceExclusively ValuesMoveForward IdleSessionsClose
