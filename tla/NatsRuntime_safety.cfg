SPECIFICATION Spec
CONSTANTS
  MaxConnections = 2
  MaxUnread = 1
  Resources = {r1}
  Options <- RuntimeOptions
CHECK_DEADLOCK FALSE
INVARIANTS OneConnection GracefulIsClean
