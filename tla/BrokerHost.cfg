SPECIFICATION HostSpec
CONSTANTS
  Clients = {c1, c2}
  Sources = {x}
  MaxRevision = 2
  MaxCommands = 5
  MaxQueued = 2
  MaxRejections = 1
CHECK_DEADLOCK FALSE
INVARIANTS ResourcesKept
PROPERTIES CommandsSettle
