SPECIFICATION BrokerSpec
CONSTANTS
  t1 = t1
  t2 = t2
  Tabs = {t1, t2}
  MaxSequence = 3
  MaxGenerations <- Generations
  Starts = {0, 2}
  Instances <- MCInstances
  MaxRetained = 2
  MaxTabQueue = 2
  MaxBatch = 2
  Grace = TRUE
  SourceMayEnd = TRUE
CHECK_DEADLOCK FALSE
INVARIANTS NoSilentLoss AcksAreAccepted SourceIsHeld NoStall
