SPECIFICATION Spec
CONSTANTS
  j1 = j1
  j2 = j2
  p1 = p1
  w1 = w1
  w2 = w2
  Jobs = {j1, j2}
  Workers = {w1, w2}
  Partitions = {p1}
  PartitionOf <- OnePartition
  Malformed = Malformed
  MaxAttempts = 2
  MaxMessages = 3
  MaxCrashes = 1
  MaxFaults = 1
  MaxRebalances = 1
SYMMETRY WorkerSymmetry
INVARIANTS
  TypeOK
  ExecutionsBounded
  DoneIsStored
  CommittedWasStarted
  ContentionNeedsRebalance
PROPERTIES
  DoneIsFinal
  OrphanIsStuck
CHECK_DEADLOCK FALSE
