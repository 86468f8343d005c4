SPECIFICATION Spec
CONSTANTS
  j1 = j1
  j2 = j2
  p1 = p1
  w1 = w1
  w2 = w2
  Jobs = {j1}
  Workers = {w1, w2}
  Partitions = {p1}
  PartitionOf <- OnePartition
  Malformed = Malformed
  MaxAttempts = 2
  MaxMessages = 1
  MaxCrashes = 0
  MaxFaults = 0
  MaxRebalances = 0
SYMMETRY WorkerSymmetry
INVARIANTS
  FailureIsAnnounced
CHECK_DEADLOCK FALSE
