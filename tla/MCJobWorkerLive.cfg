SPECIFICATION FairSpec
CONSTANTS
  j1 = j1
  j2 = j2
  p1 = p1
  w1 = w1
  w2 = w2
  Jobs = {j1, j2}
  Workers = {w1, w2}
  Partitions = {p1}
  PartitionOf <- OnePartition
  Malformed = Malformed
  MaxAttempts = 2
  MaxMessages = 2
  MaxCrashes = 1
  MaxFaults = 0
  MaxRebalances = 1
PROPERTIES
  JobsSettleOrAreOrphaned
  DoneIsAnnounced
CHECK_DEADLOCK FALSE
