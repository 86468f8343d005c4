SPECIFICATION SystemSpec
CONSTANTS
  g1 = g1
  g2 = g2
  j1 = j1
  p1 = p1
  w1 = w1
  w2 = w2
  Jobs = {j1}
  Workers = {w1, w2}
  Partitions = {p1}
  PartitionOf <- OnePartition
  Malformed = Malformed
  MaxAttempts = 2
  MaxMessages = 2
  MaxCrashes = 1
  MaxFaults = 1
  MaxRebalances = 0
  Generations = {g1, g2}
  JobOf <- SharedJob
  InvalidJobs = {}
  MaxClientFaults = 1
  MaxClientCrashes = 1
SYMMETRY Symmetry
PROPERTIES
  ImplementsLifecycle
  ImplementsGeneration
CHECK_DEADLOCK FALSE
