SPECIFICATION FairSpec
CONSTANTS
  g1 = g1
  g2 = g2
  g3 = g3
  j1 = j1
  j2 = j2
  Generations = {g1, g2}
  Jobs = {j1}
  JobOf <- SharedJobOnly
  InvalidJobs = {}
  MaxAttempts = 2
  MaxRefusals = 1
  MaxFaults = 1
  MaxCrashes = 1
PROPERTIES
  GenerationsSettle
CHECK_DEADLOCK FALSE
