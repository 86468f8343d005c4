SPECIFICATION Spec
CONSTANTS
  g1 = g1
  g2 = g2
  g3 = g3
  j1 = j1
  j2 = j2
  Generations = {g1, g2, g3}
  Jobs = {j1, j2}
  JobOf <- SharedJob
  InvalidJobs = {j2}
  MaxAttempts = 2
  MaxRefusals = 1
  MaxFaults = 1
  MaxCrashes = 1
INVARIANTS
  TypeOK
  AllOrNothing
  DerivedFromDoneJob
  FailureHasCause
  StrandingHasCause
CHECK_DEADLOCK FALSE
