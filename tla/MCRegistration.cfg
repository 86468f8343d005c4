SPECIFICATION FairSpec
CONSTANTS
  m1 = m1
  m2 = m2
  m3 = m3
  u1 = u1
  u2 = u2
  Mocks = {m1, m2, m3}
  Users = {u1, u2}
  NoUser = NoUser
  BatchSize = 2
  MaxTime = 2
  MaxFaults = 2
  MaxCrashes = 1
  MaxTransfers = 1
INVARIANTS
  TypeOK
  OwnerIsRightful
  NoEventLost
PROPERTIES
  CreatedIsRegistered
CHECK_DEADLOCK FALSE
