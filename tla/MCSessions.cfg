SPECIFICATION Spec
CONSTANTS
  u1 = u1
  s1 = s1
  s2 = s2
  r1 = r1
  r2 = r2
  r3 = r3
  Users = {u1}
  Roles = {"USER", "ADMIN"}
  Sessions = {s1, s2}
  Requests = {r1, r2, r3}
  Opened = s1
  First = First
  None = None
INVARIANTS
  TypeOK
  NoReplay
  BadTokenRevokes
  RolesAsAsked
SYMMETRY Symmetry
CHECK_DEADLOCK FALSE
