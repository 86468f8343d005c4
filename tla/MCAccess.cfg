SPECIFICATION Spec
CONSTANTS
  u1 = u1
  u2 = u2
  root = root
  x1 = x1
  r1 = r1
  r2 = r2
  r3 = r3
  Users = {u1, u2, root}
  Admins = {root}
  Resources = {x1}
  Requests = {r1, r2, r3}
  None = None
INVARIANTS
  TypeOK
  EntitledOnly
  ListAgreesWithCheck
SYMMETRY Symmetry
CHECK_DEADLOCK FALSE
