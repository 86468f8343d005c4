SPECIFICATION SmallSpec
CONSTANTS
  m1 = m1
  m2 = m2
  f1 = f1
  f2 = f2
  c1 = c1
  c2 = c2
  r1 = r1
  r2 = r2
  r3 = r3
  Mocks = {m1, m2}
  Families = {f1, f2}
  Contents = {c1, c2}
  Requests = {r1, r2, r3}
  Limits = {0, 1}
  Offsets = {0, 1}
  DefaultLimit = 2
  None = None
  Absent = Absent
INVARIANTS
  TypeOK
  SearchAgrees
  PrimaryBelongs
  AnswersBetween
PROPERTIES
  MembersStay
  PrimaryIsActive
SYMMETRY Symmetry
CHECK_DEADLOCK FALSE
