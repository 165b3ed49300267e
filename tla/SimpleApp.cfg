SPECIFICATION Spec
CONSTANTS
  User = {u1, u2}
  Password = {p1, p2}
  Instance = {i1, i2}
  None = None
  MaxToken = 1
SYMMETRY Symmetry
INVARIANTS
  StoredAccepted
  CalmListens
PROPERTIES
  CalmLogsOut
