SPECIFICATION Spec
CONSTANTS
  User = {u1, u2}
  Chain = {c1, c2, c3}
  Note = {n1}
  None = None
  MaxSub = 4
SYMMETRY Symmetry
INVARIANTS
  StoredSigns
  CalmReaches
PROPERTY
  ShownToConnected
