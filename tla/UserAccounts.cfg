CONSTANTS
  Name = {n1, n2, n3}
  Group = {g1}
  Key = {k1}
  None = None
SPECIFICATION Spec
SYMMETRY Symmetry
INVARIANT TypeOK
PROPERTIES OldUserIntact RenameComplete BystandersUntouched
