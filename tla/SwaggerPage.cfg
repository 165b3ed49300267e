SPECIFICATION MCSpec
CONSTANTS
  User = {u1, u2}
  Tab = {t1, t2}
  Guest = u2
  Shared = t1
  None = None
  Typed = {"right"}
  MaxToken = 2
  MaxLoss = 1
INVARIANTS
  ListensAsUser
  OpenTokenValid
PROPERTY
  Recovers
CHECK_DEADLOCK FALSE
