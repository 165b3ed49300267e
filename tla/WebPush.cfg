CONSTANTS
  User = {u1, u2}
  Resource = {r1}
  Thread = {t1, t2}
  None = None
  Global = Global
  MaxKey = 2
SPECIFICATION SerialSpec
SYMMETRY Symmetry
INVARIANTS GivenKeySigns SignedForSubscribers
 
