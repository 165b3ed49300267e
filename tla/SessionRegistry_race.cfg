CONSTANTS
  User = {u1}
  Thread = {t1, t2}
  Conn = {c1, c2, c3}
  NoConn = NoConn
  NoUser = NoUser
  NoToken = NoToken
  MaxSecond = 0
SPECIFICATION FairSpec
INVARIANTS TypeOK ExclusiveHolder
PROPERTIES GoneForGood CallsReturn
