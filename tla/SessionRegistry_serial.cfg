CONSTANTS
  User = {u1, u2}
  Thread = {t1, t2}
  Conn = {c1, c2, c3}
  NoConn = NoConn
  NoUser = NoUser
  NoToken = NoToken
  MaxSecond = 1
SPECIFICATION SerialSpec
INVARIANTS SingletonSession NoOrphanSession NoDeadEntry TokenOfConnectionValid
PROPERTY ImplementsUserSession
SYMMETRY Symmetry
