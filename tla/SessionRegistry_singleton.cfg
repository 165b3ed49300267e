CONSTANTS
  User = {u1}
  Thread = {t1, t2}
  Conn = {c1, c2}
  NoConn = NoConn
  NoUser = NoUser
  NoToken = NoToken
  MaxSecond = 0
SPECIFICATION Spec
INVARIANT SingletonSession
