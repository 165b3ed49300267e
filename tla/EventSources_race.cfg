CONSTANTS
  User = {u1, u2}
  Source = {s1, s2}
  Thread = {t1, t2}
  Heartbeat = heartbeat
  None = None
  DefaultCapacity = 1
  MaxToken = 1
SPECIFICATION Spec
SYMMETRY Symmetry
INVARIANTS TypeOK EventsStayHome
