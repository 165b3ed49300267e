CONSTANTS
  User = {u1}
  Source = {s1, s2, s3}
  Thread = {t1, t2}
  Heartbeat = heartbeat
  None = None
  DefaultCapacity = 1
  MaxToken = 1
SPECIFICATION FairSerialSpec
INVARIANTS ClosedNeverListed ListMatchesSources NothingSkipped
PROPERTIES WatchedSessionStays GoneUserForgotten
