CONSTANTS
  User = {u1, u2}
  Thread = {t1, t2}
  None = None
  MaxCeremony = 4
SPECIFICATION SerialSpec
SYMMETRY Symmetry
INVARIANTS TypeOK NewestOnly HandleFits SignedInByNewest
