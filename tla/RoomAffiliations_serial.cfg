CONSTANTS
  Jid = {j1, j2, j3}
  Thread = {t1, t2}
  Nil = Nil
SPECIFICATION SerialSpec
SYMMETRY Symmetry
PROPERTIES UpdateExact ReplaceExact OthersKeepAffiliation OwnersReplaceable
