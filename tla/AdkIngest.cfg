SPECIFICATION Spec
CONSTANTS
  Keys = {k1, k2}
  Events = {e1, e2, e3}
  Textless = {e3}
  Tasks = {t1, t2}
  DedupeSessions = 1
  NoKey = NoKey
SYMMETRY Symmetry
INVARIANTS TypeOK NoSilentLoss StoredOnce
CHECK_DEADLOCK FALSE
