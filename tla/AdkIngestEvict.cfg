SPECIFICATION Spec
CONSTANTS
  Keys = {k1, k2}
  Events = {e1}
  Textless = {}
  Tasks = {t1, t2}
  DedupeSessions = 1
  NoKey = NoKey
INVARIANTS ConcurrentCallsShipApart
CHECK_DEADLOCK FALSE
