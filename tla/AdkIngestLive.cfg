SPECIFICATION RecoverySpec
CONSTANTS
  Keys = {k1, k2}
  Events = {e1, e2}
  Textless = {e2}
  Tasks = {t1, t2}
  DedupeSessions = 1
  NoKey = NoKey
PROPERTIES EveryEventConfirmed
CHECK_DEADLOCK FALSE
