SPECIFICATION Spec
CONSTANTS
  Threads = {t1, t2}
  Closers = {c1, c2}
INVARIANT NoCallHangs
CHECK_DEADLOCK FALSE
