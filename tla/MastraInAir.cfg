SPECIFICATION Spec
CONSTANTS
  Keys = {k1}
  Turns = {m1, m2}
  Calls = {c1, c2, c3}
  Writes = {w1, w2, w3}
  MaxThreads = 1
  NoWrite = NoWrite
  NoLatch = NoLatch
INVARIANTS InAirOnce
CHECK_DEADLOCK FALSE
