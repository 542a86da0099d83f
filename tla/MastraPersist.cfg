SPECIFICATION Spec
CONSTANTS
  Keys = {k1, k2}
  Turns = {m1, m2}
  Calls = {c1, c2}
  Writes = {w1, w2, w3}
  MaxThreads = 1
  NoWrite = NoWrite
  NoLatch = NoLatch
SYMMETRY Symmetry
INVARIANTS TypeOK NothingSwallowed JoinsOwnTurn WrittenOnce
CHECK_DEADLOCK FALSE
