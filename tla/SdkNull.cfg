SPECIFICATION Spec
CONSTANTS
  Calls = {c1, c2}
  Signals = {g1}
  None = None
INVARIANTS NullMeansMissing
CHECK_DEADLOCK FALSE
