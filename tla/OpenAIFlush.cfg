SPECIFICATION Spec
CONSTANTS
  Msgs = {1, 2, 3}
  Assistant = {2}
  Text <- MCText
  Ops = {o1, o2}
  Writes = {w1, w2}
PROPERTIES FlushLands
CHECK_DEADLOCK FALSE
