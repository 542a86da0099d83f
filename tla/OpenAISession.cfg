SPECIFICATION FairSpec
CONSTANTS
  Msgs = {1, 2, 3}
  Assistant = {2}
  Text <- MCText
  Ops = {o1, o2}
  Writes = {w1, w2}
INVARIANTS TypeOK PendingIsTail
PROPERTIES DeliversOnce FlushAloneLands AssistantSettles
CHECK_DEADLOCK FALSE
