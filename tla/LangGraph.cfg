SPECIFICATION Spec
CONSTANTS
  Namespaces = {n1, n2}
  Keys = {k1}
  Ids = {i1, i2}
  Tasks = {t1, t2}
  MaxAliasEntries = 1
  None = None
  MaxTopK = 2
  MaxListSize = 3
  MaxRows = 3
  MaxLabel = 2
  MaxLimit = 2
  MaxOffset = 2
  Threads = {h1, h2}
  MaxMessages <- FourAndTwo
  Batches <- ShortBatches
  h1 = h1
  h2 = h2
  MaxTracked = 1
  MaxUnwrap = 1
INVARIANTS
  TypeOK
  RoundTrip
  PagesExact
  SubmittedOnce
  NothingSkipped
  OneSearchPerTurn
  BlockMatchesTurn
PROPERTY DeletesOwn
CONSTRAINT FewPutSlots
SYMMETRY Symmetry
CHECK_DEADLOCK FALSE
