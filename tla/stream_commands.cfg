SPECIFICATION Spec
CONSTANTS
  None = None
  Out = out
  Flush = flush
  Messages = {m1, m2}
  Enters = {n1}
  Timers = {t1, t2}
  PageSize = 2
  MaxChunks = 3
  MaxFailures = 1
SYMMETRY StreamSymmetry
INVARIANTS
  ShownOnceInOrder
  FlushedIsShown
PROPERTIES
  EarlierStays
CHECK_DEADLOCK FALSE
