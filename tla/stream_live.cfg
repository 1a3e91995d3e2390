SPECIFICATION FairSpec
CONSTANTS
  None = None
  Out = out
  Flush = flush
  Messages = {m1}
  Enters = {n1}
  Timers = {t1, t2}
  PageSize = 2
  MaxChunks = 4
  MaxFailures = 2
INVARIANTS
  TypeOK
PROPERTIES
  QuietAfterEnd
  BufferIsShown
CHECK_DEADLOCK FALSE
