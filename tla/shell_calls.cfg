SPECIFICATION Spec
CONSTANTS
  None = None
  Openers = {o1, o2}
  Closers = {c1}
  Runners = {r1, r2}
  Probers = {p1}
  Overlap = FALSE
  ShellMayDie = TRUE
  MaxOut = 1
  MaxInterrupts = 1
  MaxInputs = 0
SYMMETRY TaskSymmetry
INVARIANTS
  TypeOK
  NoOrphanFuture
  LocksAreHeldByWaiters
  ResultIsolation
  CompleteOutput
  SingleReader
  ShellIsServed
PROPERTIES
  PendingIsNeverDropped
  QueueSpec
CHECK_DEADLOCK FALSE
