SPECIFICATION LiveFairSpec
CONSTANTS
  None = None
  Openers = {o1}
  Closers = {c1}
  Runners = {r1, r2}
  Probers = {p1, p2}
  MaxCalls = 3
  Overlap = FALSE
  ShellMayDie = TRUE
  MaxOut = 1
  MaxInterrupts = 1
  MaxInputs = 0
PROPERTIES
  CwdReturns
  EndIsDelivered
  CloseReturns
CHECK_DEADLOCK FALSE
