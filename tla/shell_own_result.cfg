SPECIFICATION Spec
CONSTANTS
  None = None
  Openers = {o1}
  Closers = {}
  Runners = {r1, r2}
  Probers = {}
  Overlap = FALSE
  ShellMayDie = FALSE
  MaxOut = 1
  MaxInterrupts = 1
  MaxInputs = 0
INVARIANT
  OwnResult
CHECK_DEADLOCK FALSE
