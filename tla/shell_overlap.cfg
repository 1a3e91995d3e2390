SPECIFICATION Spec
CONSTANTS
  None = None
  Openers = {o1, o2}
  Closers = {c1, c2}
  Runners = {}
  Probers = {p1, p2}
  Overlap = TRUE
  ShellMayDie = TRUE
  MaxOut = 1
  MaxInterrupts = 0
  MaxInputs = 1
SYMMETRY TaskSymmetry
INVARIANTS
  IndInv
CHECK_DEADLOCK FALSE
