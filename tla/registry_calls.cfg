SPECIFICATION Spec
CONSTANTS
  None = None
  Watchdog = watchdog
  Wizards = {c1}
  Quicks = {q1}
  Disconnectors = {d1}
  Clearers = {a1}
  Executors = {e1}
  MaxName = 2
  Shells = TRUE
  DbFails = TRUE
SYMMETRY CallSymmetry
INVARIANTS
  TypeOK
  SingleOwner
  NoOtherLeak
  LiveRows
CHECK_DEADLOCK FALSE
