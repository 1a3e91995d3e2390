SPECIFICATION FairSpec
CONSTANTS
  None = None
  Watchdog = watchdog
  Wizards = {c1}
  Quicks = {q1}
  Disconnectors = {}
  Clearers = {}
  Executors = {}
  MaxName = 2
  Shells = TRUE
  DbFails = FALSE
PROPERTIES
  TimeoutIsEnforced
CHECK_DEADLOCK FALSE
