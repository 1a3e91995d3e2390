SPECIFICATION FairBotSpec
CONSTANTS
  None = None
  Watchdog = watchdog
  Wizards = {c1}
  Quicks = {q1}
  Disconnectors = {d1}
  Clearers = {}
  Executors = {}
  MaxName = 2
  Shells = TRUE
  DbFails = TRUE
INVARIANTS
  ShutdownCloses
PROPERTIES
  IdleIsDisconnected
  ShutdownReturns
CHECK_DEADLOCK FALSE
