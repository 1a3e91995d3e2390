SPECIFICATION Spec
CONSTANTS
  None = None
  MaxLen = 5
  MaxPage = 4
INVARIANTS
  ResultIsOutput
  StreamIsOutput
  PagesAreWhole
  IsAnswered
CHECK_DEADLOCK FALSE
