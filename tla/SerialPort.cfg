SPECIFICATION FairSpec
CONSTANTS
  Callers = {c1, c2}
  InputSize = 3
  OutputSize = 2
  Length = 2
  Total = 2
  MaxFailures = 2
INVARIANTS
  TypeOK
  ReadExact
  NothingSkipped
PROPERTIES
  ModeAsAsked
  NeverSpins
  Returns
CHECK_DEADLOCK FALSE
