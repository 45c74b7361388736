SPECIFICATION GPIOSpec
CONSTANTS
  Workers = {w1}
  NoThread = NoThread
  Calls = {"destroy"}
  RunEnds = FALSE
  Edges = {"low", "high"}
  Removable = FALSE
INVARIANTS
  NoFault
CHECK_DEADLOCK FALSE
