SPECIFICATION GPIOFairSpec
CONSTANTS
  Workers = {w1, w2}
  NoThread = NoThread
  Calls = {"start", "stop", "join", "destroy"}
  RunEnds = FALSE
  Edges = {"high"}
  Removable = TRUE
INVARIANTS
  ProperSafe
  CaughtUp
  OneLoop
PROPERTIES
  EdgeAnswered
  StopAnswered
  ImplementsRunable
CHECK_DEADLOCK FALSE
