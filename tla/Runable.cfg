SPECIFICATION FairSpec
CONSTANTS
  Workers = {w1, w2, w3}
  NoThread = NoThread
  Calls = {"start", "stop", "join", "detach", "destroy"}
  RunEnds = TRUE
INVARIANTS
  TypeOK
  ProperSafe
  RunFlagHonest
PROPERTIES
  StopObeyed
  ImplementsSlot
CHECK_DEADLOCK FALSE
