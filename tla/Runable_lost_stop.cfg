SPECIFICATION FairSpec
CONSTANTS
  Workers = {w1, w2}
  NoThread = NoThread
  Calls = {"start", "destroy"}
  RunEnds = FALSE
PROPERTIES
  StopsBeforeJoin
CHECK_DEADLOCK FALSE
