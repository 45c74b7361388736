SPECIFICATION FairSpec
CONSTANTS
  Producers = {p1, p2}
  Consumers = {c1, c2}
  NoThread = NoThread
  Capacities = {0, 2}
  SizeLimit = 16
  MaxItems = 5
INVARIANTS
  TypeOK
  HeldIsHead
  PollHonest
  NoLostWakeup
PROPERTIES
  Drained
  ImplementsChannel
CHECK_DEADLOCK FALSE
