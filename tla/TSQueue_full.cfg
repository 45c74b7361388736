SPECIFICATION FairSpec
CONSTANTS
  Producers = {p1}
  Consumers = {c1}
  NoThread = NoThread
  Capacities = {1}
  SizeLimit = 16
  MaxItems = 3
PROPERTIES
  RoomAwaited
CHECK_DEADLOCK FALSE
