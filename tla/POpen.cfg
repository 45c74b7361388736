SPECIFICATION FairSpec
CONSTANTS
  Children = {c1, c2}
  MaxFd = 4
  OldFds = {0, 2}
  None = None
INVARIANTS
  TypeOK
  DescriptorsKept
  OneChild
PROPERTIES
  RunReturns
CHECK_DEADLOCK FALSE
