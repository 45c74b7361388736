SPECIFICATION Spec
CONSTANTS
  Children = {c1}
  MaxFd = 4
  OldFds = {0, 2}
  None = None
INVARIANTS
  QuietWithoutChild
CHECK_DEADLOCK FALSE
