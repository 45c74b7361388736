SPECIFICATION Spec
CONSTANTS
  Objects = {o1, o2, o3}
  Outputs = {o1, o2}
  Listeners = {o3}
INVARIANTS
  TypeOK
  LeaveAsFound
  LeftByFailure
  FoundStays
CHECK_DEADLOCK FALSE
