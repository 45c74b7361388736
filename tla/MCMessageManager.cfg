SPECIFICATION Spec
CONSTANTS
  s1 = s1  s2 = s2  r1 = r1  r2 = r2  a = a  b = b  c = c
  Senders = {s1, s2}
  Receivers = {r1, r2}
  Nobody = Nobody
  Slots = {a, b, c}
  Reads <- ReadBy
  InitialMax = 2
  Ceiling = 4
  Settings = {0, 1, 3}
  MaxMessages = 3
SYMMETRY Alike
INVARIANTS
  TypeOK
  SoleReaderSafe
PROPERTIES
  ImplementsMailboxes
CHECK_DEADLOCK FALSE
