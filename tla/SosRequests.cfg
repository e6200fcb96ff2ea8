SPECIFICATION Spec
CHECK_DEADLOCK FALSE
CONSTANTS
  u1 = u1
  u2 = u2
  c1 = c1
  c2 = c2
  c3 = c3
  OwnerOf <- MCOwnerOf
  None = None
  Users = {u1}
  Contacts = {c1}
  SosIds = {s1, s2}
  Pins = {p1, p2}
  Workers = {w1, w2}
  Ops = {"trigger", "cancel", "resolve", "setPin", "expiry"}
  MAX_CANCEL_ATTEMPTS = 1
  MaxFaults = 1
SYMMETRY Symmetry
INVARIANTS
  StackBounded
  AuditComplete
  PinsBounded
PROPERTY ImplementsAlarm
