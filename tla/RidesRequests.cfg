SPECIFICATION Spec
CHECK_DEADLOCK FALSE
CONSTANTS
  u1 = u1
  u2 = u2
  d1 = d1
  v1 = v1
  v2 = v2
  c1 = c1
  c2 = c2
  c3 = c3
  DriverOf <- MCDriverOf
  OwnerOf <- MCOwnerOf
  None = None
  Drivers = {d1}
  Users = {u1, u2}
  Vehicles = {v1}
  Contacts = {c1, c3}
  RideIds = {r1}
  ShareIds = {s1, s2}
  Positions = {p1}
  Workers = {w1, w2}
  Ops = {"start", "end", "share", "sweep", "stale", "removeContact"}
  MaxFaults = 1
SYMMETRY Symmetry
INVARIANTS
  SharesOwned
  TripsBounded
  AuditedEndsCounted
  AuditComplete
PROPERTIES
  EndedRideGainsNoShare
  ImplementsLifecycle
