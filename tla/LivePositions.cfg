SPECIFICATION LiveSpec
CHECK_DEADLOCK FALSE
CONSTANTS
  u1 = u1
  d1 = d1
  DriverOf <- MCDriverOf
  OwnerOf <- MCOwnerOf
  None = None
  Drivers = {d1}
  Users = {u1}
  Vehicles = {v1}
  Contacts = {c1}
  RideIds = {r1}
  ShareIds = {s1, s2}
  Positions = {p1, p2}
  Workers = {w1, w2}
  Clients = {k1}
  Transports = {"socket", "http"}
  Ops = {"start", "ping", "end", "share", "removeContact"}
  MaxFaults = 1
SYMMETRY Symmetry
INVARIANTS
  WatchersSeeEveryPoint
  NoLatePositions
