SPECIFICATION Spec
CHECK_DEADLOCK FALSE
CONSTANTS
  u1 = u1
  u2 = u2
  d1 = d1
  v1 = v1
  v2 = v2
  c1 = c1
  c2 = c2
  c3 = c3
  DriverOf <- MCDriverOf
  OwnerOf <- MCOwnerOf
  None = None
  Drivers = {d1}
  Users = {u1}
  Vehicles = {v1}
  Contacts = {}
  RideIds = {r1, r2}
  ShareIds = {}
  Positions = {p1}
  Workers = {w1, w2}
  Ops = {"start"}
  MaxFaults = 0
INVARIANT OneActiveRide
