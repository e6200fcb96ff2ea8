SPECIFICATION FairSpec
CHECK_DEADLOCK FALSE
CONSTANTS
  u1 = u1
  u2 = u2
  d1 = d1
  v1 = v1
  v2 = v2
  c1 = c1
  c2 = c2
  c3 = c3
  DriverOf <- MCDriverOf
  OwnerOf <- MCOwnerOf
  None = None
  Drivers = {d1}
  Users = {u1}
  Vehicles = {v1}
  Contacts = {}
  RideIds = {r1}
  ShareIds = {}
  Positions = {p1, p2}
  Workers = {w1, w2}
  Ops = {"start", "ping", "end", "sweep", "stale", "revoke", "suspend"}
  MaxFaults = 1
INVARIANTS
  EveryEndCounted
PROPERTIES
  EndedRideStaysEnded
  BarredVehicleTakesNoRide
  OnlyStaleSwept
  StaleRideEnds
