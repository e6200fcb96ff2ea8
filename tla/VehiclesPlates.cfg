SPECIFICATION Spec
CHECK_DEADLOCK FALSE
CONSTANTS
  Drivers = {d1, d2}
  VehicleIds = {v1, v2}
  Inputs <- MCSpellings
  Licences = {l1, l2}
  Dated = {l1}
  Workers = {w1, w2}
  None = None
SYMMETRY Symmetry
INVARIANTS
  PlatesUnique
  PlainPlateIsFound
  ExpiredLicenceWarned
PROPERTIES
  RevokedForGood
  SuspendedDoesNothing
