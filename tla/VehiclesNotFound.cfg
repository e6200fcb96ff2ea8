SPECIFICATION Spec
CHECK_DEADLOCK FALSE
CONSTANTS
  Drivers = {d1}
  VehicleIds = {v1, v2}
  Inputs <- MCInputs
  Licences = {}
  Dated = {}
  Workers = {w1}
  None = None
SYMMETRY Symmetry
INVARIANT RegisteredPlateIsFound
