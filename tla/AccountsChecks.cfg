SPECIFICATION Spec
CHECK_DEADLOCK FALSE
CONSTANTS
  Users = {u1, u2, u3}
  Names = {n1}
  NinOwners = {a1, a2}
  Workers = {w1, w2}
  Ops = {"role", "nin"}
  MaxFaults = 1
  None = None
SYMMETRY Symmetry
INVARIANTS
  DriverHasRow
  NinHoldersBounded
PROPERTY EnteredNameKept
