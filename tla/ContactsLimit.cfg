SPECIFICATION Spec
CHECK_DEADLOCK FALSE
CONSTANTS
  Users = {u1, u2}
  ContactIds = {c1, c2, c3, c4, c5}
  Workers = {w1, w2, w3}
  MAX_CONTACTS = 2
  MaxFaults = 1
  None = None
SYMMETRY Symmetry
INVARIANT OverflowBounded
PROPERTY RemovedByOwner
