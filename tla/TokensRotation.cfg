SPECIFICATION Spec
CHECK_DEADLOCK FALSE
CONSTANTS
  Users = {u1}
  TokenIds = {t1, t2, t3, t4}
  Workers = {w1, w2}
  MaxFaults = 1
  None = None
SYMMETRY Symmetry
INVARIANTS
  RevokedForAReason
  SuccessorsBounded
PROPERTIES
  LogoutIsFinal
  ImplementsSessions
