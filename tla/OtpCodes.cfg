SPECIFICATION Spec
CHECK_DEADLOCK FALSE
CONSTANTS
  Phones = {ph1}
  Workers = {w1, w2}
  Ops = {"request", "verify", "testCode"}
  MaxAttempts = 2
  MaxPerHour = 2
  MaxCodes = 2
  MaxFaults = 1
SYMMETRY Symmetry
INVARIANTS
  WrongGuessesBounded
  ReplayBounded
  CodeExpires
  RateWindowEnds
