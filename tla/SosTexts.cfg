SPECIFICATION TextsFairSpec
CHECK_DEADLOCK FALSE
CONSTANTS
  u1 = u1
  OwnerOf <- MCOwnerOf
  None = None
  Users = {u1}
  Contacts = {c1, c2}
  SosIds = {s1}
  Pins = {}
  Workers = {w1}
  Ops = {"trigger", "resolve"}
  MAX_CANCEL_ATTEMPTS = 2
  MaxFaults = 1
  Calls <- MCCalls
  OtpTexts = {o1}
  MaxRetries = 1
  Buckets = 1
INVARIANTS
  OkMeansTexted
  FailuresIsolated
  ProbeUnderWay
PROPERTIES
  ImplementsSos
  AlarmRecorded
