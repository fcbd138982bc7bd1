CONSTANTS
  a = a
  b = b
  x = x
  y = y
  z = z
  Absent = Absent
  Calls = {a, b}
  NameOf <- SameName
  KeyOf <- SameKey
  Callers = {x, y, z}
  Target <- CancelTwice
  MaxFaults = 2
SPECIFICATION FairSpec
INVARIANTS TypeOK OneRegistrationPerName LiveInEtcd
PROPERTIES KeyLostOnlyByFault GoneEventually HeartbeatRestores FirstCancelReturns
CHECK_DEADLOCK FALSE
