CONSTANTS
  a = a
  b = b
  x = x
  y = y
  z = z
  Absent = Absent
  Calls = {a, b}
  NameOf <- SameName
  KeyOf <- SameKey
  Callers = {x, y}
  Target <- CancelBoth
  MaxFaults = 0
SPECIFICATION Spec
INVARIANT CloseDeregisters
CHECK_DEADLOCK FALSE
