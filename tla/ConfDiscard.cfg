CONSTANTS
  mysql = mysql
  dot = dot
  c1 = c1
  c2 = c2
  s1 = s1
  s2 = s2
  Files = {mysql}
  Hidden = {}
  Consumers = {c1}
  FileOf <- OneMysql
  ByValue = {c1}
  Stoppers = {}
  ChCap = 1
  MaxVersion = 4
  MaxQueue = 2
  MaxFaults = 0
SPECIFICATION Spec
INVARIANT SetterUpToDate
CHECK_DEADLOCK FALSE
