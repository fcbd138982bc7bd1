CONSTANTS
  mysql = mysql
  dot = dot
  c1 = c1
  c2 = c2
  s1 = s1
  s2 = s2
  Files = {mysql, dot}
  Hidden = {dot}
  Consumers = {c1, c2}
  FileOf <- AllMysql
  ByValue = {c2}
  Stoppers = {s1, s2}
  ChCap = 1
  MaxVersion = 3
  MaxQueue = 1
  MaxFaults = 1
SPECIFICATION FairSpec
INVARIANTS TypeOK NoLostWrite ContentBeforeEvent NoLostUpdate
PROPERTIES VersionsNeverGoBack ImplementsCell ReportedWriteLoads SomeStopReturns
CHECK_DEADLOCK FALSE
