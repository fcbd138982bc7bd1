CONSTANTS
  n1 = n1
  n2 = n2
  bj = bj
  sh = sh
  test = test
  prod = prod
  u1 = u1
  u2 = u2
  Kind = "mysql"
  Mode = "file"
  Configs <- InFile
  Broken <- Unparsed
  MaxGen = 3
  MaxTurn = 2
  MyIdc = bj
  MyEnv = test
  Any = Any
  Users = {u1}
  None = None
  MaxFaults = 1
SPECIFICATION FairSpec
INVARIANTS TypeOK SmoothSwitch SlaveNotAhead ServedThroughChanges
PROPERTY LatestApplied
CHECK_DEADLOCK FALSE
