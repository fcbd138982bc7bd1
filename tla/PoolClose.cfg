CONSTANTS
  n1 = n1
  n2 = n2
  bj = bj
  sh = sh
  test = test
  prod = prod
  u1 = u1
  u2 = u2
  Kind = "mysql"
  Mode = "naming"
  Configs <- InNaming
  Broken = {}
  MaxGen = 2
  MaxTurn = 2
  MyIdc = Any
  MyEnv = test
  Any = Any
  Users = {u1, u2}
  None = None
  MaxFaults = 0
SPECIFICATION Spec
INVARIANT CloseReleases
CHECK_DEADLOCK FALSE
