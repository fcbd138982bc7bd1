CONSTANTS
  n1 = n1
  n2 = n2
  bj = bj
  sh = sh
  test = test
  prod = prod
  u1 = u1
  u2 = u2
  Kind = "redis"
  Mode = "file"
  Configs <- Nodes
  Broken = {}
  MaxGen = 1
  MaxTurn = 1
  MyIdc = Any
  MyEnv = test
  Any = Any
  Users = {u1, u2}
  None = None
  MaxFaults = 0
SPECIFICATION Spec
INVARIANT EveryNodeReached
CHECK_DEADLOCK FALSE
