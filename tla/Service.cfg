CONSTANTS
  db = db
  r1 = r1
  r2 = r2
  n1 = n1
  n2 = n2
  bj = bj
  test = test
  u1 = u1
  Names = {db}
  Services = {db}
  Under <- AloneUnder
  Foreign = {}
  Resolvers = {r1, r2}
  SnOf <- BothDb
  NoIns = NoIns
  MaxRev = 2
  MaxQueue = 1
  MaxFaults = 0
  MaxTurn = 1
  Loader = r1
  Data <- TwoData
  Kind = "redis"
  MyIdc = bj
  MyEnv = test
  Any = Any
  Users = {u1}
  None = None
SPECIFICATION FairService
INVARIANTS ServiceOK NoLostReload
PROPERTIES FollowsRegistration ImplementsPool
CHECK_DEADLOCK FALSE
