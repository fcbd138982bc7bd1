CONSTANTS
  user = user
  note = note
  r1 = r1
  r2 = r2
  NoIns = NoIns
  Names = {user}
  Services = {user}
  Under <- AloneUnder
  Foreign = {}
  Resolvers = {r1, r2}
  SnOf <- BothUser
  MaxRev = 2
  MaxQueue = 0
  MaxFaults = 0
SPECIFICATION FairSpec
PROPERTY DeletedEventuallySeen
CHECK_DEADLOCK FALSE
