CONSTANTS
  user = user
  note = note
  r1 = r1
  r2 = r2
  NoIns = NoIns
  Names = {user, note}
  Services = {user}
  Under <- NoteUnder
  Foreign = {note}
  Resolvers = {r1, r2}
  SnOf <- BothUser
  MaxRev = 2
  MaxQueue = 1
  MaxFaults = 1
SPECIFICATION FairSpec
INVARIANTS TypeOK NotifiedHasData NoLostWakeup
PROPERTIES StoredNeverGoesBack NoTokenAfterClose ImplementsCell HealedByRenewal WatchersStop
CHECK_DEADLOCK FALSE
