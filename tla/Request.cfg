CONSTANTS
  a = a
  b = b
  Requests = {a, b}
  Used <- AllUsed
  Grouped <- GroupUsed
  MaxConns = 1
  MaxOps = 1
SPECIFICATION FairSpec
INVARIANTS TypeOK NothingLeaked OnlyAdmitted LoggedOnce CountedAsLogged
PROPERTY EveryRequestAnswered
CHECK_DEADLOCK FALSE
