CONSTANTS
  LeaseTTL = 100
  MaxLag = 16
  MaxMissed = 1
SPECIFICATION Spec
INVARIANTS TypeOK NeverExpires
