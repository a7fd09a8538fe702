SPECIFICATION FairSpec
CONSTANTS
  MaxCerts = 10
  MaxSlow = 2
  MaxLost = 3
  MaxStray = 2
INVARIANTS
  TypeOK
PROPERTIES
  RenewsInOrder
  ReplacedByRegistered
  Provisions
CHECK_DEADLOCK FALSE
