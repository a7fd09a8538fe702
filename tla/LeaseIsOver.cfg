SPECIFICATION Spec
CONSTANTS
  Wrap = 12
  Word = 40
  PerSecond = 2
  Leases = {2, 9}
  DhcpTimeout = 6
  MaxRetries = 1
  FailDelay = 1
  MaxHold = 2
  MaxAge = 26
  MaxDrops = 2
PROPERTIES
  RenewsWhenOver
