SPECIFICATION Spec
CONSTANTS
  NJobs = 3
  OtaJobs = {2}
  PrefixOf <- MCPrefixOf
  MaxList = 2
  MaxSlow = 2
  MaxLost = 2
  MaxStray = 2
INVARIANTS
  TypeOK
  SuccessIsTrue
