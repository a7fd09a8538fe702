SPECIFICATION FairSpec
CONSTANTS
  NJobs = 3
  OtaJobs = {2}
  PrefixOf <- MCPrefixOf
  MaxList = 2
  MaxSlow = 3
  MaxLost = 2
  MaxStray = 0
PROPERTIES
  NoRunAfterEnd
  QueuedIsStarted
  EveryJobEnds
  JobsAreAtomic
