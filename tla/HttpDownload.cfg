SPECIFICATION FairSpec
CONSTANTS
  Length = 7
  Buffer = 3
  Word = 32
  Codes = {1, 2}
  MaxFaults = 3
  MaxRenewals = 3
INVARIANTS
  TypeOK
  StuckOnlyWithoutPort
  SocketIsLeft
  SuccessIsWhole
PROPERTIES
  DownloadEnds
