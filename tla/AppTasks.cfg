SPECIFICATION FairSpec
CONSTANTS
  MaxFail = 2
  Width = 5
  MaxCerts = 7
  MaxFaults = 5
INVARIANTS
  TypeOK
  TransportIsFree
PROPERTIES
  RenewalIsKept
  TransportIsUsed
  LoadsWholeCert
  StrandedOnlyAtStart
  Reconnects
