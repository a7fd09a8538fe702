SPECIFICATION Spec
CONSTANTS
  MaxFail = 1
  Width = 4
  MaxCerts = 3
  MaxFaults = 2
PROPERTIES
  RenewsAfterFailures
