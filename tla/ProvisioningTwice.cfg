SPECIFICATION Spec
CONSTANTS
  MaxCerts = 3
  MaxSlow = 1
  MaxLost = 0
  MaxStray = 1
INVARIANTS
  SavedWasRegistered
CHECK_DEADLOCK FALSE
