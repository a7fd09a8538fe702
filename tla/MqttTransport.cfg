SPECIFICATION Spec
CONSTANTS
  TableSize = 5
  MaxFaults = 5
INVARIANTS
  TypeOK
  ClosedIsFree
  PointerIsHeld
  OwnSession
  TableHasRoom
PROPERTIES
  TransportIsServed
  FreesItsContext
CHECK_DEADLOCK FALSE
