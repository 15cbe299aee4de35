SPECIFICATION Spec
CONSTANTS
  MaxConns = 4
  MaxEvents = 2
  MaxQueue = 2
INVARIANTS OneReader AliveIsRead NothingLeftOpen
CHECK_DEADLOCK FALSE
