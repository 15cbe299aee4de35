\* Run by hand: the types of MeshBackend, and that a lost backend comes back.
SPECIFICATION FairSpec
CONSTANTS
  MaxConns = 4
  MaxEvents = 2
  MaxQueue = 2
INVARIANT TypeOK
PROPERTY ComesBack
CHECK_DEADLOCK FALSE
