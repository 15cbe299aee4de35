\* Two solutions of one protocol or of both, whose handlers overlap, and one failure of
\* the node or of building or storing a block.
SPECIFICATION Spec
CONSTANTS
  first = first
  second = second
  Solutions <- MCSolutions
  MaxForeign = 2
  Syncers = {"ticker", "ui"}
  XEC = TRUE
  MaxAttempts = 2
  BlockMatureAt = 2
  MaxFaults = 1
SYMMETRY Alike
INVARIANTS WorkCountedOnce UnsubmittedIsKept MarksSettle
CHECK_DEADLOCK FALSE
