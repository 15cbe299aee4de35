\* The worker is assigned to the second coin; nothing dies.
SPECIFICATION Spec
CONSTANTS
  A = A
  B = B
  Coins <- MCCoins
  NoCoin = NoCoin
  Split = Split
  Assignments = {B}
  Targets <- NoMoves
  MaxTracked = 1
  MaxJobs = 2
  MaxEvents = 0
  MaxShares = 0
INVARIANT JobsMatchExtranonce
CHECK_DEADLOCK FALSE
