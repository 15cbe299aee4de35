\* The worker is assigned to the second coin, and one coin dies.
SPECIFICATION FairSpec
CONSTANTS
  A = A
  B = B
  Coins <- MCCoins
  NoCoin = NoCoin
  Split = Split
  Assignments = {B}
  Targets <- NoMoves
  MaxTracked = 1
  MaxJobs = 2
  MaxEvents = 1
  MaxShares = 0
PROPERTY MinerServed
CHECK_DEADLOCK FALSE
