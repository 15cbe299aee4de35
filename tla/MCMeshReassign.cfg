\* The worker is reassigned once, at any moment, or a coin dies; jobs of the two
\* coins carry the same numbers.
SPECIFICATION Spec
CONSTANTS
  A = A
  B = B
  Coins <- MCCoins
  NoCoin = NoCoin
  Split = Split
  Assignments = {NoCoin}
  Targets <- AnyMoves
  MaxTracked = 2
  MaxJobs = 2
  MaxEvents = 1
  MaxShares = 1
INVARIANTS SharesReachIssuer ActiveIsLive
CHECK_DEADLOCK FALSE
