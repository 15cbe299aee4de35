\* The worker is pinned to the second coin, split over both, or left to the
\* configured order; then one coin dies, or a slice begins, or the user pins the
\* worker elsewhere.  Jobs of the two coins carry the same numbers.  A session that
\* waits for its miner and its coins, within their bounds, has nothing to do.
SPECIFICATION FairSpec
CONSTANTS
  A = A
  B = B
  Coins <- MCCoins
  NoCoin = NoCoin
  Split = Split
  Assignments = {B, Split, NoCoin}
  Targets <- PinMoves
  MaxTracked = 2
  MaxJobs = 2
  MaxEvents = 1
  MaxShares = 1
INVARIANTS SharesReachIssuer ActiveIsLive
PROPERTIES HomeReached SliceReached
CHECK_DEADLOCK FALSE
