SPECIFICATION Spec
CONSTANTS
  Requests = {r1, r2}
  Diffs <- MCDiffs
  MaxShares = 3
  MaxEvents = 3
  MaxCalls = 3
INVARIANTS NeverTwice WorkCreditedOnce ContextNotAhead
SYMMETRY Symmetry
CHECK_DEADLOCK FALSE
