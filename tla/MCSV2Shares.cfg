\* Three difficulties, two senders, six shares of which two may be on their way:
\* a share can be judged two changes after it was mined.
SPECIFICATION FairSpec
CONSTANTS
  Diffs = {1, 2, 3}
  StartDiff = 2
  Senders = {"push", "keeper"}
  MinShares = 2
  FirstSeqs = {0, 7}
  MaxSubmits = 6
  MaxChanges = 2
  MaxInFlight = 2
INVARIANT DifficultyInStep
PROPERTIES HonestShareKept PendingReachesMiner
CHECK_DEADLOCK FALSE
