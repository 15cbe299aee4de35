\* The default configuration with four jobs, the other one with two: the oldest
\* record is dropped, and two jobs are sent at once while the difficulty moves.
SPECIFICATION SessionSpec
CONSTANTS
  Diffs = {1, 2, 4}
  DefaultDiff = 2
  StoredDiffs = {0, 4}
  Passwords = {0, 1}
  Configs <- MCConfigs
  Broadcasters = {"poll", "zmq"}
  MaxJobHistory = 2
  MaxJobDiffs = 3
  MaxJobs <- MCMaxJobs
  MaxAuthorizes = 1
  MaxSuggests = 1
INVARIANTS BroadcastWorkAccepted VardiffInStep MinerInStep
CHECK_DEADLOCK FALSE
