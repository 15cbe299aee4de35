\* The default configuration alone.
SPECIFICATION SessionSpec
CONSTANTS
  Diffs = {1, 2, 4}
  DefaultDiff = 2
  StoredDiffs = {0, 4}
  Passwords = {0, 1}
  Configs <- MCDefault
  Broadcasters = {"poll", "zmq"}
  MaxJobHistory = 2
  MaxJobDiffs = 3
  MaxJobs <- MCMaxJobs
  MaxAuthorizes = 1
  MaxSuggests = 1
INVARIANT WorkAccepted
CHECK_DEADLOCK FALSE
