\* Two channels, two callbacks, two UpdateTemplate goroutines, the reader and the keepalive:
\* a channel opens while templates of two blocks are under way.
SPECIFICATION Spec
CONSTANTS
  poll = poll
  zmq = zmq
  push1 = push1
  push2 = push2
  Channels = {1, 2}
  Payable = {1}
  Feeders <- MCFeeders
  Pushers <- MCPushers
  MaxStaleJobs = 1
  MaxTemplateHistory = 1
  MaxTemplates = 2
  MaxTips = 2
  MaxKeepalives = 2
  MaxCrowd = 2
SYMMETRY Alike
INVARIANTS NewestJobsJudged PaysItsWorker NewestReachesAll SerialSendersAgree
CHECK_DEADLOCK FALSE
