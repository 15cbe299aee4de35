SPECIFICATION Spec
CONSTANTS
  Modes = {TRUE}
  t1 = t1  t2 = t2  a1 = a1  a2 = a2  s1 = s1  s2 = s2
  Tips <- MCTips
  NoTip = NoTip
  Addrs <- MCAddrs
  Buildable = {a1}
  NoAddr = NoAddr
  Sessions <- MCSessions
  History = 2
  MaxFailures = 1
  MaxTipChanges = 1
  MaxJobs = 0
  MaxCount = 2
INVARIANTS TypeOK NewestJobsHonoured SoloCoverage SentJobsPayable Coinb1Complete AddressesCounted
SYMMETRY MCSymmetry
CHECK_DEADLOCK FALSE
