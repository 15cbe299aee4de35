\* Both modes; two sessions that may share an address; a tip change or two polls that
\* fail; one transaction update.  MCJobAddresses.cfg has an address that cannot be paid.
SPECIFICATION FairSpec
CONSTANTS
  Modes = {TRUE, FALSE}
  t1 = t1  t2 = t2  a1 = a1  a2 = a2  s1 = s1  s2 = s2
  Tips <- MCTips
  NoTip = NoTip
  Addrs = {a1}
  Buildable = {a1}
  NoAddr = NoAddr
  Sessions <- MCSessions
  History = 2
  MaxFailures = 2
  MaxTipChanges = 1
  MaxJobs = 2
  MaxCount = 2
INVARIANTS SoloCoverage SentJobsPayable
PROPERTIES FeedSpec TipFollowed
CHECK_DEADLOCK FALSE
