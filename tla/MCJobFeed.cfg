\* Two tips that alternate in pool mode: a tip can come back.
SPECIFICATION FairSpec
CONSTANTS
  Modes = {TRUE, FALSE}
  t1 = t1  t2 = t2  a1 = a1  a2 = a2  s1 = s1  s2 = s2
  Tips <- MCTips
  NoTip = NoTip
  Addrs = {a1}
  Buildable = {a1}
  NoAddr = NoAddr
  Sessions = {s1}
  History = 2
  MaxFailures = 2
  MaxTipChanges = 2
  MaxJobs = 2
  MaxCount = 1
INVARIANT Coinb1Complete
PROPERTIES FeedSpec TipFollowed
CHECK_DEADLOCK FALSE
