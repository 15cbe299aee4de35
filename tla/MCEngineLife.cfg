\* Every pair of callers overlaps; two edits, so that one falls within the second in
\* which events are dropped; the node failing and coming back, one API reload; three
\* of these in all.  A syncing node is treated as an offline one by handleCoinConfig and
\* as one without peers by CoinRunner.Start.
SPECIFICATION MCFairSpec
CONSTANTS
  c1 = c1  c2 = c2  p1 = p1  p2 = p2
  Configs <- MCConfigs
  Disabled = Disabled
  NoFile = NoFile
  Ports = {p1, p2}
  Port <- MCPort
  NoPort = NoPort
  NodeStates = {"offline", "nopeers", "ready"}
  MaxEdits = 2
  MaxOutages = 2
  MaxReloads = 1
  MaxChanges = 3
INVARIANT OneServes
PROPERTY PoolComesBack
CHECK_DEADLOCK FALSE
