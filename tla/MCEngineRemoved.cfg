SPECIFICATION FairSpec
CONSTANTS
  c1 = c1  c2 = c2  p1 = p1  p2 = p2
  Configs <- MCConfigs
  Disabled = Disabled
  NoFile = NoFile
  Ports = {p1, p2}
  Port <- MCPort
  NoPort = NoPort
  NodeStates = {"offline", "nopeers", "ready"}
  MaxEdits = 1
  MaxOutages = 1
  MaxReloads = 0
  MaxChanges = 2
PROPERTIES RemovedCoinStops
CHECK_DEADLOCK FALSE
