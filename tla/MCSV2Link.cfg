\* One miner, one push at a time, jobs of two chunks on extended channels.
SPECIFICATION FairLinkSpec
CONSTANTS
  Pushers = {p1}
  Payloads <- MCPayloads
  Path = 2
  Coinb1 = 40000
  Coinb2 = 30000
  MaxChannels = 1
  Window = 2
  Cap = 2
INVARIANTS FramesArriveWhole DecodersInBounds QuietMinerKept
PROPERTIES SilentMinerDropped CloseFreesWriters
CHECK_DEADLOCK FALSE
