SPECIFICATION FairAssignSpec
CONSTANTS
  w1 = w1
  w2 = w2
  A = A
  B = B
  Workers <- AllWorkers
  Edited <- OneRoams
  Coins <- TwoCoins
  Nowhere = Nowhere
  NoRow = NoRow
  MeshAuto = MeshAuto
  Allocations <- PinAndSplit
  Hash <- Rates
  NetDiff <- Difficulties
  Targets <- Splits
  Tolerance = 5
  MaxMoves = 3
  MaxEdits = 1
  MaxFleetEvents = 1
INVARIANT ChoiceHeld
PROPERTIES PlacementSettles FleetConverges
CHECK_DEADLOCK FALSE
