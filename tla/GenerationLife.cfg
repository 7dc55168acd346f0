SPECIFICATION FairSpec
CONSTANTS
  a = a
  b = b
  o1 = o1
  o2 = o2
  Images = {a, b}
  SizeOf <- SameSize
  Shapes = {o1, o2}
  Requests <- AllRequests
  MaxTiles = 2
  NoLatent = NoLatent
  NoImage = NoImage
INVARIANTS
  TypeOK
  OneModelOnDevice
  NothingLeft
  WeightsAlive
  ReferencesInOrder
  PositionsCurrent
PROPERTIES
  Returns
CHECK_DEADLOCK FALSE
