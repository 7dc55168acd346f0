SPECIFICATION Spec
CONSTANTS
  a = a
  b = b
  o1 = o1
  o2 = o2
  Images = {a, b}
  SizeOf <- TwoSizes
  Shapes = {o1, o2}
  Requests <- FewRequests
  MaxTiles = 2
  NoLatent = NoLatent
  NoImage = NoImage
INVARIANT
  PositionsCurrent
CHECK_DEADLOCK FALSE
