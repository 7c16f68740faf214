SPECIFICATION KernelsSpec
CONSTANTS
  NumWarps = 2
  MaxLen = 3
  Values <- MCValues
  Sum <- MCSum
  Lowest <- MCLowest
  NumRows = 2
  NumLanes = 2
  Lengths = {1, 8, 13, 16, 23, 33}
  GroupSizes = {4, 6, 8, 16}
  split = 3
INVARIANTS
  RaceFree
  AttendsToWholeCache
  ProductExact
  UnpackRestores
  LoadsAligned
