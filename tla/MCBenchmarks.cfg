SPECIFICATION Spec
CONSTANTS
  I = 5
  dip_k = 3
  Sizes = {0, 1, 2, 3, 5}
  decay_every = 2
  MaxTokens = 4
  MatrixRows = 2
  RowLength = 3
  WeightValues = {0, 4, 10, 17}
  Group128 = 3
  Block32 = 2
  Tiny = 1000
  NumLayers = 2
  IntermediateSize = 3
  CachePercents = {10, 60}
  dense_row_bytes = 10
  up_row_nbytes = 1
  down_row_nbytes = 2
  CalibTokens = 1
  PromptLength = 1
  N_GEN_TOKENS = 2
  Horizon = 3
  MaxCopies = 3
  MaxKernels = 2
INVARIANTS
  LfuKeepsFrequent
  StaticIsBestFixedSet
  LargerLfuNeverHurts
  RowsFromPristine
  ReconstructionBounded
  RowsMatchTransfers
  OverlapExact
PROPERTY
  LruServesMostRecent
\* The trace, the sweep, the table and the profile end.
CHECK_DEADLOCK FALSE
