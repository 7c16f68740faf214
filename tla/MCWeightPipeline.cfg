SPECIFICATION Spec
CONSTANTS
  NumBuffers = 2
  NumWeights = 3
  MaxCalls = 6
  MaxPipelines = 2
  m0 = m0
  m1 = m1
  m2 = m2
  m3 = m3
  Torn = Torn
  Empty = Empty
  Blocks <- MCBlocks
  Weights <- MCWeights
  Allocations <- StablePlacements
INVARIANTS
  TypeOK
  NoTransferConflict
  GemvReadsItsWeight
  NextTransferOverlaps
  PrimedAhead
  DroppedBuffersQuiet
PROPERTY
  WeightsInOrder
\* The host stops at the bound on calls.
CHECK_DEADLOCK FALSE
