SPECIFICATION Spec
CONSTANTS
  NumBuffers = 2
  NumWeights = 1
  MaxCalls = 6
  MaxPipelines = 2
  m0 = m0
  m1 = m1
  m2 = m2
  m3 = m3
  Torn = Torn
  Empty = Empty
  Blocks <- MCBlocks
  Weights <- MCWeights
  Allocations <- AnyPlacements
INVARIANT NoTransferDuringRead
\* One matrix a pass, so that every pipeline ends behind whole passes.
\* The host stops at the bound on calls.
CHECK_DEADLOCK FALSE
