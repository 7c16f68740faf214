SPECIFICATION Spec
CONSTANTS
  Unwritten = Unwritten
  None = None
  LinearSuffixes <- MCSuffixes
  Dims = {1, 2, 4}
  GroupSizes = {2, 4}
  NumLayers = 2
  PackGroup = 2
  PackBytes = 1
INVARIANT PlanIsExact
\* A load that ended does nothing more.
CHECK_DEADLOCK FALSE
