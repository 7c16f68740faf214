SPECIFICATION GemvSpec
CONSTANTS
  NumRows = 2
  NumLanes = 2
  Lengths = {8}
  GroupSizes = {4}
  split = 3
INVARIANT ScalesInRow
\* A launch ends.
CHECK_DEADLOCK FALSE
