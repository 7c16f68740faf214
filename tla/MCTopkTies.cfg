SPECIFICATION Spec
CONSTANTS
  NumWarps = 2
  N = 4
  MaxVal = 4
  Eps = 1
  Iters = 2
INVARIANT AboveTauSelected
