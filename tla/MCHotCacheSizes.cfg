SPECIFICATION SizesSpec
CONSTANTS
  I = 8
  dip_k = 5
  Sizes = {2, 3}
  decay_every = 2
  MaxTokens = 5
INVARIANT LargerLruNeverHurts
\* A trace ends.
CHECK_DEADLOCK FALSE
