SPECIFICATION Spec
CONSTANTS
  NumLayers = 2
  max_seq_len = 3
  Tokens = {a, b}
  MaxInput = 4
  MaxNew = 2
  None = None
  Zero = Zero
INVARIANTS
  LogitsSeeWholePrefix
  ReturnsBetweenPasses
  EndsAtEosOrBudget
  FailsOnlyPastCapacity
  ScoresEveryNextToken
