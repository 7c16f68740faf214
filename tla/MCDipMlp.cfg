SPECIFICATION Spec
CONSTANTS
  NumLayers = 2
  I = 3
  dip_k = 2
  MaxTokens = 2
  Unset = Unset
INVARIANTS
  ReadsSelectedRows
  StagingNotInFlight
  ReportedBytesMatch
  OnlyMissesTransferred
  CountsMatchTrace
