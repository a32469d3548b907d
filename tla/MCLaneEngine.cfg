SPECIFICATION FairSpec
CONSTANTS
  Reqs = {r1, r2}
  NumLanes = 1
  PerLaneMax = 2
  ActiveCap = 2
  PrefixRouting = FALSE
  AbortKeepsPreempt = FALSE
  InterleaveEnabled = TRUE
  PrefillSteps = 2
  DecodeSteps = 2
  RunCap = 3
INVARIANTS DecodeStallBound PrefillStallBound
PROPERTY RowsComeBack
