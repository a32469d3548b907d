SPECIFICATION Spec
SYMMETRY ReqSymmetry
CONSTANTS
  Reqs = {r1, r2, r3}
  NumLanes = 2
  PerLaneMax = 2
  ActiveCap = 2
  PrefixRouting = TRUE
  AbortKeepsPreempt = FALSE
  InterleaveEnabled = TRUE
  PrefillSteps = 1
  DecodeSteps = 1
  RunCap = 1
INVARIANTS NoFault RunnerAgrees SessionFollowsRow RowsExclusive
PROPERTY StableRow
