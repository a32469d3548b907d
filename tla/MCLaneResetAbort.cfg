SPECIFICATION Spec
SYMMETRY ReqSymmetry
CONSTANTS
  Reqs = {r1, r2}
  NumLanes = 2
  PerLaneMax = 1
  ActiveCap = 1
  PrefixRouting = FALSE
  AbortKeepsPreempt = TRUE
  InterleaveEnabled = TRUE
  PrefillSteps = 2
  DecodeSteps = 1
  RunCap = 2
PROPERTY PreemptedAbortReleasesRow
