SPECIFICATION Spec
SYMMETRY ReqSymmetry
CONSTANTS
  Reqs = {r1, r2, r3}
  MaxNumSeqs = 3
  KvGens = 2
  ForcedReset = FALSE
  DecodeMayRaise = FALSE
  InterleaveEnabled = TRUE
  PrefillSteps = 1
  DecodeSteps = 1
  RunCap = 1
INVARIANTS StateFollowsRequest SessionsMatchSlots RowBlocksCurrent
