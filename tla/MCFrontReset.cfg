SPECIFICATION Spec
SYMMETRY ReqSymmetry
CONSTANTS
  Reqs = {r1, r2}
  MaxNumSeqs = 2
  KvGens = 2
  ForcedReset = TRUE
  DecodeMayRaise = TRUE
  InterleaveEnabled = TRUE
  PrefillSteps = 1
  DecodeSteps = 1
  RunCap = 1
INVARIANTS RowBlocksCurrent
