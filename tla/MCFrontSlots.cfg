SPECIFICATION Spec
SYMMETRY ReqSymmetry
CONSTANTS
  Reqs = {r1, r2, r3}
  MaxNumSeqs = 2
  KvGens = 1
  ForcedReset = TRUE
  DecodeMayRaise = TRUE
  InterleaveEnabled = TRUE
  PrefillSteps = 1
  DecodeSteps = 1
  RunCap = 1
INVARIANTS NoFault NoSlotLeak DecodeReadsOwnState
PROPERTY LayoutChangeAnnounced
