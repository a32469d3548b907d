SPECIFICATION PartsSpec
SYMMETRY PartsSymmetry
CONSTANTS
  Reqs = {r1, r2, r3}
  Launches = {"plain", "adaptive_sync", "adaptive_async"}
  Width = 3
  Tile = 2
  MaxModelLen = 9
  MaxNumSeqs = 2
  Frontier = 4
  RawPrompts = {0, 3, 12}
  RawLimits = {0, 4, 9}
  SaK = 2
  SaVocab = 4
  SaMaxOut = 4
  SvReqs = {r1, r2}
  SvK = 2
  SvRoom = 5
  SvMinTokens = 2
  SvNeeds = {{}, {"sampled"}, {"penalised"}, {"logprobs"}, {"grammar"}, {"min_tokens"}}
  SvAmounts = {0, 2}
  SvLaunches <- MCPlans
  LcLaunches <- MCLaunches
  LcTile = 4
  LcBlock = 4
  PaConfigs = {c1, c2, c3, c4}
  PaBlocks = {c1, c2}
  PrReqs = {r1, r2}
  PrEngines = 2
  PrSize = 2
  PrTail = 0
  PrCapacity = 2
  PrSlots = 1
  PrPressures = {0, 2}
  PrPrompts <- MCPrompts
  CpReqs = {r1, r2}
  CpAligns = {0, 3, 4}
  CpBlock = 2
  CpLengths = {1, 7}
  CpMaxTokens = 8
  CpBudgets = {4, 5, 7}
  CpThresholds = {0, 5}
  SfReqs = {r1, r2, r3}
  SfMaxNumSeqs = 2
  SfMaxLen = 6
  SfBlock = 2
  SfBudget = 3
  SfPrompts = {1, 3}
  SfPools = {6, 7}
INVARIANTS
  NoFault ReservedIsOwed MirrorAgrees CanvasFits CommitsAsPlain KeepsDistribution
  ServedFaithfully StepsAreServed AdmittedServes ContractIsLive CreditIsSent ChunksAdvance
  FramesUnbroken
CHECK_DEADLOCK FALSE
