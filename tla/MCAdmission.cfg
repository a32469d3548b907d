SPECIFICATION PaSpec
CONSTANTS
  PaConfigs = {a, c, b}
  PaBlocks = {b}
INVARIANT BlockEngineAlone
CHECK_DEADLOCK FALSE
