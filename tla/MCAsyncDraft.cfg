SPECIFICATION Spec
CONSTANTS
  Reqs = {r1}
  HostSampled = {}
  Speculable = {r1}
  Chunked = {}
  SeparateOutput = TRUE
  MaxTokens = 6
  MaxDisruptions = 1
INVARIANT DraftsContinueTail
CHECK_DEADLOCK FALSE
