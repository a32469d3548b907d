SPECIFICATION FairSpec
CONSTANTS
  Reqs = {r1, r2}
  HostSampled = {}
  Speculable = {}
  Chunked = {r1, r2}
  SeparateOutput = FALSE
  MaxTokens = 4
  MaxDisruptions = 1
PROPERTY RequestsFinish
CHECK_DEADLOCK FALSE
