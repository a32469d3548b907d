SPECIFICATION Spec
CONSTANTS
  Reqs = {r1, r2}
  HostSampled = {r1}
  Speculable = {r1, r2}
  Chunked = {r1}
  SeparateOutput = TRUE
  MaxTokens = 5
  MaxDisruptions = 2
INVARIANTS NoFault LateResultsWithdrawn FramesOutstanding InputsCurrent OverlapsOnlySteady
PROPERTY StreamKept
CHECK_DEADLOCK FALSE
