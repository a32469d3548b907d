SPECIFICATION FairSpec
CONSTANTS
  Callers = {t1, t2, t3}
  ReadMayFail = TRUE
INVARIANTS ReadOnce OneOutcome NoEmptyReplay EventMeansQueued
PROPERTY CallsReturn
