SPECIFICATION FairSpec
CONSTANTS
  t1 = t1
  t2 = t2
  Threads = {t1, t2}
  NoThread = NoThread
  Serials = {"sn1"}
  MaxKeys = 3
  ReadFaults = FALSE
  TtlPasses = TRUE
  MaxTokens = 3
  MaxFaults = 3
  Attempts = 2
  MaxArms = 1
  MaxBoots = 1
  BaselineRuns = FALSE
  Nested = {}
INVARIANTS KeyLossInv SpentAfterEffect 
PROPERTIES GateCloses
CHECK_DEADLOCK FALSE
