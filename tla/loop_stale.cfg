SPECIFICATION Spec
CONSTANTS
  t1 = t1
  t2 = t2
  Threads = {t1, t2}
  NoThread = NoThread
  Serials = {"sn1"}
  MaxKeys = 4
  ReadFaults = FALSE
  TtlPasses = FALSE
  MaxTokens = 3
  MaxFaults = 2
  Attempts = 2
  MaxArms = 1
  MaxBoots = 1
  BaselineRuns = TRUE
  Nested = {}
SYMMETRY ThreadSymmetry
PROPERTIES StoredGroupStays
CHECK_DEADLOCK FALSE
