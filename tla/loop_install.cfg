SPECIFICATION Spec
CONSTANTS
  t1 = t1
  t2 = t2
  Threads = {t1, t2}
  NoThread = NoThread
  Serials = {"sn1"}
  MaxKeys = 6
  ReadFaults = FALSE
  TtlPasses = FALSE
  MaxTokens = 2
  MaxFaults = 1
  Attempts = 2
  MaxArms = 2
  MaxBoots = 2
  BaselineRuns = TRUE
  Nested = {"sn1"}
SYMMETRY ThreadSymmetry
INVARIANTS LoopTypeOK NamedGroupExists InstalledIsProven CompleteMeansStored
PROPERTIES InstalledStaysClosed
CHECK_DEADLOCK FALSE
