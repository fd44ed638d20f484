SPECIFICATION Spec
CONSTANTS
  Runs = {1, 2}
  Slots = {1, 2}
  Old = Old
  None = None
  Test = Test
  Lab = TRUE
  Quiet = TRUE
  MaxArms = 1
  MaxFaults = 2
INVARIANTS JobTypeOK
PROPERTIES ReportIsTrue InstallerKeepsMedium DiskBootProven WipesOnce
CHECK_DEADLOCK FALSE
