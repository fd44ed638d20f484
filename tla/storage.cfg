SPECIFICATION Spec
CONSTANTS
  Drives = {1, 2, 3, 4, 5, 6}
  Layout <- MCLayout
  Runs = {1, 2}
  Adapters <- MCAdapters
  Partial <- MCPartial
  MaxFaults = 2
INVARIANTS ApplyTypeOK BuiltOfGood RolesApart ListingOrderBlind RerunKeeps
PROPERTIES InstallsOnBoot
CHECK_DEADLOCK FALSE
