SPECIFICATION Spec
CONSTANTS
  Runs = {1, 2, 3}
  Old = Old
  None = None
  Alone = TRUE
  MaxEdits = 1
  MaxFaults = 2
INVARIANTS BaselineTypeOK
PROPERTIES TokenIsStored LeastPrivilege ServesSot
CHECK_DEADLOCK FALSE
