SPECIFICATION Spec
CONSTANTS
  Runs = {1, 2, 3}
  Old = Old
  None = None
  Alone = TRUE
  MaxEdits = 2
  MaxFaults = 1
PROPERTIES UserRecreated
CHECK_DEADLOCK FALSE
