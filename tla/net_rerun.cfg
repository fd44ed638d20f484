SPECIFICATION HSpec
CONSTANTS
  Runs = {1, 2}
  Contents = {"factory", "good", "bad"}
  Factory = "factory"
  Absent = "absent"
  Reaches = {"factory", "good"}
  MaxFaults = 1
  InWindow = TRUE
  Quick = TRUE
  None = None
  Macs = {"m1", "m2", "m3"}
  Xcc = "xcc"
  Topologies <- MCTopologies
  Nodes <- MCNodes
  Forgotten = Forgotten
INVARIANTS RerunConverges
CHECK_DEADLOCK FALSE
