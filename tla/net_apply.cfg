SPECIFICATION HFairSpec
CONSTANTS
  Runs = {1, 2}
  Contents = {"factory", "good", "bad"}
  Factory = "factory"
  Absent = "absent"
  Reaches = {"factory", "good"}
  MaxFaults = 3
  InWindow = TRUE
  Quick = TRUE
  None = None
  Macs = {"m1", "m2", "m3"}
  Xcc = "xcc"
  Topologies <- MCTopologies
  Nodes <- MCNodes
  Forgotten = Forgotten
INVARIANTS NetTypeOK NeverStranded DoneIsKept BondsDoNotConfuse
PROPERTIES ComesBack InstallCableKept
CHECK_DEADLOCK FALSE
