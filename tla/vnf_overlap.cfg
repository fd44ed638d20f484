SPECIFICATION Spec
CONSTANTS
  fw = fw
  vr = vr
  w1 = w1
  w2 = w2
  v1 = v1
  v2 = v2
  Devices = {fw, vr}
  PaDevices = {fw}
  NoDevice = NoDevice
  Vmids = {v1, v2}
  NoVmid = NoVmid
  Workers = {w1, w2}
  MaxFaults = 1
  OneJob = FALSE
  TasksOver = TRUE
  Prompt = TRUE
SYMMETRY VnfSymmetry
PROPERTIES RollbackSparesActive
