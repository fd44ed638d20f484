SPECIFICATION MCSpec
CONSTANTS
  fw = fw
  vr = vr
  w1 = w1
  w2 = w2
  v1 = v1
  v2 = v2
  Devices = {fw, vr}
  PaDevices = {fw}
  NoDevice = NoDevice
  Vmids = {v1, v2}
  NoVmid = NoVmid
  Workers = {w1, w2}
  MaxFaults = 3
  OneJob = TRUE
  TasksOver = TRUE
  Prompt = TRUE
  f = f
  g = g
  a = a
  b = b
  i1 = i1
  i2 = i2
  j1 = j1
  j2 = j2
  Files = {f, g}
  Images = {a, b}
  Size <- MCSize
  Versions = {i1, i2}
  Nothing = Nothing
  Jobs = {j1, j2}
  MaxUploads = 1
  Alone = TRUE
SYMMETRY MCSymmetry
INVARIANTS OneVmPerDevice NoSilentLeak
PROPERTIES ForeignUntouched PlannedMeansGone DeploysAsPromoted
