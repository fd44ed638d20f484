SPECIFICATION MCSpec
CONSTANTS
  t1 = t1
  t2 = t2
  Threads = {t1, t2}
  NoThread = NoThread
  Serials = {"sn1", "sn2"}
  MaxKeys = 3
  ReadFaults = TRUE
  TtlPasses = TRUE
  a = a
  b = b
  c = c
  Tasks = {a, b, c}
  Versions = {"9.2-1-auto", "9.2-1-lab"}
  None = None
  Torn = Torn
  OneDownload = TRUE
  OnePerVersion = TRUE
  MaxFaults = 2
SYMMETRY MCSymmetry
INVARIANTS KeyIInv ForgeTypeOK MediaFromVerified RecordMatchesFile
PROPERTIES KeepsPromise
