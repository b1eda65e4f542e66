SPECIFICATION RcFairSpec
CONSTANTS
  None = None
  d1 = d1
  d2 = d2
  k1 = k1
  k2 = k2
  Stations = {d1, d2}
  OpModes = {"Stop", "Duo", "Crash"}
  StopOpMode = "Stop"
  CrashOpMode = "Crash"
  Keys = {k1, k2}
  Xmls = {"x"}
  FactoryConfigs <- OneConfig
  NoConfig <- NoneActive
  FactoryXml = "f"
  DsTimeout = 1
  PhantomTicks = 1
  CrashDelay = 1
  JpegBytes = 3
  MaxFrameNum = 0
  MaxResourceId = 2
  FrameChunkSize = 2
  RcStamps = {1}
  Inputs <- AllInputs
INVARIANTS RcTypeOK OpModeTornDown
PROPERTIES ChangesAnnounced CrashComes NobodyIsLockedOut
