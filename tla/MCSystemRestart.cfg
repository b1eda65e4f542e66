SPECIFICATION SysSpec
CONSTANTS
  None = None
  DsAddr = DsAddr
  RcAddr = RcAddr
  Addrs = {RcAddr}
  PeerAddrs <- RcOnly
  RobotStates <- States
  Names <- AllNames
  Extras = {"", "k1", "Crash"}
  Stamps = {1, 2, 3, 4}
  Calls <- ActivateCalls
  Datagrams = {}
  MaxCtrl = 1
  HeartbeatInterval = 1
  DisconnectTimeout = 1
  CommandRetryInterval = 1
  CommandMaxAttempts = 1
  WebcamMinFrameInterval = 1
  WebcamStallTimeout = 1
  MaxPendingCommands = 5
  MaxSeen = 2
  Byte = {0}
  Blank = Blank
  MaxFrameBytes = 1
  MaxConcurrentFrames = 1
  Carried = {"ACTIVATE", "discovery", "heartbeat", "telemetry"}
  OpModes = {"Stop", "Duo", "Crash"}
  StopOpMode = "Stop"
  CrashOpMode = "Crash"
  Keys = {"k1"}
  Xmls = {"x"}
  FactoryConfigs <- NoConfigs
  NoConfig <- NoneActive
  FactoryXml = "f"
  DsTimeout = 1
  PhantomTicks = 0
  CrashDelay = 1
  JpegBytes = 1
  MaxFrameNum = 0
  MaxResourceId = 1
  FrameChunkSize = 1
  RcStamps = {1, 2}
INVARIANT OneRestartPerActivate
