SPECIFICATION Spec
CONSTANTS
  None = None
  a1 = a1
  a2 = a2
  s1 = s1
  s2 = s2
  Addrs = {a1, a2}
  PeerAddrs <- TwoAddrs
  RobotStates = {s1}
  Names <- AllNames
  Extras <- NoExtra
  Stamps <- TwoStamps
  Calls <- SessionCalls
  Datagrams <- SessionDatagrams
  MaxCtrl = 1
  HeartbeatInterval = 1
  DisconnectTimeout = 1
  CommandRetryInterval = 1
  CommandMaxAttempts = 1
  WebcamMinFrameInterval = 1
  WebcamStallTimeout = 1
  MaxPendingCommands = 1
  MaxSeen = 1
  Byte = {"x"}
  Blank = Blank
  FrameChunkSize = 1
  MaxFrameBytes = 2
  MaxConcurrentFrames = 2
INVARIANTS  QuietWhenPaused FreshSession WebcamArmed
           NoCompleteFrameWaits
PROPERTIES SessionSpec 
CHECK_DEADLOCK FALSE
VIEW SessionView
