SPECIFICATION Spec
CONSTANTS
  None = None
  a1 = a1
  a2 = a2
  s1 = s1
  s2 = s2
  Addrs = {a1}
  PeerAddrs <- OneAddr
  RobotStates = {s1}
  Names <- AllNames
  Extras <- NoExtra
  Stamps <- TwoStamps
  Calls <- CommandCalls
  Datagrams <- CommandDatagrams
  MaxCtrl = 1
  HeartbeatInterval = 1
  DisconnectTimeout = 1
  CommandRetryInterval = 1
  CommandMaxAttempts = 2
  WebcamMinFrameInterval = 1
  WebcamStallTimeout = 1
  MaxPendingCommands = 3
  MaxSeen = 1
  Byte = {"x"}
  Blank = Blank
  FrameChunkSize = 1
  MaxFrameBytes = 1
  MaxConcurrentFrames = 1
INVARIANTS BoundedMemory FirstSentInOrder
 
CHECK_DEADLOCK FALSE
