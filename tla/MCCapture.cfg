SPECIFICATION CaptureSpec
CONSTANTS
  None = None
  Utf8 <- Ascii
  Traffic <- SomeTraffic
  RcEndpoints <- Endpoints
  Ports = {0, 20884}
  Mtu = 16
  SnapLens = {10, 16}
  Idents = {1, 2}
  NotifyPrefix <- Notify
  Samples <- SomePackets
  SampleBytes <- SomeBytes
  Widths = {1, 3, 4}
  MaxSent = 2
  MaxCaptured = 5
INVARIANTS DecodedIsSent OrderlyReuseIsHarmless CountsAreExact RcIsTheController
            CodecsRoundTrip
CHECK_DEADLOCK FALSE
