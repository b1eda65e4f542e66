SPECIFICATION MjpegSpec
CONSTANTS
  Naps = 1
  Boundaries <- Bounds
  Pictures <- Pics
  Header <- HeaderLn
  MaxParts = 2
  MaxPiece = 2
  MaxFrameBytes = 11
  MaxLine = 5
INVARIANT EachFrameIsServed
CHECK_DEADLOCK FALSE
