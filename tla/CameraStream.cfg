SPECIFICATION StreamSpec
CONSTANTS
  JpegBytes = 5
  FrameChunkSize = 2
  MaxFrameBytes = 5
  MaxConcurrentFrames = 2
  MaxFrames = 4
  Byte = {0, 1, 2, 3}
  Blank = Blank
INVARIANTS FramesAreWhole AssemblyBounded
