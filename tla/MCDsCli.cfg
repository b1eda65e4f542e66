SPECIFICATION CliSpec
CONSTANTS
  None = None
  Garbage = Garbage
  Addrs = {"a1"}
  Lines <- SomeLines
  Lists <- SomeLists
  MaxLists = 3
  MaxControl = 2
INVARIANTS ActsOnWhatWasSeen
PROPERTIES PulseEnds
CHECK_DEADLOCK FALSE
