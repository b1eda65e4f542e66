SPECIFICATION VideoSpec
CONSTANT Naps = 20
PROPERTY DropReturns
CHECK_DEADLOCK FALSE
