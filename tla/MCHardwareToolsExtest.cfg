SPECIFICATION ToolsSpec
CONSTANTS
  Board <- TheBoard
  ArmIds <- TheArmIds
  Filters <- TheFilters
  Nets <- TheNets
  Images <- TheImages
  NoPin = "*"
  Pins = {"A", "B"}
  IdBits = 4
  MaxDevices = 3
  MaxSamples = 1
  MaxCommands = 0
  MaxCalls = 2
  MaxFaults = 0
INVARIANTS ExtestStartsFromStaged
CHECK_DEADLOCK FALSE
