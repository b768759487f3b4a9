SPECIFICATION ToolsSpec
CONSTANTS
  Board <- TheBoard
  ArmIds <- TheArmIds
  Filters <- TheFilters
  Nets <- TheNets
  Images <- TheImages
  NoPin = "*"
  Pins = {"A", "B"}
  IdBits = 4
  MaxDevices = 3
  MaxSamples = 1
  MaxCommands = 2
  MaxCalls = 2
  MaxFaults = 1
INVARIANTS SamplesTrue SetPinDrives NoLiveExtest
PROPERTIES NetPassesTrue
CHECK_DEADLOCK FALSE
