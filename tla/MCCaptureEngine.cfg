SPECIFICATION EngineSpec
CONSTANTS
  Depths = {2, 4}
  MinDepth = 2
  Ratios = {0, 1, 2}
  RatioUnit = 2
  MaxFrames = 6
  MaxInputs = 3
INVARIANTS
  StoppedMeansJoined ViewTail ViewComplete TriggerKept
PROPERTIES
  SingleEnds
CHECK_DEADLOCK FALSE
