SPECIFICATION FairSpec
CONSTANTS
  Pins <- MCPins
  Observable <- MCObservable
  ConditionSets <- MCConditionSets
  Depths <- MCDepths
  Ratios <- MCRatios
  RatioUnit = 4
  SizeMax = 16
INVARIANTS
  TriggerFrameKept
  TriggerJustified
PROPERTIES
  ImplementsSampleLog
  CaptureEnds
