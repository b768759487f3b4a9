SPECIFICATION IlaSpec
CONSTANTS
  LaneSets <- TheLaneSets
  Inputs <- TheInputs
  Buffers <- TheBuffers
  DataBits = {0, 1, 2}
  PreValues = {1}
  AddrW = 1
  PreExtra = 1
  SigCount = 2
  MaxCalls = 2
  MaxFaults = 1
INVARIANTS SamplesInOrder ArmTakes
PROPERTIES TriggersAsAsked CallsEnd
CHECK_DEADLOCK FALSE
