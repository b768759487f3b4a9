SPECIFICATION Spec
CONSTANTS
  Bits <- MCBits
  Cycles <- MCCycles
  Counts <- MCCounts
  Targets <- MCTargets
  kChunk = 2
  MaxLate = 1
INVARIANTS
  InSync
  PathsShortest
  ScanExact
  TdoOwn
