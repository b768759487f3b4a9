SPECIFICATION ProgSpec
CONSTANTS
  Words = {"hdr", "sync", "f1", "f2", "bad", "0"}
  Frames <- TheFrames
  Bridge <- TheBridge
  BitFiles <- TheBitFiles
  ImageFiles <- TheImageFiles
  Bits = {0, 1}
  Capacity = 8
  SegSpan = 4
  EsaUnit = 2
  AddrBits = 4
  AddrSpan = 16
  Before = 1
  After = 1
  MaxPolls = 2
  Page = 2
  Chunk = 4
  Jedec = "mt25ql128"
  Chips = {"mt25ql128", "other"}
  Stale = {}
  Indices = {1, 3}
  MaxRuns = 2
INVARIANTS SuccessIsTrue NoSpuriousFailure McsImageRight
PROPERTIES ProgramEnds
CHECK_DEADLOCK FALSE
