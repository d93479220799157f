SPECIFICATION HSpec
SYMMETRY Interchangeable
CONSTANTS
  Values = {v1, v2}
  None = None
  NoJob = NoJob
  NBlocks = 4
  PagesPerBlk = 6
  PageNum = 2
  NodeCount = 6
  TimestampMod = 32768
  MaxTimestamp = 3
  MaxCuts = 1
  MaxBad = 0
  MaxFails = 1
INVARIANTS FindsNewestInBlock
