SPECIFICATION HFairSpec
CONSTANTS
  Values = {v1, v2}
  None = None
  NoJob = NoJob
  NBlocks = 5
  PagesPerBlk = 4
  PageNum = 2
  NodeCount = 7
  TimestampMod = 32768
  MaxTimestamp = 3
  MaxCuts = 1
  MaxBad = 1
  MaxFails = 1
INVARIANTS TypeOK ReadsWhatIsStored FreeListSound NeverOutOfBlocks
PROPERTIES ActsAsRegister ProgramsErasedPages CallsEnd
