SPECIFICATION FairSpec
CONSTANTS
  BOOT_ATTEMPTS = 2
  kActiveTries = 3
  Gpt = TRUE
  EnterFastboot = FALSE
  TornEnv = FALSE
  BadImages = TRUE
  Legacy = TRUE
  LateCrash = FALSE
  PartFails = TRUE
  OtaEraseDdr = FALSE
  Modes <- AllModes
  MaxGen = 3
  MaxCrash = 1
CHECK_DEADLOCK FALSE
INVARIANTS BootsMatching BootTriesBounded
PROPERTY UpdateCompletes
