SPECIFICATION FairSpec
CONSTANTS
  BOOT_ATTEMPTS = 2
  kActiveTries = 3
  Gpt = TRUE
  EnterFastboot = TRUE
  TornEnv = TRUE
  BadImages = TRUE
  Legacy = FALSE
  LateCrash = FALSE
  PartFails = FALSE
  OtaEraseDdr = TRUE
  Modes <- AllModes
  MaxGen = 2
  MaxCrash = 1
INVARIANT NeverBricked
PROPERTIES BadSlotLeft KeepsPromise
