SPECIFICATION Spec
CONSTANTS
  BOOT_ATTEMPTS = 2
  kActiveTries = 3
  Gpt = FALSE
  EnterFastboot = TRUE
  TornEnv = FALSE
  BadImages = TRUE
  Legacy = TRUE
  LateCrash = FALSE
  PartFails = FALSE
  OtaEraseDdr = FALSE
  Modes <- AllModes
  MaxGen = 2
  MaxCrash = 1
INVARIANTS BootsMatching RollbackToProven
