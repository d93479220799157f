SPECIFICATION Spec
CONSTANTS
  BOOT_ATTEMPTS = 2
  kActiveTries = 3
  Gpt = TRUE
  EnterFastboot = TRUE
  TornEnv = TRUE
  BadImages = TRUE
  Legacy = FALSE
  LateCrash = FALSE
  PartFails = FALSE
  OtaEraseDdr = FALSE
  Modes <- AllModes
  MaxGen = 3
  MaxCrash = 1
CHECK_DEADLOCK FALSE
PROPERTIES NoCopybackFromBoot1
