SPECIFICATION Spec
CONSTANTS
  BOOT_ATTEMPTS = 2
  kActiveTries = 3
  Gpt = TRUE
  EnterFastboot = TRUE
  TornEnv = FALSE
  BadImages = FALSE
  Legacy = FALSE
  LateCrash = FALSE
  PartFails = FALSE
  OtaEraseDdr = FALSE
  Modes <- BootModes
  MaxGen = 3
  MaxCrash = 2
INVARIANTS TypeOK NeverBricked FallbackKept Boot1UpToDate
PROPERTIES BackupProven RollbackAnnounced
