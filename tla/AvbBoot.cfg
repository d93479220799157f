SPECIFICATION FairSpec
CONSTANTS
  AVB_AB_MAX_TRIES_REMAINING = 2
  Builds <- AllBuilds
  LegacyBuilds <- EarlyBuild
  OtaEraseDdr = TRUE
  SlotAProven = TRUE
  MaxGen = 3
  MaxCuts = 2
INVARIANTS TypeOK BootsMatching NeverBricked SuccessfulHasBooted FallbackAccepted RollbackRestoresDtb
PROPERTIES KeepsPromise MigrationKeepsActive BadSlotLeft
CHECK_DEADLOCK FALSE
