SPECIFICATION FairSpec
CONSTANTS
  FlashOnTrial = FALSE
  MaxGen = 3
  MaxCuts = 2
INVARIANTS TypeOK NeverBricked RecoveryWhole
PROPERTIES TriedFirst CheckTells WriteBootCompletes TrialDecides
CHECK_DEADLOCK FALSE
