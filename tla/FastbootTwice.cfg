SPECIFICATION Spec
CONSTANTS
  FlashOnTrial = TRUE
  MaxGen = 3
  MaxCuts = 0
PROPERTIES RewritesOnlyBadFirst
CHECK_DEADLOCK FALSE
