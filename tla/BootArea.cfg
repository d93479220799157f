SPECIFICATION Spec
CONSTANTS
  Gpt = TRUE
INVARIANTS TypeOK OneCopyAtRisk
PROPERTY OnlyNamed
