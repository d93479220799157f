SPECIFICATION Spec
CONSTANTS
  Gpt = TRUE
INVARIANT FailureReported
