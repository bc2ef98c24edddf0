CONSTANTS
  Run = {r1}
  Steps = 1
  None = none
SPECIFICATION MCSpec
INVARIANT CancelReturnsEngine
