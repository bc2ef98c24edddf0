SPECIFICATION ModeSpec
CONSTANTS
  Versions = {1}
  NoFile = NoFile
  Shipped = 1
  MayFail = FALSE
INVARIANT DeferredModeApplied
CHECK_DEADLOCK FALSE
