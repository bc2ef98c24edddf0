CONSTANTS
  Run = {r1, r2}
  Steps = 1
  None = none
SPECIFICATION MCFairSpec
INVARIANTS TypeOK OneUnlessWithstood
PROPERTIES NoOrphanMeasures UserSparesTest CompletedSaved CancelFrees
