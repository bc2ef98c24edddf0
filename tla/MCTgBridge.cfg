CONSTANTS
  Button = button
  Other = {offer}
  MaxStarts = 4
SPECIFICATION FairSpec
INVARIANTS TypeOK RunningIsAlive SettledStatus
PROPERTIES OldSparesNew FastRestart DisownedEnds StartAnswered
