CONSTANTS
  Bucket = {b1}
  Client = {c1, c2}
  Maintainer = m
  Task = {t1, t2}
  PoolSize = 2
  WarmupConcurrency = 2
  MaxFailures = 2
SPECIFICATION FairSpec
INVARIANTS TypeOK ReservedIffAlive SocketBudget
PROPERTIES RefillNeverOverfills LeaseSpec GuardReleased Replenished
