CONSTANTS
  Bucket = {b1}
  Client = {c1}
  Maintainer = m
  Task = {t1, t2}
  PoolSize = 1
  WarmupConcurrency = 2
  MaxFailures = 2
SPECIFICATION Spec
INVARIANT SuccessResetsBackoff
