CONSTANTS
  a1 = a1
  a2 = a2
  t1 = t1
  t2 = t2
  None = None
  Addr = {a1, a2}
  Task = {t1, t2}
  Seed = {a1}
  ListenOn <- ListenOnFirst
  Blocked = {a2}
  DisableUpload = TRUE
  MinActive = 2
  QueueLen = 2
  MaxTimers = 1
  Environments <- FourEnvironments
SPECIFICATION FairSpec
INVARIANTS ActiveHasTask TaskOwnsPeer QueuedIsScheduled PexIsExact
PROPERTY DeadIsRetried
