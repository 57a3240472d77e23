SPECIFICATION FairSpec
CONSTANTS
  w1 = w1
  w2 = w2
  Documents = {d1, d2}
  JobIds = {j1, j2}
  Callers = {c1, c2}
  Workers = {w1, w2}
  WorkerIds = {w1, w2}
  WorkerIdOf <- OwnWorkerId
  MayCrash = {w1}
  Limit = 1
  MaxAttempts = 2
  RetryDelay = 1
  Nobody = Nobody
  NoRow = NoRow
  NoDocument = NoDocument
INVARIANTS
  TypeOK
  OneLiveJob
  AttemptsBounded
  HandedOutOnce
PROPERTIES
  OnlyHolderCompletes
  ImplementsTaskQueue
  EveryJobSettles
CHECK_DEADLOCK FALSE
