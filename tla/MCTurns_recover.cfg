\* One thread; the runner comes and goes.
CONSTANTS
  Threads = {t1}
  MaxMsgs = 2
  MaxConns = 2
  MaxRestarts = 0
  MaxConcurrent = 1
  MaxQueueDepth = 1
  QueueLimit = 2
  OutCap = 2
  StoreErrors = FALSE
  StartsOnline = FALSE
SPECIFICATION FairSpec
INVARIANT ThreadHasTurn
PROPERTY NoStrandedTurn
CHECK_DEADLOCK FALSE
