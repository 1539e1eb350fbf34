\* The runner is connected and stays so.
CONSTANTS
  Threads = {t1, t2, t3}
  MaxMsgs = 4
  MaxConns = 1
  MaxRestarts = 0
  MaxConcurrent = 1
  MaxQueueDepth = 1
  QueueLimit = 2
  OutCap = 2
  StoreErrors = FALSE
  StartsOnline = TRUE
SPECIFICATION FairSpec
INVARIANT ParkedBehindTurn
PROPERTIES ServiceSpec Answered
CHECK_DEADLOCK FALSE
