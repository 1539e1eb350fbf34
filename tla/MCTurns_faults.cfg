\* The runner comes and goes, the gateway restarts, the store fails.
CONSTANTS
  Threads = {t1, t2}
  MaxMsgs = 2
  MaxConns = 2
  MaxRestarts = 1
  MaxConcurrent = 1
  MaxQueueDepth = 1
  QueueLimit = 1
  OutCap = 2
  StoreErrors = TRUE
  StartsOnline = FALSE
SPECIFICATION Spec
SYMMETRY ThreadSymmetry
INVARIANTS TypeOK  NothingLost
PROPERTY OpenedOnce
CHECK_DEADLOCK FALSE
