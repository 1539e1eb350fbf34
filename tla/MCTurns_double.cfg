\* One thread, three messages, a runner that reconnects.
CONSTANTS
  Threads = {t1}
  MaxMsgs = 3
  MaxConns = 2
  MaxRestarts = 0
  MaxConcurrent = 1
  MaxQueueDepth = 1
  QueueLimit = 2
  OutCap = 2
  StoreErrors = FALSE
  StartsOnline = TRUE
SPECIFICATION Spec
SYMMETRY ThreadSymmetry
INVARIANT OneTurnPerThread
CHECK_DEADLOCK FALSE
