\* Two messages are queued offline, the runner connects and a third arrives.
CONSTANTS
  Threads = {t1, t2}
  MaxMsgs = 2
  MaxConns = 2
  MaxRestarts = 0
  MaxConcurrent = 1
  MaxQueueDepth = 1
  QueueLimit = 2
  OutCap = 2
  StoreErrors = FALSE
  StartsOnline = FALSE
SPECIFICATION Spec
SYMMETRY ThreadSymmetry
INVARIANT WithinCap
CHECK_DEADLOCK FALSE
