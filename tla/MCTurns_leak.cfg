\* Three threads, one slot, a queue of one: the third message is refused.
CONSTANTS
  Threads = {t1, t2, t3}
  MaxMsgs = 3
  MaxConns = 1
  MaxRestarts = 0
  MaxConcurrent = 1
  MaxQueueDepth = 1
  QueueLimit = 2
  OutCap = 2
  StoreErrors = FALSE
  StartsOnline = TRUE
SPECIFICATION Spec
SYMMETRY ThreadSymmetry
INVARIANT ThreadHasTurn
CHECK_DEADLOCK FALSE
