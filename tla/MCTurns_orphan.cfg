\* A message is being queued while a dropped connection is reconciled.
CONSTANTS
  Threads = {t1, t2}
  MaxMsgs = 2
  MaxConns = 2
  MaxRestarts = 0
  MaxConcurrent = 1
  MaxQueueDepth = 1
  QueueLimit = 2
  OutCap = 2
  StoreErrors = FALSE
  StartsOnline = FALSE
SPECIFICATION Spec
PROPERTY QueuedTurnStaysOpen
CHECK_DEADLOCK FALSE
