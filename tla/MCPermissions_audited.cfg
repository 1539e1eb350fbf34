SPECIFICATION Spec
CONSTANTS
  Requests = {1, 2, 3, 4}
  Turns = {1, 2}
  Threads = {"a", "b"}
  Tools = {"bash"}
  TurnOf <- MCTurnOf
  ThreadOf <- MCThreadOf
  ToolOf <- MCToolOf
  Denied = {3}
  AutoApproved = {3, 4}
  Users = {"owner", "guest"}
  Approvers = {"owner"}
  MaxConns = 2
  MaxAsks = 2
  MaxRestarts = 0
CHECK_DEADLOCK FALSE
INVARIANTS AllowedIsAudited
