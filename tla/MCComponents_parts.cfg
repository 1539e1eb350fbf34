SPECIFICATION Spec
CONSTANTS
  Calls = {c1}
  MaxText = 1
  Activities = {"hidden", "transient"}
  MaxSteps = 2
  MaxErrors = 1
  PlanCap = 1
  SThreads = {"a", "b"}
  MaxSessions = 1
  EventCap = 1
  MaxMessages = 2
  MaxProcs = 2
  MaxMishaps = 1
  BundleSkills = {"s"}
  Envs = {"e1"}
  MaxEdits = 2
  MaxLinks = 2
  MaxBreaks = 1
  MaxCallers = 2
  MaxStates = 2
  MaxNaps = 2
  Indicated = {"t1", "t2"}
  OpsCap = 2
  MaxShows = 2
  MaxHiccups = 2
  MaxFiles = 2
  FileNames = {"x", "y"}
  FileChunks = 2
  OutCap = 3
  MaxConns = 2
  MaxFaults = 1
  Handshakes = {"h1", "h2"}
  Peers = {1, 2}
  MaxTokens = 2
  MaxReloads = 1
  MaxApiErrors = 1
  Added = {"a"}
  Template = "box"
  Shells = {"p1", "p2"}
  MaxCommands = 3
  MaxHandEdits = 1
  Helpers = {"h1", "h2"}
  Repos = {"r"}
  Servers = {"m"}
  MaxSockets = 2
  MaxPolicies = 1
CHECK_DEADLOCK FALSE
INVARIANTS ProseAccounted AnswerShown NoBlankBubble OverflowTells SessionsTypeOK SessionCap Resumes ReportsInstalled OneStartAtATime PromisedRetry RefusedIsOff Intact NoLostEdit Unshadowed WithinPolicy 
PROPERTIES CloseEnds   VersionsGrow RuntimeSkillsKept Delivered ShownWhileRunning Enrolled StaysPut
