SPECIFICATION BundlesSpec
CONSTANTS
  BundleSkills = {"s"}
  Envs = {"e1", "e2"}
  MaxEdits = 1
  MaxLinks = 1
  MaxBreaks = 0
CHECK_DEADLOCK FALSE
PROPERTY ChangeReaches
