CONSTANTS
  Nil = Nil
  MaxPids = 3
  CrashBudget = 1
  MaxHostCrashes = 0
  MaxCrashes = 1
  MaxRestarts = 0
  MaxUpdates = 0
  Finds = {"current"}
  Faults = {}
SPECIFICATION FairSpec
PROPERTIES ClearedInstanceComesBack
CHECK_DEADLOCK FALSE
