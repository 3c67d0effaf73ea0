CONSTANTS
  Nil = Nil
  MaxPids = 3
  CrashBudget = 1
  MaxHostCrashes = 0
  MaxCrashes = 1
  MaxRestarts = 1
  MaxUpdates = 0
  Finds = {"nothing"}
  Faults = {}
SPECIFICATION Spec
PROPERTIES UnaskedExitIsACrash
CHECK_DEADLOCK FALSE
