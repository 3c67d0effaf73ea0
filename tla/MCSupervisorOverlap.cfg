CONSTANTS
  Nil = Nil
  MaxPids = 4
  CrashBudget = 1
  MaxHostCrashes = 0
  MaxCrashes = 2
  MaxRestarts = 2
  MaxUpdates = 1
  Finds = {"old"}
  Faults = {"overlap", "startup", "wedge", "lateRecovery", "slowHandoff"}
SPECIFICATION Spec
PROPERTIES
  RespawnsAreBounded
CHECK_DEADLOCK FALSE
