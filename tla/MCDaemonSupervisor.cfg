CONSTANTS
  Nil = Nil
  MaxPids = 9
  CrashBudget = 1
  MaxHostCrashes = 1
  MaxCrashes = 2
  MaxRestarts = 2
  MaxUpdates = 1
  Finds = {"nothing", "old"}
  Faults = {"wedge", "startup"}
SPECIFICATION FairSpec
INVARIANTS
  OneDaemon
PROPERTIES
  RespawnsAreBounded
  SessionsOutliveHostAndUpdate
  CrashedChildIsReplaced
  BootstrapSettles
CHECK_DEADLOCK FALSE
