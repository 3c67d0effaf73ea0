CONSTANTS
  None = None
  Machines = {m1, m2}
  ApiInOrder = TRUE
  MaxAttempts = 2
  MaxSockets = 3
  MaxFaults = 1
  MaxExits = 1
SPECIFICATION FairSpec
INVARIANTS
  NoDanglingSocket
PROPERTIES
  HostIsServed
  OfflineIsShown
  LiveTunnelIsKept
  DirectoryIsNotStolen
CHECK_DEADLOCK FALSE
