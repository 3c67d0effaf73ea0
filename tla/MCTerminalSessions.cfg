CONSTANTS
  NoAnswer = NoAnswer
  Slots = {s1, s2}
  Reaper = reaper
  Overlaps = FALSE
  MaxRequests = 3
  MaxShells = 2
  MaxClients = 3
  MaxFaults = 1
SPECIFICATION TerminalFairSpec
INVARIANTS
  ViewersAreServed
PROPERTIES
  DisposeIsFinal
  ReaperReclaims
CHECK_DEADLOCK FALSE
