CONSTANTS
  NoAnswer = NoAnswer
  Slots = {s1, s2}
  Reaper = reaper
  Overlaps = FALSE
  MaxRequests = 2
  MaxShells = 1
  MaxClients = 3
  MaxFaults = 0
SPECIFICATION TerminalFairSpec
PROPERTY ExitIsNoticed
CHECK_DEADLOCK FALSE
