CONSTANTS
  None = None
  Machines = {m1}
  ApiInOrder = TRUE
  MaxAttempts = 3
  MaxSockets = 2
  MaxFaults = 1
  MaxExits = 0
SPECIFICATION Spec
INVARIANT TunnelIsVisible
CHECK_DEADLOCK FALSE
