SPECIFICATION Spec
CONSTANTS
  Ids = {a, b}
  Cap = 1
  Faults = {"stall", "nak", "crash", "slow"}
  MaxShells = 2
  MaxOutput = 0
  MaxHandoffs = 2
  MaxFaults = 3
INVARIANTS SessionsSurvive OneReader
CHECK_DEADLOCK FALSE
