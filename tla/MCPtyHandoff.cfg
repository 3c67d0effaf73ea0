SPECIFICATION FairSpec
CONSTANTS
  Ids = {a}
  Cap = 2
  Faults = {"stall", "nak", "crash", "slow"}
  MaxShells = 1
  MaxOutput = 3
  MaxHandoffs = 2
  MaxFaults = 1
INVARIANTS ReplayIsOrdered SessionsSurvive OneReader
PROPERTIES HandoffEnds DeadSessionsLeave
CHECK_DEADLOCK FALSE
