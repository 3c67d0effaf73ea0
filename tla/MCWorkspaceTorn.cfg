SPECIFICATION Spec
CONSTANTS
  Ids = {w1}
  Names = {main, fix}
  First = main
  Faults = {"torn"}
  Renderers = FALSE
  Nil = Nil
  MaxCalls = 1
  MaxClock = 3
  MaxFaults = 1
INVARIANT DeletionIsReplayed
