SPECIFICATION Spec
CONSTANTS
  Ids = {w1, w2}
  Names = {main, fix}
  First = main
  Faults = {"fail", "torn", "metadata"}
  Renderers = TRUE
  Nil = Nil
  MaxCalls = 1
  MaxClock = 4
  MaxFaults = 2
INVARIANTS DeletedStaysDeleted NoOrphanWorktree
