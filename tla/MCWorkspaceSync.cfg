SPECIFICATION FairSpec
CONSTANTS
  Ids = {w1}
  Names = {main, fix, wip}
  First = main
  Faults = {"fail", "crash", "torn", "metadata"}
  Renderers = TRUE
  Nil = Nil
  MaxCalls = 2
  MaxClock = 4
  MaxFaults = 2
INVARIANTS DeletedStaysDeleted LastWriteWins NoOrphanWorktree
PROPERTY SyncSettles
