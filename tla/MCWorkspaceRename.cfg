SPECIFICATION Spec
CONSTANTS
  Ids = {w1}
  Names = {main, fix}
  First = main
  Faults = {}
  Renderers = FALSE
  Nil = Nil
  MaxCalls = 2
  MaxClock = 3
  MaxFaults = 0
INVARIANT RenameIsKept
