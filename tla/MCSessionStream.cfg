CONSTANTS
  Nil = Nil
  Capacity = 2
  PageSize = 1
  ScrollsInResync = FALSE
  MaxLog = 4
  MaxRestarts = 1
  MaxFaults = 1
SPECIFICATION FairSpec
INVARIANTS
  JournalServesTheTail
  TimelineIsExact
  HasOlderIsHonest
PROPERTIES
  CatchesUp
  ShowsATranscript
CHECK_DEADLOCK FALSE
