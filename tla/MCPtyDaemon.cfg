CONSTANTS
  Ids = {s1}
  Conns = {c1, c2}
  Nil = Nil
  BufferCap = 1
  OutboundCap = 3
  ChunkSizes = {1, 2}
  MaxOutput = 2
  MaxOpens = 2
SPECIFICATION FairSpec
CHECK_DEADLOCK FALSE
INVARIANTS
  RingKeepsTheNewest
  FeedIsComplete
  ExitReachesSubscribers
PROPERTIES
  NothingFollowsExit
  CloseEndsTheSession
