CONSTANTS
  Sessions = {s1, s2, s3}
  MaxDead = 1
  MaxAdapters = 3
  MaxCrashes = 1
SPECIFICATION Spec
INVARIANTS
  OneAdapterPerSession
  SessionsAreKept
  DisposeLeavesNoAdapter
PROPERTIES
  TranscriptIsKept
CHECK_DEADLOCK FALSE
