CONSTANTS
  Sessions = {s1, s2}
  MaxDead = 1
  MaxAdapters = 3
  MaxCrashes = 0
SPECIFICATION Spec
PROPERTY CreateResurrects
CHECK_DEADLOCK FALSE
