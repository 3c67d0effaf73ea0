CONSTANTS
  Nil = Nil
  Users = {u1, u2}
  Prompts = {p1, p2}
  Tools = {t1}
  Permissions = {r1}
  Forms = {f1}
  Questions = 2
  LateUpdates = FALSE
  Unreported = FALSE
  MaxPipe = 2
SPECIFICATION FairSpec
INVARIANTS
  StateFrameIsCurrent
  FirstAnswerWins
  NothingLeftRunning
PROPERTIES
  CancelEndsTheTurn
CHECK_DEADLOCK FALSE
