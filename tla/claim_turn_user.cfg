CONSTANTS
  Users = {u1, u2}
  Sessions = {s1}
  Turns = {t1, t2, t3}
  Closers = {}
  Fallbacks = 0
  Guarded = FALSE
  DevUser = None
  Faults = {}
  None = None
SPECIFICATION Spec
PROPERTY AnswersAreRecorded
CHECK_DEADLOCK FALSE
