CONSTANTS
  Users = {u1, u2}
  Sessions = {s1, s2}
  Turns = {t1, t2, t3}
  Closers = {c1}
  Fallbacks = 1
  Guarded = TRUE
  DevUser = u1
  Faults = {"store", "end", "crash"}
  None = None
SPECIFICATION Spec
INVARIANTS TypeOK OnlyOverlapMisroutes
PROPERTIES HistoriesStayWhole EndedIsRemembered
SYMMETRY Symmetry
