CONSTANTS
  a1 = a1
  a2 = a2
  a3 = a3
  Agents = {a1, a2, a3}
  Order <- MCOrder
  Enabled = {a1, a2}
  Interval <- MCInterval
  Phase <- MCPhase
  Window <- MCWindow
  DayMs = 6
  TickMs = 1
  MaxRun = 2
  MaxNow = 16
  Users = {u1, u2}
  Ids = {i1, i2}
  Calls = {c1, c2, c3, c4}
  Tasks = {i1, i2}
  Workers = {u1, u2}
  Loops = {loop}
  Threads = {h1}
  Crons = {r1}
  Events = {i1, i2}
  Triggers = {x1}
  Kinds = {"task", "event", "malformed"}
  After = 2
  Faults = {"create_task"}
  MaxFailures = 4
  MaxPeriods = 2
  None = None
  Captures = {i1, i2}
  Wipes = {u1, u2}
  Texts <- MCTexts
  Questions <- MCQuestions
SPECIFICATION AllSpec
SYMMETRY Symmetry
INVARIANTS   AnswersAreAccounted
PROPERTIES  LoopKeepsTime  CountsAreExact ConnectionsAgree
CHECK_DEADLOCK FALSE
