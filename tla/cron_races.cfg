CONSTANTS
  Crons = {c1}
  Agents = {a1}
  Events = {e1}
  Kinds = {"task", "event", "malformed"}
  Triggers = {x1, x2}
  Threads = {h1}
  After = 2
  Faults = {"create_task", "record"}
  MaxFailures = 2
  MaxNow = 1
  None = None
SPECIFICATION Spec
INVARIANTS CountsFollowFailures
PROPERTIES OnlyLostUpdatesUndoEdits
SYMMETRY Symmetry
