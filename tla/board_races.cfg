CONSTANTS
  Tasks = {t1}
  Agents = {a1, a2}
  Loops = {loop}
  Threads = {h1}
  None = None
SPECIFICATION FairSpec
INVARIANTS TypeOK WorkSummaryIffDone DoneFromStartedWork
PROPERTIES OnlyStaleWritersBreakLifecycle StalledWorkIsReleased
