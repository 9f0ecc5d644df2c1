CONSTANTS
  Loop = loop
  Worker = worker
  Admins = {r1}
  Faults = {"read", "write", "written", "request", "response", "crash"}
  MaxFaults = 1
  MaxToken = 2
  None = None
SPECIFICATION FairSpec
PROPERTIES ResolveAnswers
CHECK_DEADLOCK FALSE
