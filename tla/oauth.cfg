CONSTANTS
  Loop = loop
  Worker = worker
  Admins = {r1}
  Faults = {"read", "write", "written", "request", "response", "crash"}
  MaxFaults = 1
  MaxToken = 3
  None = None
SPECIFICATION FairSpec
INVARIANTS TokensAreCurrent
PROPERTIES TokensAreRenewed ResolvesEnd
CHECK_DEADLOCK FALSE
