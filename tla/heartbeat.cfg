CONSTANTS
  Agents = {a1, a2}
  Gated = {a2}
  Events = {e1, e2}
  Loop = loop
  Callers = {m1}
  Faults = {"list", "gather", "agent", "save", "delete", "crash"}
  None = None
SPECIFICATION FairSpec
INVARIANTS TypeOK NoEventLost EventsReachTheirAgent
PROPERTIES ImplementsDelivery EveryEventIsHandled
