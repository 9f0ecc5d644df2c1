CONSTANTS
  Crons = {c1}
  Agents = {a1}
  Registered = {a1}
  Gated = {a1}
  Events = {e1}
  Kinds = {"event", "now", "malformed"}
  Triggers = {x1}
  Threads = {h1}
  Callers = {}
  Loop = loop
  After = 1
  CronFaults = {}
  HeartbeatFaults = {"agent", "delete", "crash"}
  MaxFailures = 1
  MaxNow = 0
  None = None
SPECIFICATION FairSpec
PROPERTY EventsArePickedUp
