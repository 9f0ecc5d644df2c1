CONSTANTS
  Users = {u1, u2}
  Ids = {i1, i2}
  Requests = {c1, c2, c3}
  OnbRequests = {c1, c2, c3, d1, d2}
  LastStep = 2
  Names = {n1, n2}
  Defaults = {n1}
  Threads = {t1, t2}
  MaxLookups = 2
  MaxEdits = 1
  Entries = {e1, e2}
  Deletions = {x1, x2}
  MaxAge = 2
  Agents = {a1, a2}
  Protected = {a1}
  Life = 3
  Margin = 1
  Timeout = 1
  MaxNow = 3
  MaxVersions = 2
  None = None
  Unused = Unused
  Unset = Unset
SPECIFICATION Spec
SYMMETRY Symmetry
INVARIANTS  ShelvesStand  SecretsAreWritten
PROPERTIES InterviewIsKept ConfigurationStands SessionTokensAreFresh
CHECK_DEADLOCK FALSE
