--------------------------- MODULE TaskLifecycle ---------------------------
(***************************************************************************)
(* What the kanban board promises about one task, whoever acts on it: a    *)
(* task is created once, its status then moves along the transition        *)
(* tables of models/task.py and board/transitions.py, DONE is never left,  *)
(* and a deleted task never comes back.  Module Board implements this      *)
(* specification when its operations do not overlap.                       *)
(***************************************************************************)
CONSTANT Tasks          \* task identifiers

VARIABLE stage          \* stage[t]: "unborn", a status, or "deleted"

Status == {"backlog", "queued", "in_progress", "needs_approval", "done", "failed"}

\* The moves that transition_to or the user table accepts.
Lifecycle ==
  ({"backlog"} \X {"queued", "in_progress"}) \cup
  ({"queued"} \X {"backlog", "in_progress"}) \cup
  ({"in_progress"} \X {"needs_approval", "done", "failed"}) \cup
  ({"needs_approval"} \X {"queued", "in_progress", "done", "failed"}) \cup
  ({"failed"} \X {"backlog", "queued"})

TypeOK == stage \in [Tasks -> Status \cup {"unborn", "deleted"}]

Init == stage = [t \in Tasks |-> "unborn"]

Create(t) == /\ stage[t] = "unborn"
             /\ \E s \in {"backlog", "queued"} : stage' = [stage EXCEPT ![t] = s]

Move(t) == \E s \in Status : /\ <<stage[t], s>> \in Lifecycle
                             /\ stage' = [stage EXCEPT ![t] = s]

Delete(t) == /\ stage[t] \in Status
             /\ stage' = [stage EXCEPT ![t] = "deleted"]

Next == \E t \in Tasks : Create(t) \/ Move(t) \/ Delete(t)

Spec == Init /\ [][Next]_stage
=============================================================================
