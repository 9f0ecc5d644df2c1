------------------------------ MODULE Heartbeat ------------------------------
(***************************************************************************)
(* The heartbeat: HeartbeatService.run, called by the background loop (one *)
(* cycle at a time) and by the trigger routes (at any time), and its end   *)
(* of the cron event queue.                                                *)
(*                                                                         *)
(* A cycle reads the queued events of its agent, passes the gates, and     *)
(* awaits the agent; only when the agent has answered are the events taken *)
(* off the queue.  The code between two awaits runs undisturbed on the     *)
(* event loop: each action below is one such stretch.  When a cycle may    *)
(* start is the subject of module HeartbeatLoop.                           *)
(***************************************************************************)
EXTENDS Integers, FiniteSets

CONSTANTS
  Agents,      \* agents with a registered HeartbeatService
  Gated,       \* those whose config has active_hours
  Events,      \* document ids of the event queue
  Loop,        \* the background loop
  Callers,     \* trigger requests that may be in flight together
  Faults,      \* what may fail: see Fault
  None

VARIABLES
  queue,       \* events pending in Firestore
  target,      \* target[e]: the agent that e is for, or None
  unused,      \* event ids not drawn yet
  cycle,       \* cycle[p]: the cycle that p is running
  last,        \* last[a]: the status of the latest event of a on the bus
  times        \* times[e]: cycles that handled e (capped at 2; for properties only)

heartbeatVars == <<queue, target, unused, cycle, last, times>>

Procs == {Loop} \cup Callers

\* list_pending raises; gather raises; the run raises or times out; the log
\* is not saved; an event is not deleted; the process dies.
Fault == {"list", "gather", "agent", "save", "delete", "crash"}

ASSUME HeartbeatAssumption ==
  /\ Gated \subseteq Agents
  /\ Loop \notin Callers
  /\ Faults \subseteq Fault

HeartbeatStatus == {"sent", "ok-token", "ok-empty", "skipped", "failed"}

Idle == [pc |-> "idle", agent |-> None, events |-> {}]

IsIdle(p) == cycle[p].pc = "idle"

\* Slip: the queue is read without the assignee filter.
Slip_AnyPending(a) == queue

\* list_pending
Pending(a) == {e \in queue : target[e] = a}

\* _drain_cron_events: a failing read counts as an empty queue.
Drained(a) == {Pending(a)} \cup IF "list" \in Faults THEN {{}} ELSE {}

Emit(a, status) == last' = [last EXCEPT ![a] = status]

-----------------------------------------------------------------------------
(* run, up to the agent.                                                   *)

\* Outside the active hours, whatever is pending and whoever triggers.
Skip(p, a) ==
  /\ IsIdle(p) /\ a \in Gated
  /\ Emit(a, "skipped")
  /\ UNCHANGED <<queue, target, unused, cycle, times>>

GatherFails(p, a) ==
  /\ IsIdle(p) /\ "gather" \in Faults
  /\ Emit(a, "failed")
  /\ UNCHANGED <<queue, target, unused, cycle, times>>

\* Nothing queued, nothing on the board, and not a manual trigger.
NothingToDo(p, a) ==
  /\ IsIdle(p) /\ p = Loop
  /\ {} \in Drained(a)
  /\ Emit(a, "ok-empty")
  /\ UNCHANGED <<queue, target, unused, cycle, times>>

\* Slip: the message is built from the context alone.
Slip_ForgetEvents(p, a) ==
  /\ IsIdle(p)
  /\ cycle' = [cycle EXCEPT ![p] = [pc |-> "running", agent |-> a, events |-> {}]]
  /\ UNCHANGED <<queue, target, unused, last, times>>

\* The agent is called with the events; the loop awaits it.
CallAgent(p, a) ==
  /\ IsIdle(p)
  /\ \E S \in Drained(a) :
       cycle' = [cycle EXCEPT ![p] = [pc |-> "running", agent |-> a, events |-> S]]
  /\ UNCHANGED <<queue, target, unused, last, times>>

-----------------------------------------------------------------------------
(* run, from the agent's answer.                                           *)

Handled(S) == times' = [e \in Events |-> IF e \in S /\ times[e] < 2 THEN times[e] + 1 ELSE times[e]]

\* mark_drained: each delete may fail by itself, silently.
MarkDrained(S) == \E kept \in SUBSET (IF "delete" \in Faults THEN S ELSE {}) :
                    queue' = queue \ (S \ kept)

\* HEARTBEAT_OK without tool calls.
AnswerOk(p) ==
  LET o == cycle[p]
  IN /\ o.pc = "running"
     /\ Handled(o.events)
     /\ MarkDrained(o.events)
     /\ Emit(o.agent, "ok-token")
     /\ cycle' = [cycle EXCEPT ![p] = Idle]
     /\ UNCHANGED <<target, unused>>

\* A full answer: it is logged, then consolidation and the sweep of stale
\* sessions are awaited.
AnswerInFull(p) ==
  LET o == cycle[p]
  IN /\ o.pc = "running"
     /\ Handled(o.events)
     /\ \/ cycle' = [cycle EXCEPT ![p].pc = "tidying"] /\ UNCHANGED last
        \/ /\ "save" \in Faults
           /\ cycle' = [cycle EXCEPT ![p] = Idle]
           /\ Emit(o.agent, "failed")
     /\ UNCHANGED <<queue, target, unused>>

Tidied(p) ==
  LET o == cycle[p]
  IN /\ o.pc = "tidying"
     /\ MarkDrained(o.events)
     /\ Emit(o.agent, "sent")
     /\ cycle' = [cycle EXCEPT ![p] = Idle]
     /\ UNCHANGED <<target, unused, times>>

\* Slip: a failed run finalizes its drain too, as in a "finally".
Slip_DrainOnFailure(p) ==
  LET o == cycle[p]
  IN /\ o.pc = "running"
     /\ "agent" \in Faults
     /\ MarkDrained(o.events)
     /\ Emit(o.agent, "failed")
     /\ cycle' = [cycle EXCEPT ![p] = Idle]
     /\ UNCHANGED <<target, unused, times>>

\* The run raised or timed out: the events stay queued.
AgentFails(p) ==
  LET o == cycle[p]
  IN /\ o.pc = "running"
     /\ "agent" \in Faults
     /\ Emit(o.agent, "failed")
     /\ cycle' = [cycle EXCEPT ![p] = Idle]
     /\ UNCHANGED <<queue, target, unused, times>>

\* The process dies with its cycles and its in-memory bus, and is restarted.
Crash ==
  /\ "crash" \in Faults
  /\ cycle' = [p \in Procs |-> Idle]
  /\ last' = [a \in Agents |-> "none"]
  /\ UNCHANGED <<queue, target, unused, times>>

\* Slip: the event is stored under the name of the sender.
Slip_EnqueueForSender(e, a) ==
  /\ e \in unused
  /\ unused' = unused \ {e}
  /\ queue' = queue \cup {e}
  /\ target' = [target EXCEPT ![e] = Loop]
  /\ UNCHANGED <<cycle, last, times>>

\* Slip: the document id is derived from the cron and its assignee.
Slip_DerivedId(e, a) ==
  /\ target[e] \in {None, a}
  /\ unused' = unused \ {e}
  /\ queue' = queue \cup {e}
  /\ target' = [target EXCEPT ![e] = a]
  /\ UNCHANGED <<cycle, last, times>>

\* enqueue, by a cron that fires (module Cron).
Enqueue(e, a) ==
  /\ e \in unused
  /\ unused' = unused \ {e}
  /\ queue' = queue \cup {e}
  /\ target' = [target EXCEPT ![e] = a]
  /\ UNCHANGED <<cycle, last, times>>

-----------------------------------------------------------------------------
Init ==
  /\ queue = {}
  /\ target = [e \in Events |-> None]
  /\ unused = Events
  /\ cycle = [p \in Procs |-> Idle]
  /\ last = [a \in Agents |-> "none"]
  /\ times = [e \in Events |-> 0]

Begin(p, a)  == Skip(p, a) \/ GatherFails(p, a) \/ NothingToDo(p, a) \/ CallAgent(p, a)
Continue(p)  == AnswerOk(p) \/ AnswerInFull(p) \/ AgentFails(p) \/ Tidied(p)

Next ==
  \/ \E p \in Procs : Continue(p) \/ \E a \in Agents : Begin(p, a)
  \/ \E e \in Events, a \in Agents : Enqueue(e, a)
  \/ Crash

Spec == Init /\ [][Next]_heartbeatVars

\* The loop comes back to every agent (module HeartbeatLoop) and the active
\* hours open again; a cycle ends, for the run is under a timeout and the rest
\* is taken to return; an agent that gets events again and again answers once.
FairSpec ==
  /\ Spec
  /\ \A p \in Procs : WF_heartbeatVars(Continue(p))
  /\ \A a \in Agents :
       /\ SF_heartbeatVars(CallAgent(Loop, a) /\ cycle'[Loop].events = Pending(a))
       /\ SF_heartbeatVars(/\ cycle[Loop].agent = a /\ cycle[Loop].events # {}
                           /\ AnswerOk(Loop) \/ AnswerInFull(Loop))

-----------------------------------------------------------------------------
(* Properties.                                                             *)

TypeOK ==
  /\ queue \subseteq Events /\ unused \subseteq Events
  /\ target \in [Events -> Agents \cup {None}]
  /\ cycle \in [Procs -> [pc : {"idle", "running", "tidying"}, agent : Agents \cup {None},
                          events : SUBSET Events]]
  /\ last \in [Agents -> HeartbeatStatus \cup {"none"}]
  /\ times \in [Events -> 0 .. 2]

\* "to avoid losing an event if the run blows up mid-flight": whatever fails
\* or crashes, and however cycles of an agent overlap, an event is off the
\* queue only after a run that was given it has succeeded.
NoEventLost == \A e \in Events \ unused : e \in queue \/ times[e] > 0

\* A cycle carries events of its own agent only, while others enqueue, drain
\* and crash.
EventsReachTheirAgent ==
  \A p \in Procs : \A e \in cycle[p].events : target[e] = cycle[p].agent /\ e \notin unused

\* A queued event is handled in the end.
EveryEventIsHandled == \A e \in Events : e \in queue ~> times[e] > 0

\* The queue promises at-least-once delivery, which has no stage "lost".
Delivery(e) == IF e \in unused THEN "unused"
               ELSE IF e \in queue THEN IF times[e] > 0 THEN "handled" ELSE "pending"
               ELSE IF times[e] > 0 THEN "gone" ELSE "lost"

D == INSTANCE EventDelivery WITH stage <- [e \in Events |-> Delivery(e)], owner <- target

ImplementsDelivery == D!Spec
=============================================================================
