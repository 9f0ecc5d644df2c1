------------------------------ MODULE Proactive ------------------------------
(***************************************************************************)
(* Scheduled work end to end: module Cron, whose firings queue events, and *)
(* module Heartbeat, whose cycles hand them to the agents, over one queue, *)
(* one event loop and the worker threads of the routes.                    *)
(*                                                                         *)
(* The two meet in three places: the queue; the event loop, on which a     *)
(* cycle moves only while no execution is between two awaits; and the      *)
(* listing of all the crons, which every cycle makes when it gathers its   *)
(* context, so that one cron that does not parse fails every heartbeat.    *)
(***************************************************************************)
EXTENDS Integers, FiniteSets

CONSTANTS
  Crons, Agents, Events, Triggers, Threads, Kinds, After, CronFaults, MaxFailures, MaxNow, None,
  Registered,        \* agents with a heartbeat; a cron may name any agent
  Gated, Loop, Callers, HeartbeatFaults

VARIABLES
  crons, freshCrons, exec, route, now, hist,      \* module Cron
  queue, target, unused,                          \* the event queue
  cycle, last, times                              \* module Heartbeat

cronOnly == <<crons, freshCrons, exec, route, now, hist>>
heartbeatOnly == <<cycle, last, times>>
vars == <<crons, freshCrons, exec, route, now, hist, queue, target, unused, cycle, last, times>>

C == INSTANCE Cron WITH Faults <- CronFaults
H == INSTANCE Heartbeat WITH Agents <- Registered, Faults <- HeartbeatFaults

ASSUME ProactiveAssumption == Registered \subseteq Agents /\ H!HeartbeatAssumption

Init == C!Init /\ H!Init

\* A thread starts a route.  The inputs are the ones that matter to the queue:
\* what kind of cron, one-shot or not, for whom, and whether it is enabled.
EditCrons(h) ==
  \E c \in Crons :
    \/ \E once \in BOOLEAN, kind \in Kinds \ {"malformed"}, a \in Agents :
         C!Create(h, c, TRUE, once, FALSE, kind, a)
    \/ \E kind \in Kinds, a \in Agents :
         C!Update(h, c, crons[c].enabled, crons[c].once, FALSE, kind, a)
    \/ C!Toggle(h, c)
    \/ C!Delete(h, c)

CronStep ==
  /\ \/ \E x \in Triggers : C!Execute(x) \/ \E c \in Crons : C!Trigger(x, c)
     \/ \E h \in Threads : EditCrons(h) \/ C!PauseOrResume(h) \/ C!RouteWrite(h)
  /\ UNCHANGED heartbeatOnly

\* No execution is between two awaits.
EventLoopIsFree == \A x \in Triggers : ~C!HoldsLoop(x)

\* Slip: the loop's own ticks leave the queued events out of the message.
Slip_TickForgetsEvents(p, a) ==
  /\ C!AllReadable
  /\ H!NothingToDo(p, a) \/ (H!CallAgent(p, a) /\ cycle'[p].events = {})

\* A cycle starts: behind the gate it gathers its context, which lists every
\* cron, whatever its assignee.
Begin(p, a) ==
  \/ H!Skip(p, a)
  \/ C!AllReadable /\ (H!NothingToDo(p, a) \/ H!CallAgent(p, a))
  \/ ~C!AllReadable /\ H!IsIdle(p) /\ H!Emit(a, "failed")
                    /\ UNCHANGED <<queue, target, unused, cycle, times>>

OnLoop(step) == EventLoopIsFree /\ step /\ UNCHANGED cronOnly

Beat == \E p \in H!Procs : \/ OnLoop(H!Continue(p))
                           \/ \E a \in Registered : OnLoop(Begin(p, a))

\* Slip: the queue lives in the process.
Slip_CrashEmptiesQueue ==
  /\ "crash" \in HeartbeatFaults
  /\ cycle' = [p \in H!Procs |-> H!Idle]
  /\ last' = [a \in Registered |-> "none"]
  /\ queue' = {}
  /\ exec' = [x \in Triggers |-> C!NoExec]
  /\ route' = [h \in Threads |-> C!NoRoute]
  /\ UNCHANGED <<crons, freshCrons, now, hist, target, unused, times>>

\* The process dies with the executions and edits that are in flight.
Crash ==
  /\ H!Crash
  /\ exec' = [x \in Triggers |-> C!NoExec]
  /\ route' = [h \in Threads |-> C!NoRoute]
  /\ UNCHANGED <<crons, freshCrons, now, hist>>

Next == CronStep \/ Beat \/ Crash

Spec == Init /\ [][Next]_vars

\* As in module Heartbeat: the loop comes back to every agent with readable
\* crons and open hours again and again, a cycle and an execution end (asyncio
\* resumes ready coroutines in turn, so that executions which keep the event
\* loop busy again and again do not hold up a cycle for ever), and an agent
\* that gets events again and again answers once.
FairSpec ==
  /\ Spec
  /\ \A x \in Triggers : WF_vars(C!Execute(x) /\ UNCHANGED heartbeatOnly)
  /\ \A p \in H!Procs : SF_vars(OnLoop(H!Continue(p)))
  /\ \A a \in Registered :
       /\ SF_vars(OnLoop(Begin(Loop, a) /\ cycle'[Loop].pc = "running"
                                       /\ cycle'[Loop].events = H!Pending(a)))
       /\ SF_vars(OnLoop(/\ cycle[Loop].agent = a /\ cycle[Loop].events # {}
                         /\ H!AnswerOk(Loop) \/ H!AnswerInFull(Loop)))

-----------------------------------------------------------------------------
(* Properties.                                                             *)

\* "text enqueued for next heartbeat": the queue between the two components
\* delivers at least once, whatever executions, edits, cycles and crashes
\* interleave, and also for an assignee that has no heartbeat.
D == INSTANCE EventDelivery
       WITH stage <- [e \in Events |-> H!Delivery(e)], owner <- target

FiringsAreDelivered == D!Spec

\* A firing's event for an agent with a heartbeat is handled in the end,
\* unless at some time a stored cron does not parse.
FiringsAreHandled ==
  \A e \in Events :
    (e \in queue /\ target[e] \in Registered) ~> (times[e] > 0 \/ ~C!AllReadable)

\* A firing arrives: nothing loses or misdirects it, and it is handled.
FiringsArrive == FiringsAreDelivered /\ FiringsAreHandled

\* "Drop a placeholder event for the next heartbeat to pick up": without that
\* exception.  A PATCH of any cron may break it, for every agent.
EventsArePickedUp ==
  \A e \in Events : (e \in queue /\ target[e] \in Registered) ~> times[e] > 0
=============================================================================
