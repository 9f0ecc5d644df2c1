--------------------------- MODULE ProactiveProofs ---------------------------
(***************************************************************************)
(* Scheduled work end to end: the crons and the heartbeats of module       *)
(* Proactive deliver each event at least once, for any crons, agents,      *)
(* executions, edits and cycles, and any faults.                           *)
(*                                                                         *)
(* The proof composes: crons and heartbeats together implement module      *)
(* Heartbeat, taken with all the agents that a cron may name, where        *)
(* anybody may enqueue anything; and that module implements EventDelivery, *)
(* by DeliveryProofs.                                                      *)
(***************************************************************************)
EXTENDS Proactive, TLAPS

\* Heartbeat for all the agents.  Those that are not registered start no cycle
\* and their status never changes.  A listing of crons that raises is one of
\* the ways in which gathering the context fails.
lastOfAll == [a \in Agents |-> IF a \in Registered THEN last[a] ELSE "none"]

All == INSTANCE DeliveryProofs
         WITH Faults <- HeartbeatFaults \cup {"gather"}, last <- lastOfAll

\* What a stored cron, and every copy of one, is for the queue: it names an
\* agent.
Doc == [enabled : BOOLEAN, once : BOOLEAN, alert : BOOLEAN, assignee : Agents,
        kind : Kinds, errors : Nat, alertAt : Int]

Execution == [pc : {"idle", "dispatch", "record_run", "record_failure", "deliver", "alert"},
              cron : Crons \cup {None}, seen : Doc \cup {None}]

Edit == [pc : {"idle", "get", "set"}, cron : Crons \cup {None}, enable : BOOLEAN,
         seen : Doc \cup {None}, pending : Doc \cup {None}]

CronsNameAgents ==
  /\ now \in Int
  /\ crons \in [Crons -> Doc \cup {None}]
  /\ exec \in [Triggers -> Execution] /\ route \in [Threads -> Edit]
  /\ \A x \in Triggers : exec[x].pc # "idle" => exec[x].seen \in Doc
  /\ \A h \in Threads : /\ route[h].pc = "get" => route[h].cron \in Crons
                        /\ route[h].pc = "set" => route[h].pending \in Doc

\* Cycles are of registered agents.
CyclesAreRegistered ==
  /\ last \in [Registered -> H!HeartbeatStatus \cup {"none"}]
  /\ queue \subseteq Events /\ unused \subseteq Events
  /\ cycle \in [H!Procs -> [pc : {"idle", "running", "tidying"}, agent : Registered \cup {None},
                            events : SUBSET Events]]
  /\ \A p \in H!Procs : cycle[p].pc # "idle" => cycle[p].agent \in Registered

-----------------------------------------------------------------------------
(* Every cron, and every copy of one, names an agent.                      *)

\* Nothing is stored and nothing under way at first.
LEMMA CronsStart == C!Init => CronsNameAgents
<1> SUFFICES ASSUME C!Init PROVE CronsNameAgents
  OBVIOUS
<1>1. C!NoExec \in Execution /\ C!NoRoute \in Edit
  BY DEF C!NoExec, C!NoRoute, Execution, Edit
<1>2. QED
  BY <1>1 DEF C!Init, CronsNameAgents, C!NoExec, C!NoRoute

\* The counters of a copy may change, its assignee does not.
LEMMA CountsKeepDoc ==
  ASSUME NEW d \in Doc, now \in Int
  PROVE  C!RecordRun(d) \in Doc /\ C!RecordFailure(d) \in Doc /\ C!Alerted(d) \in Doc
BY DEF C!RecordRun, C!RecordFailure, C!Alerted, Doc

\* An execution goes on with its copy, or with one that differs in its counters.
LEMMA ExecutionKeeps ==
  ASSUME CronsNameAgents, NEW x \in Triggers, C!Execute(x)
  PROVE  CronsNameAgents'
<1> DEFINE o == exec[x]
<1>1. o \in Execution /\ exec \in [Triggers -> Execution] /\ now \in Int
  BY DEF CronsNameAgents
<1>2. o.pc # "idle" /\ o.seen \in Doc
  BY DEF CronsNameAgents, C!Execute, C!DispatchTask, C!DispatchEvent, C!WriteRun, C!Delivered,
         C!WriteFailure, C!AlertSent
<1>3. C!RecordRun(o.seen) \in Doc /\ C!RecordFailure(o.seen) \in Doc /\ C!Alerted(o.seen) \in Doc
  BY <1>1, <1>2, CountsKeepDoc
<1>4. now' = now /\ route' = route
  BY DEF C!Execute, C!DispatchTask, C!DispatchEvent, C!WriteRun, C!Delivered, C!WriteFailure, C!AlertSent
<1>5. \/ crons' = crons
      \/ \E d \in Doc \cup {None} : crons' = [crons EXCEPT ![o.cron] = d]
  BY <1>3 DEF C!Execute, C!DispatchTask, C!DispatchEvent, C!WriteRun, C!Delivered, C!WriteFailure, C!AlertSent
<1>6. \/ exec' = [exec EXCEPT ![x] = C!NoExec]
      \/ \E s \in {"record_run", "record_failure", "deliver"} : exec' = [exec EXCEPT ![x].pc = s]
      \/ exec' = [exec EXCEPT ![x].pc = "alert", ![x].seen = C!RecordFailure(o.seen)]
  BY DEF C!Execute, C!DispatchTask, C!DispatchEvent, C!WriteRun, C!Delivered, C!WriteFailure, C!AlertSent,
         C!Go, C!End
<1>7. crons' \in [Crons -> Doc \cup {None}]
  BY <1>5 DEF CronsNameAgents
<1>8. C!NoExec \in Execution /\ C!NoExec.pc = "idle"
  BY DEF C!NoExec, Execution
<1>9. exec' \in [Triggers -> Execution] /\ \A y \in Triggers : exec'[y].pc # "idle" => exec'[y].seen \in Doc
  <2>1. CASE exec' = [exec EXCEPT ![x] = C!NoExec]
    BY <1>8, <2>1 DEF CronsNameAgents
  <2>2. ASSUME NEW s \in {"record_run", "record_failure", "deliver"}, exec' = [exec EXCEPT ![x].pc = s]
        PROVE  /\ exec' \in [Triggers -> Execution]
               /\ \A y \in Triggers : exec'[y].pc # "idle" => exec'[y].seen \in Doc
    <3>1. exec' = [exec EXCEPT ![x] = [o EXCEPT !.pc = s]]
      BY <2>2
    <3>2. [o EXCEPT !.pc = s] \in Execution /\ [o EXCEPT !.pc = s].seen = o.seen
      BY <1>1 DEF Execution
    <3>3. QED
      BY <1>2, <3>1, <3>2 DEF CronsNameAgents
  <2>3. CASE exec' = [exec EXCEPT ![x].pc = "alert", ![x].seen = C!RecordFailure(o.seen)]
    <3> DEFINE n == [o EXCEPT !.pc = "alert", !.seen = C!RecordFailure(o.seen)]
    <3>1. exec' = [exec EXCEPT ![x] = n]
      BY <1>1, <2>3
    <3>2. n \in Execution /\ n.seen = C!RecordFailure(o.seen)
      BY <1>1, <1>3 DEF Execution
    <3> HIDE DEF n
    <3>3. QED
      BY <1>3, <3>1, <3>2 DEF CronsNameAgents
  <2>4. QED
    BY <1>6, <2>1, <2>2, <2>3
<1>10. QED
  BY <1>4, <1>7, <1>9 DEF CronsNameAgents

\* It starts with a copy of a stored cron.
LEMMA TriggerKeeps ==
  ASSUME CronsNameAgents, NEW x \in Triggers, NEW c \in Crons, C!Trigger(x, c)
  PROVE  CronsNameAgents'
<1> DEFINE o == [pc |-> "dispatch", cron |-> c, seen |-> crons[c]]
<1>1. crons[c] \in Doc
  BY DEF CronsNameAgents, C!Trigger, C!Readable
<1>2. o \in Execution /\ o.seen = crons[c]
  BY <1>1 DEF Execution
<1>3. exec' = [exec EXCEPT ![x] = o] /\ UNCHANGED <<crons, route, now>>
  BY DEF C!Trigger
<1> HIDE DEF o
<1>4. QED
  BY <1>1, <1>2, <1>3 DEF CronsNameAgents

\* A route's edit is of a stored cron.
LEMMA EditKeeps ==
  ASSUME CronsNameAgents, NEW h \in Threads,
         EditCrons(h) \/ C!PauseOrResume(h) \/ C!RouteWrite(h)
  PROVE  CronsNameAgents'
<1> DEFINE o == route[h]
<1>1. o \in Edit /\ route \in [Threads -> Edit] /\ crons \in [Crons -> Doc \cup {None}]
  BY DEF CronsNameAgents
<1>2. C!NoRoute \in Edit /\ C!NoRoute.pc = "idle"
  BY DEF C!NoRoute, Edit
<1>3. ASSUME NEW c, NEW d \in Doc, crons[c] \in Doc, c \in Crons, C!WillWrite(h, c, d),
             UNCHANGED <<crons, exec, now>>
      PROVE  CronsNameAgents'
  <2> DEFINE n == [pc |-> "set", cron |-> c, enable |-> FALSE, seen |-> crons[c], pending |-> d]
  <2>1. n \in Edit /\ n.pc = "set" /\ n.pending = d
    BY <1>3 DEF Edit
  <2>2. route' = [route EXCEPT ![h] = n]
    BY <1>3 DEF C!WillWrite
  <2> HIDE DEF n
  <2>3. QED
    BY <1>3, <2>1, <2>2 DEF CronsNameAgents
<1>4. ASSUME NEW c \in Crons, NEW once \in BOOLEAN, NEW kind \in Kinds, NEW a \in Agents,
             C!Create(h, c, TRUE, once, FALSE, kind, a)
      PROVE  CronsNameAgents'
  <2> DEFINE d == [enabled |-> TRUE, once |-> once, alert |-> FALSE, assignee |-> a, kind |-> kind,
                   errors |-> 0, alertAt |-> -1]
  <2>1. d \in Doc
    BY DEF Doc
  <2>2. crons' = [crons EXCEPT ![c] = d] /\ UNCHANGED <<exec, route, now>>
    BY <1>4 DEF C!Create
  <2> HIDE DEF d
  <2>3. QED
    BY <2>1, <2>2 DEF CronsNameAgents
<1>5. ASSUME NEW c \in Crons, NEW kind \in Kinds, NEW a \in Agents,
             C!Update(h, c, crons[c].enabled, crons[c].once, FALSE, kind, a)
      PROVE  CronsNameAgents'
  <2>1. crons[c] \in Doc
    BY <1>1, <1>5 DEF C!Update, C!Readable
  <2> DEFINE d == [crons[c] EXCEPT !.enabled = crons[c].enabled, !.once = crons[c].once, !.alert = FALSE,
                                   !.kind = kind, !.assignee = a]
  <2>2. d \in Doc
    BY <2>1 DEF Doc
  <2>3. C!WillWrite(h, c, d) /\ UNCHANGED <<crons, exec, now>>
    BY <1>5 DEF C!Update
  <2> HIDE DEF d
  <2>4. QED
    BY <1>3, <2>1, <2>2, <2>3
<1>6. ASSUME NEW c \in Crons, C!Toggle(h, c) PROVE CronsNameAgents'
  <2> DEFINE n == [C!NoRoute EXCEPT !.pc = "get", !.cron = c, !.enable = ~crons[c].enabled]
  <2>1. crons[c] \in Doc
    BY <1>1, <1>6 DEF C!Toggle
  <2>2. n \in Edit /\ n.pc = "get" /\ n.cron = c
    BY <1>2, <2>1 DEF Edit, Doc
  <2>3. route' = [route EXCEPT ![h] = n] /\ UNCHANGED <<crons, exec, now>>
    BY <1>6 DEF C!Toggle
  <2> HIDE DEF n
  <2>4. QED
    BY <2>2, <2>3 DEF CronsNameAgents
<1>7. ASSUME NEW c \in Crons, C!Delete(h, c) PROVE CronsNameAgents'
  BY <1>7 DEF C!Delete, CronsNameAgents
<1>8. CASE C!PauseOrResume(h)
  <2>1. CASE C!Readable(o.cron) /\ C!WillWrite(h, o.cron, [crons[o.cron] EXCEPT !.enabled = o.enable])
    <3>1. o.cron \in Crons /\ crons[o.cron] \in Doc
      BY <1>1, <1>8, <2>1 DEF CronsNameAgents, C!PauseOrResume, C!Readable
    <3>2. [crons[o.cron] EXCEPT !.enabled = o.enable] \in Doc
      BY <1>1, <3>1 DEF Edit, Doc
    <3>3. QED
      BY <1>3, <1>8, <2>1, <3>1, <3>2 DEF C!PauseOrResume
  <2>2. CASE route' = [route EXCEPT ![h] = C!NoRoute]
    BY <1>2, <1>8, <2>2 DEF C!PauseOrResume, CronsNameAgents
  <2>3. QED
    BY <1>8, <2>1, <2>2 DEF C!PauseOrResume
<1>9. CASE C!RouteWrite(h)
  <2>1. o.pending \in Doc /\ crons' = [crons EXCEPT ![o.cron] = o.pending]
    BY <1>9 DEF C!RouteWrite, CronsNameAgents
  <2>2. route' = [route EXCEPT ![h] = C!NoRoute] /\ UNCHANGED <<exec, now>>
    BY <1>9 DEF C!RouteWrite
  <2>3. QED
    BY <1>2, <2>1, <2>2 DEF CronsNameAgents
<1>10. QED
  BY <1>4, <1>5, <1>6, <1>7, <1>8, <1>9 DEF EditCrons

-----------------------------------------------------------------------------
(* Each step is one of the heartbeats of all agents, or a stutter.         *)

\* A status that is set for a registered agent is set among all.
LEMMA EmitForAll ==
  ASSUME CyclesAreRegistered, NEW a \in Registered, NEW s \in H!HeartbeatStatus, H!Emit(a, s)
  PROVE  All!Emit(a, s)
<1>1. last' = [last EXCEPT ![a] = s] /\ last \in [Registered -> H!HeartbeatStatus \cup {"none"}]
  BY DEF H!Emit, CyclesAreRegistered
<1>2. a \in Agents
  BY ProactiveAssumption
<1>3. lastOfAll' = [lastOfAll EXCEPT ![a] = s]
  BY <1>1, <1>2 DEF lastOfAll
<1>4. QED
  BY <1>3 DEF All!Emit

\* A cycle goes on as one of the heartbeats of all agents.
LEMMA ContinueIsOfAll ==
  ASSUME CyclesAreRegistered, NEW p \in H!Procs, H!Continue(p)
  PROVE  All!Continue(p) /\ CyclesAreRegistered'
<1> DEFINE o == cycle[p]
<1>1. o.pc # "idle"
  BY DEF H!Continue, H!AnswerOk, H!AnswerInFull, H!AgentFails, H!Tidied
<1>2. o.agent \in Registered
  BY <1>1 DEF CyclesAreRegistered
<1>3. \A S : (H!Handled(S) => All!Handled(S)) /\ (H!MarkDrained(S) => All!MarkDrained(S))
  BY DEF H!Handled, All!Handled, H!MarkDrained, All!MarkDrained
<1>4. \A s \in H!HeartbeatStatus : H!Emit(o.agent, s) => All!Emit(o.agent, s)
  BY <1>2, EmitForAll
<1>5. UNCHANGED last => UNCHANGED lastOfAll
  BY DEF lastOfAll
<1>6. H!Idle = All!Idle /\ {"sent", "ok-token", "failed"} \subseteq H!HeartbeatStatus
  BY DEF H!Idle, All!Idle, H!HeartbeatStatus
<1>7. All!Continue(p)
  <2>1. H!AnswerOk(p) => All!AnswerOk(p)
    BY <1>3, <1>4, <1>6 DEF H!AnswerOk, All!AnswerOk
  <2>2. H!AnswerInFull(p) => All!AnswerInFull(p)
    BY <1>3, <1>4, <1>5, <1>6 DEF H!AnswerInFull, All!AnswerInFull
  <2>3. H!AgentFails(p) => All!AgentFails(p)
    BY <1>4, <1>6 DEF H!AgentFails, All!AgentFails
  <2>4. H!Tidied(p) => All!Tidied(p)
    BY <1>3, <1>4, <1>6 DEF H!Tidied, All!Tidied
  <2>5. QED
    BY <2>1, <2>2, <2>3, <2>4 DEF H!Continue, All!Continue
<1>8. last' = last \/ \E s \in H!HeartbeatStatus : last' = [last EXCEPT ![o.agent] = s]
  BY <1>6 DEF H!Continue, H!AnswerOk, H!AnswerInFull, H!AgentFails, H!Tidied, H!Emit
<1>9. cycle' = [cycle EXCEPT ![p] = H!Idle] \/ cycle' = [cycle EXCEPT ![p].pc = "tidying"]
  BY DEF H!Continue, H!AnswerOk, H!AnswerInFull, H!AgentFails, H!Tidied
<1>10. CyclesAreRegistered'
  <2>1. queue' \subseteq queue /\ unused' = unused
    BY DEF H!Continue, H!AnswerOk, H!AnswerInFull, H!AgentFails, H!Tidied, H!MarkDrained
  <2>2. H!Idle \in [pc : {"idle", "running", "tidying"}, agent : Registered \cup {None}, events : SUBSET Events]
        /\ H!Idle.pc = "idle"
    BY DEF H!Idle
  <2>3. CASE cycle' = [cycle EXCEPT ![p] = H!Idle]
    BY <1>8, <2>1, <2>2, <2>3 DEF CyclesAreRegistered
  <2>4. CASE cycle' = [cycle EXCEPT ![p].pc = "tidying"]
    BY <1>2, <1>8, <2>1, <2>4 DEF CyclesAreRegistered
  <2>5. QED
    BY <1>9, <2>3, <2>4
<1>11. QED
  BY <1>7, <1>10

\* A cycle starts as one of the heartbeats of all agents: crons that cannot be
\* listed make the gathering fail.
LEMMA BeginIsOfAll ==
  ASSUME CyclesAreRegistered, NEW p \in H!Procs, NEW a \in Registered, Begin(p, a)
  PROVE  All!Begin(p, a) /\ CyclesAreRegistered'
<1>1. \A s \in H!HeartbeatStatus : H!Emit(a, s) => All!Emit(a, s)
  BY EmitForAll
<1>2. UNCHANGED last => UNCHANGED lastOfAll
  BY DEF lastOfAll
<1>3. {"skipped", "ok-empty", "failed"} \subseteq H!HeartbeatStatus
  BY DEF H!HeartbeatStatus
<1>4. H!Drained(a) = All!Drained(a)
  BY DEF H!Drained, All!Drained, H!Pending, All!Pending
<1>5. All!Begin(p, a)
  <2>1. H!Skip(p, a) => All!Skip(p, a)
    BY <1>1, <1>3 DEF H!Skip, All!Skip, H!IsIdle, All!IsIdle
  <2>2. H!NothingToDo(p, a) => All!NothingToDo(p, a)
    BY <1>1, <1>3, <1>4 DEF H!NothingToDo, All!NothingToDo, H!IsIdle, All!IsIdle
  <2>3. H!CallAgent(p, a) => All!CallAgent(p, a)
    BY <1>2, <1>4 DEF H!CallAgent, All!CallAgent, H!IsIdle, All!IsIdle
  <2>4. CASE H!IsIdle(p) /\ H!Emit(a, "failed") /\ UNCHANGED <<queue, target, unused, cycle, times>>
    BY <1>1, <1>3, <2>4 DEF H!IsIdle, All!IsIdle, All!GatherFails, All!Begin
  <2>5. QED
    BY <2>1, <2>2, <2>3, <2>4 DEF Begin, All!Begin
<1>6. last' = last \/ \E s \in H!HeartbeatStatus : last' = [last EXCEPT ![a] = s]
  BY <1>3 DEF Begin, H!Skip, H!NothingToDo, H!CallAgent, H!Emit
<1>7. \/ cycle' = cycle
      \/ \E S \in SUBSET queue : cycle' = [cycle EXCEPT ![p] = [pc |-> "running", agent |-> a, events |-> S]]
  BY DEF Begin, H!Skip, H!NothingToDo, H!CallAgent, H!Drained, H!Pending
<1>8. CyclesAreRegistered'
  <2>1. UNCHANGED <<queue, unused>>
    BY DEF Begin, H!Skip, H!NothingToDo, H!CallAgent
  <2>2. QED
    BY <1>6, <1>7, <2>1 DEF CyclesAreRegistered
<1>9. QED
  BY <1>5, <1>8

\* A crash is one of all heartbeats, and takes the copies with it.
LEMMA CrashIsOfAll ==
  ASSUME CyclesAreRegistered, CronsNameAgents, Crash
  PROVE  All!Crash /\ CyclesAreRegistered' /\ CronsNameAgents'
<1>1. /\ "crash" \in HeartbeatFaults
      /\ cycle' = [p \in H!Procs |-> H!Idle] /\ last' = [a \in Registered |-> "none"]
      /\ UNCHANGED <<queue, target, unused, times>>
  BY DEF Crash, H!Crash
<1>2. lastOfAll' = [a \in Agents |-> "none"]
  BY <1>1 DEF lastOfAll
<1>3. All!Crash
  BY <1>1, <1>2 DEF All!Crash, H!Procs, All!Procs, H!Idle, All!Idle
<1>4. CyclesAreRegistered'
  BY <1>1 DEF CyclesAreRegistered, H!Idle
<1>5. C!NoExec \in Execution /\ C!NoRoute \in Edit /\ C!NoExec.pc = "idle" /\ C!NoRoute.pc = "idle"
  BY DEF C!NoExec, C!NoRoute, Execution, Edit
<1>6. /\ exec' = [x \in Triggers |-> C!NoExec] /\ route' = [h \in Threads |-> C!NoRoute]
      /\ UNCHANGED <<crons, now>>
  BY DEF Crash
<1>7. CronsNameAgents'
  BY <1>5, <1>6 DEF CronsNameAgents
<1>8. QED
  BY <1>3, <1>4, <1>7

\* A firing enqueues an event for the agent that the cron names; what else the
\* crons do is nothing to the heartbeats.
LEMMA CronStepIsOfAll ==
  ASSUME CyclesAreRegistered, CronsNameAgents, CronStep
  PROVE  /\ \/ \E e \in unused, a \in Agents : All!Enqueue(e, a)
            \/ UNCHANGED <<queue, target, unused, cycle, lastOfAll, times>>
         /\ CyclesAreRegistered' /\ CronsNameAgents'
<1>1. UNCHANGED <<cycle, last, times>>
  BY DEF CronStep, heartbeatOnly
<1>2. UNCHANGED lastOfAll
  BY <1>1 DEF lastOfAll
<1>3. ASSUME NEW x \in Triggers, C!DispatchEvent(x)
      PROVE  \/ \E e \in unused, a \in Agents : All!Enqueue(e, a)
             \/ UNCHANGED <<queue, target, unused>>
  <2>1. exec[x].seen \in Doc
    BY <1>3 DEF C!DispatchEvent, CronsNameAgents
  <2>2. exec[x].seen.assignee \in Agents
    BY <2>1 DEF Doc
  <2>3. QED
    BY <1>1, <1>2, <1>3, <2>2 DEF C!DispatchEvent, All!Enqueue
<1>4. ASSUME NEW x \in Triggers, C!Execute(x), ~C!DispatchEvent(x) PROVE UNCHANGED <<queue, target, unused>>
  BY <1>4 DEF C!Execute, C!DispatchTask, C!WriteRun, C!Delivered, C!WriteFailure, C!AlertSent
<1>5. ASSUME NEW x \in Triggers, NEW c \in Crons, C!Trigger(x, c) PROVE UNCHANGED <<queue, target, unused>>
  BY <1>5 DEF C!Trigger
<1>6. ASSUME NEW h \in Threads, EditCrons(h) \/ C!PauseOrResume(h) \/ C!RouteWrite(h)
      PROVE  UNCHANGED <<queue, target, unused>>
  BY <1>6 DEF EditCrons, C!Create, C!Update, C!Toggle, C!Delete, C!PauseOrResume, C!RouteWrite
<1>7. CronsNameAgents'
  BY ExecutionKeeps, TriggerKeeps, EditKeeps DEF CronStep
<1>8. \/ \E e \in unused, a \in Agents : All!Enqueue(e, a)
      \/ UNCHANGED <<queue, target, unused, cycle, lastOfAll, times>>
  BY <1>1, <1>2, <1>3, <1>4, <1>5, <1>6 DEF CronStep
<1>9. queue' \subseteq Events /\ unused' \subseteq Events
  BY <1>8 DEF All!Enqueue, CyclesAreRegistered
<1>10. CyclesAreRegistered'
  BY <1>1, <1>9 DEF CyclesAreRegistered
<1>11. QED
  BY <1>7, <1>8, <1>10

-----------------------------------------------------------------------------
(* The theorems.                                                           *)

ProInv == CyclesAreRegistered /\ CronsNameAgents

LEMMA ProStart == Init => ProInv /\ All!Init
<1> SUFFICES ASSUME Init PROVE ProInv /\ All!Init
  OBVIOUS
<1>1. CronsNameAgents
  BY CronsStart DEF Init
<1>2. CyclesAreRegistered
  BY DEF Init, H!Init, CyclesAreRegistered, H!Idle
<1>3. lastOfAll = [a \in Agents |-> "none"]
  BY DEF Init, H!Init, lastOfAll
<1>4. All!Init
  BY <1>3 DEF Init, H!Init, All!Init, H!Procs, All!Procs, H!Idle, All!Idle
<1>5. QED
  BY <1>1, <1>2, <1>4 DEF ProInv

\* A step of crons and heartbeats is a step of the heartbeats of all agents.
LEMMA StepIsOfAll == ProInv /\ [Next]_vars => ProInv' /\ [All!Next]_All!heartbeatVars
<1> SUFFICES ASSUME ProInv, [Next]_vars PROVE ProInv' /\ [All!Next]_All!heartbeatVars
  OBVIOUS
<1>1. CASE CronStep
  <2>1. unused \subseteq Events
    BY DEF ProInv, CyclesAreRegistered
  <2>2. QED
    BY <1>1, <2>1, CronStepIsOfAll DEF ProInv, All!Next, All!heartbeatVars
<1>2. CASE Beat
  <2>1. H!Procs = All!Procs /\ Registered \subseteq Agents
    BY ProactiveAssumption DEF H!Procs, All!Procs
  <2>2. CronsNameAgents'
    BY <1>2 DEF Beat, OnLoop, cronOnly, ProInv, CronsNameAgents
  <2>3. ASSUME NEW p \in H!Procs, H!Continue(p) PROVE ProInv' /\ All!Next
    BY <2>1, <2>2, <2>3, ContinueIsOfAll DEF ProInv, All!Next
  <2>4. ASSUME NEW p \in H!Procs, NEW a \in Registered, Begin(p, a) PROVE ProInv' /\ All!Next
    BY <2>1, <2>2, <2>4, BeginIsOfAll DEF ProInv, All!Next
  <2>5. QED
    BY <1>2, <2>3, <2>4 DEF Beat, OnLoop
<1>3. CASE Crash
  BY <1>3, CrashIsOfAll DEF ProInv, All!Next
<1>4. CASE UNCHANGED vars
  BY <1>4 DEF vars, ProInv, CronsNameAgents, CyclesAreRegistered, All!heartbeatVars, lastOfAll
<1>5. QED
  BY <1>1, <1>2, <1>3, <1>4 DEF Next

\* Crons and heartbeats together are heartbeats of all agents, to whose queue
\* somebody posts.
LEMMA ProactiveImplementsHeartbeat == Spec => All!Spec
<1>1. Init => ProInv /\ All!Init
  BY ProStart
<1>2. ProInv /\ [Next]_vars => ProInv' /\ [All!Next]_All!heartbeatVars
  BY StepIsOfAll
<1>3. QED
  BY <1>1, <1>2, PTL DEF Spec, All!Spec

\* What DeliveryProofs assumes of its constants.
LEMMA AllAssumption == All!HeartbeatAssumption
BY ProactiveAssumption DEF All!HeartbeatAssumption, H!HeartbeatAssumption, H!Fault, All!Fault

\* The two modules see the same queue.
LEMMA SameQueue ==
  /\ All!D!Init <=> D!Init
  /\ [All!D!Next]_<<[e \in Events |-> All!Delivery(e)], target>> <=> [D!Next]_<<[e \in Events |-> H!Delivery(e)], target>>
<1>1. [e \in Events |-> All!Delivery(e)] = [e \in Events |-> H!Delivery(e)]
  BY DEF All!Delivery, H!Delivery
<1>2. [e \in Events |-> All!Delivery(e)]' = [e \in Events |-> H!Delivery(e)]'
  BY DEF All!Delivery, H!Delivery
<1>3. All!D!Init <=> D!Init
  BY <1>1 DEF All!D!Init, D!Init
<1>4. \A e, a : All!D!Post(e, a) <=> D!Post(e, a)
  BY <1>1, <1>2 DEF All!D!Post, D!Post
<1>5. \A a, S, R : All!D!Handle(a, S, R) <=> D!Handle(a, S, R)
  BY <1>1, <1>2 DEF All!D!Handle, D!Handle
<1>6. \A R : All!D!Retire(R) <=> D!Retire(R)
  BY <1>1, <1>2 DEF All!D!Retire, D!Retire
<1>7. All!D!Next <=> D!Next
  BY <1>4, <1>5, <1>6 DEF All!D!Next, D!Next
<1>8. QED
  BY <1>1, <1>2, <1>3, <1>7

\* Scheduled work arrives: whatever executions, edits, cycles, failures and
\* crashes interleave, an event that a cron enqueued leaves the queue only
\* after a cycle of its assignee was given it and succeeded; also for an
\* assignee that has no heartbeat.
THEOREM FiringsAreNeverLost == Spec => FiringsAreDelivered
<1>1. All!Spec => All!ImplementsDelivery
  BY AllAssumption, All!HeartbeatImplementsDelivery, PTL
<1>2. QED
  BY <1>1, ProactiveImplementsHeartbeat, SameQueue, PTL
     DEF All!ImplementsDelivery, All!D!Spec, FiringsAreDelivered, D!Spec
=============================================================================
