---------------------------- MODULE DeliveryProofs ----------------------------
(***************************************************************************)
(* Proofs about module Heartbeat, for any number of agents, events and     *)
(* concurrent triggers and any subset of the faults: no queued event is    *)
(* lost or strays, and the queue implements EventDelivery.                 *)
(***************************************************************************)
EXTENDS Heartbeat, TLAPS

\* A cycle that is tidying up has handled its events; a cycle that is under
\* way has an agent.
CycleOK(p) ==
  /\ cycle[p].pc # "idle" => cycle[p].agent \in Agents
  /\ cycle[p].pc = "tidying" => \A e \in cycle[p].events : times[e] > 0

\* An id that was not drawn is nowhere.
UnusedOK == \A e \in unused : e \notin queue /\ target[e] = None /\ times[e] = 0

\* The inductive invariant.
DeliveryInv ==
  /\ TypeOK
  /\ UnusedOK
  /\ NoEventLost
  /\ EventsReachTheirAgent
  /\ \A p \in Procs : CycleOK(p)

-----------------------------------------------------------------------------
(* Lemmas on the two halves of a drain.                                    *)

\* mark_drained removes nothing but the events it was given.
LEMMA DrainRemovesOwn ==
  ASSUME NEW S \in SUBSET Events, MarkDrained(S)
  PROVE  queue' \subseteq queue /\ queue \ queue' \subseteq S
<1>1. PICK kept \in SUBSET (IF "delete" \in Faults THEN S ELSE {}) : queue' = queue \ (S \ kept)
  BY DEF MarkDrained
<1>2. QED
  BY <1>1

\* Handling counts the events that were handled, and only those.
LEMMA HandledCounts ==
  ASSUME NEW S \in SUBSET Events, Handled(S), times \in [Events -> 0 .. 2]
  PROVE  /\ times' \in [Events -> 0 .. 2]
         /\ \A e \in S : times'[e] > 0
         /\ \A e \in Events : e \notin S => times'[e] = times[e]
         /\ \A e \in Events : times[e] > 0 => times'[e] > 0
<1>1. times' = [e \in Events |-> IF e \in S /\ times[e] < 2 THEN times[e] + 1 ELSE times[e]]
  BY DEF Handled
<1>2. ASSUME NEW e \in Events
      PROVE  /\ times'[e] \in 0 .. 2
             /\ e \in S => times'[e] > 0
             /\ e \notin S => times'[e] = times[e]
             /\ times[e] > 0 => times'[e] > 0
  BY <1>1, <1>2
<1>3. QED
  BY <1>1, <1>2

\* What is pending for an agent is on the queue and was posted for it.
LEMMA DrainedIsOwn ==
  ASSUME NEW a \in Agents, NEW S \in Drained(a)
  PROVE  S \subseteq queue /\ \A e \in S : target[e] = a
BY DEF Drained, Pending

-----------------------------------------------------------------------------
(* The invariant.                                                          *)

\* Nothing is queued and nothing runs at first.
LEMMA DeliveryInit == Init => DeliveryInv
<1> SUFFICES ASSUME Init PROVE DeliveryInv
  OBVIOUS
<1>1. \A p \in Procs : cycle[p] = Idle
  BY DEF Init
<1>2. TypeOK
  <2>1. cycle \in [Procs -> [pc : {"idle", "running", "tidying"}, agent : Agents \cup {None},
                             events : SUBSET Events]]
    BY DEF Init, Idle
  <2>2. QED
    BY <2>1 DEF Init, TypeOK
<1>3. UnusedOK /\ NoEventLost
  BY DEF Init, UnusedOK, NoEventLost
<1>4. EventsReachTheirAgent /\ \A p \in Procs : CycleOK(p)
  BY <1>1 DEF EventsReachTheirAgent, CycleOK, Idle
<1>5. QED
  BY <1>2, <1>3, <1>4 DEF DeliveryInv

\* A cycle that ends at a gate changes the bus only.
LEMMA GateKeepsInv ==
  ASSUME DeliveryInv, NEW p \in Procs, NEW a \in Agents,
         Skip(p, a) \/ GatherFails(p, a) \/ NothingToDo(p, a)
  PROVE  DeliveryInv'
<1>1. /\ UNCHANGED <<queue, target, unused, cycle, times>>
      /\ \E s \in HeartbeatStatus : last' = [last EXCEPT ![a] = s]
  BY DEF Skip, GatherFails, NothingToDo, Emit, HeartbeatStatus
<1>2. TypeOK'
  BY <1>1 DEF DeliveryInv, TypeOK
<1>3. QED
  BY <1>1, <1>2 DEF DeliveryInv, UnusedOK, NoEventLost, EventsReachTheirAgent, CycleOK

\* A cycle that calls its agent carries events that were posted for it.
LEMMA CallKeepsInv ==
  ASSUME DeliveryInv, NEW p \in Procs, NEW a \in Agents, CallAgent(p, a)
  PROVE  DeliveryInv'
<1>1. PICK S \in Drained(a) :
        cycle' = [cycle EXCEPT ![p] = [pc |-> "running", agent |-> a, events |-> S]]
  BY DEF CallAgent
<1>2. UNCHANGED <<queue, target, unused, last, times>>
  BY DEF CallAgent
<1>3. S \subseteq queue /\ \A e \in S : target[e] = a
  BY DrainedIsOwn
<1>4. cycle \in [Procs -> [pc : {"idle", "running", "tidying"}, agent : Agents \cup {None},
                           events : SUBSET Events]]
      /\ queue \subseteq Events
  BY DEF DeliveryInv, TypeOK
<1>5. TypeOK'
  <2>1. cycle' \in [Procs -> [pc : {"idle", "running", "tidying"}, agent : Agents \cup {None},
                              events : SUBSET Events]]
    BY <1>1, <1>3, <1>4
  <2>2. QED
    BY <1>2, <2>1 DEF DeliveryInv, TypeOK
<1>6. ASSUME NEW q \in Procs
      PROVE  /\ \A e \in cycle'[q].events : target'[e] = cycle'[q].agent /\ e \notin unused'
             /\ CycleOK(q)'
  <2>1. CASE q = p
    <3>1. cycle'[q] = [pc |-> "running", agent |-> a, events |-> S]
      BY <1>1, <1>4, <2>1
    <3>2. \A e \in S : e \notin unused
      BY <1>3 DEF DeliveryInv, UnusedOK
    <3>3. QED
      BY <1>2, <1>3, <3>1, <3>2 DEF CycleOK
  <2>2. CASE q # p
    <3>1. cycle'[q] = cycle[q]
      BY <1>1, <1>4, <2>2
    <3>2. QED
      BY <1>2, <3>1 DEF DeliveryInv, EventsReachTheirAgent, CycleOK
  <2>3. QED
    BY <2>1, <2>2
<1>7. QED
  BY <1>2, <1>5, <1>6 DEF DeliveryInv, UnusedOK, NoEventLost, EventsReachTheirAgent

\* What a cycle under way knows of its events.
LEMMA CycleKnows ==
  ASSUME DeliveryInv, NEW p \in Procs
  PROVE  /\ cycle[p].events \in SUBSET Events
         /\ \A e \in cycle[p].events : e \notin unused /\ target[e] = cycle[p].agent
BY DEF DeliveryInv, TypeOK, EventsReachTheirAgent

\* Whenever a cycle becomes idle or starts to tidy up, the other cycles and
\* the events of this one stay as they are.
LEMMA CycleMoves ==
  ASSUME DeliveryInv, NEW p \in Procs, NEW s \in {"idle", "tidying"},
         UNCHANGED <<target, unused>>,
         times' \in [Events -> 0 .. 2],
         \A e \in Events : times[e] > 0 => times'[e] > 0,
         \/ s = "idle" /\ cycle' = [cycle EXCEPT ![p] = Idle]
         \/ /\ s = "tidying" /\ cycle' = [cycle EXCEPT ![p].pc = "tidying"]
            /\ cycle[p].pc # "idle"
            /\ \A e \in cycle[p].events : times'[e] > 0
  PROVE  /\ cycle' \in [Procs -> [pc : {"idle", "running", "tidying"},
                                  agent : Agents \cup {None}, events : SUBSET Events]]
         /\ EventsReachTheirAgent'
         /\ \A q \in Procs : CycleOK(q)'
<1>1. cycle \in [Procs -> [pc : {"idle", "running", "tidying"}, agent : Agents \cup {None},
                           events : SUBSET Events]]
  BY DEF DeliveryInv, TypeOK
<1>2. cycle' \in [Procs -> [pc : {"idle", "running", "tidying"}, agent : Agents \cup {None},
                            events : SUBSET Events]]
  <2>1. CASE s = "idle"
    BY <1>1, <2>1 DEF Idle
  <2>2. CASE s = "tidying"
    BY <1>1, <2>2
  <2>3. QED
    BY <2>1, <2>2
<1>3. ASSUME NEW q \in Procs
      PROVE  /\ \A e \in cycle'[q].events : target'[e] = cycle'[q].agent /\ e \notin unused'
             /\ CycleOK(q)'
  <2>1. CASE q = p /\ s = "idle"
    BY <1>1, <2>1 DEF Idle, CycleOK
  <2>2. CASE q = p /\ s = "tidying"
    <3>1. cycle'[q].pc = "tidying" /\ cycle'[q].agent = cycle[p].agent
          /\ cycle'[q].events = cycle[p].events
      BY <1>1, <2>2
    <3>2. QED
      BY <2>2, <3>1, CycleKnows DEF DeliveryInv, CycleOK
  <2>3. CASE q # p
    <3>1. cycle'[q] = cycle[q]
      BY <1>1, <2>3
    <3>2. cycle[q].events \in SUBSET Events
      BY CycleKnows
    <3>3. QED
      BY <3>1, <3>2 DEF DeliveryInv, EventsReachTheirAgent, CycleOK
  <2>4. QED
    BY <2>1, <2>2, <2>3
<1>4. QED
  BY <1>2, <1>3 DEF EventsReachTheirAgent

\* A cycle's answer, or its end, keeps every event that nobody has handled.
LEMMA ContinueKeepsInv ==
  ASSUME DeliveryInv, NEW p \in Procs, Continue(p)
  PROVE  DeliveryInv'
<1> DEFINE S == cycle[p].events
<1>1. S \in SUBSET Events /\ times \in [Events -> 0 .. 2] /\ queue \subseteq Events
      /\ \A e \in S : e \notin unused
  BY CycleKnows DEF DeliveryInv, TypeOK
<1>2. UNCHANGED <<target, unused>>
  BY DEF Continue, AnswerOk, AnswerInFull, AgentFails, Tidied
<1>3. last' \in [Agents -> HeartbeatStatus \cup {"none"}]
  <2>1. last \in [Agents -> HeartbeatStatus \cup {"none"}]
    BY DEF DeliveryInv, TypeOK
  <2>2. last' = last \/ \E s \in HeartbeatStatus : last' = [last EXCEPT ![cycle[p].agent] = s]
    BY DEF Continue, AnswerOk, AnswerInFull, AgentFails, Tidied, Emit, HeartbeatStatus
  <2>3. QED
    BY <2>1, <2>2
<1>4. /\ times' \in [Events -> 0 .. 2]
      /\ \A e \in Events : times[e] > 0 => times'[e] > 0
      /\ \A e \in Events : e \notin S => times'[e] = times[e]
  <2>1. CASE Handled(S)
    BY <1>1, <2>1, HandledCounts
  <2>2. CASE UNCHANGED times
    BY <1>1, <2>2
  <2>3. QED
    BY <2>1, <2>2 DEF Continue, AnswerOk, AnswerInFull, AgentFails, Tidied
<1>5. /\ queue' \subseteq queue
      /\ \A e \in queue : e \in queue' \/ (e \in S /\ times'[e] > 0)
  <2>1. CASE AnswerOk(p)
    <3>1. Handled(S) /\ MarkDrained(S)
      BY <2>1 DEF AnswerOk
    <3>2. queue' \subseteq queue /\ queue \ queue' \subseteq S
      BY <1>1, <3>1, DrainRemovesOwn
    <3>3. \A e \in S : times'[e] > 0
      BY <1>1, <3>1, HandledCounts
    <3>4. QED
      BY <3>2, <3>3
  <2>2. CASE Tidied(p)
    <3>1. MarkDrained(S) /\ cycle[p].pc = "tidying"
      BY <2>2 DEF Tidied
    <3>2. queue' \subseteq queue /\ queue \ queue' \subseteq S
      BY <1>1, <3>1, DrainRemovesOwn
    <3>3. \A e \in S : times[e] > 0
      BY <3>1 DEF DeliveryInv, CycleOK
    <3>4. QED
      BY <1>1, <1>4, <3>2, <3>3
  <2>3. CASE AnswerInFull(p) \/ AgentFails(p)
    BY <2>3 DEF AnswerInFull, AgentFails
  <2>4. QED
    BY <2>1, <2>2, <2>3 DEF Continue
<1>6. /\ cycle' \in [Procs -> [pc : {"idle", "running", "tidying"},
                               agent : Agents \cup {None}, events : SUBSET Events]]
      /\ EventsReachTheirAgent'
      /\ \A q \in Procs : CycleOK(q)'
  <2>1. CASE cycle' = [cycle EXCEPT ![p] = Idle]
    BY <1>2, <1>4, <2>1, CycleMoves
  <2>2. CASE AnswerInFull(p) /\ cycle' = [cycle EXCEPT ![p].pc = "tidying"]
    <3>1. \A e \in S : times'[e] > 0
      BY <1>1, <2>2, HandledCounts DEF AnswerInFull
    <3>2. cycle[p].pc # "idle"
      BY <2>2 DEF AnswerInFull
    <3>3. QED
      BY <1>2, <1>4, <2>2, <3>1, <3>2, CycleMoves
  <2>3. QED
    BY <2>1, <2>2 DEF Continue, AnswerOk, AnswerInFull, AgentFails, Tidied
<1>7. TypeOK'
  BY <1>2, <1>3, <1>4, <1>5, <1>6 DEF DeliveryInv, TypeOK
<1>8. UnusedOK'
  BY <1>1, <1>2, <1>4, <1>5 DEF DeliveryInv, TypeOK, UnusedOK
<1>9. NoEventLost'
  BY <1>1, <1>2, <1>4, <1>5 DEF DeliveryInv, NoEventLost
<1>10. QED
  BY <1>6, <1>7, <1>8, <1>9 DEF DeliveryInv

\* The process dies: nothing that is stored changes.
LEMMA CrashKeepsInv == DeliveryInv /\ Crash => DeliveryInv'
<1> SUFFICES ASSUME DeliveryInv, Crash PROVE DeliveryInv'
  OBVIOUS
<1>1. /\ cycle' = [p \in Procs |-> Idle] /\ last' = [a \in Agents |-> "none"]
      /\ UNCHANGED <<queue, target, unused, times>>
  BY DEF Crash
<1>2. \A p \in Procs : cycle'[p] = Idle
  BY <1>1
<1>3. TypeOK'
  <2>1. cycle' \in [Procs -> [pc : {"idle", "running", "tidying"}, agent : Agents \cup {None},
                              events : SUBSET Events]]
    BY <1>1 DEF Idle
  <2>2. last' \in [Agents -> HeartbeatStatus \cup {"none"}]
    BY <1>1
  <2>3. QED
    BY <1>1, <2>1, <2>2 DEF DeliveryInv, TypeOK
<1>4. EventsReachTheirAgent' /\ \A p \in Procs : CycleOK(p)'
  BY <1>2 DEF EventsReachTheirAgent, CycleOK, Idle
<1>5. QED
  BY <1>1, <1>3, <1>4 DEF DeliveryInv, UnusedOK, NoEventLost

\* An event gets an id that no cycle carries.
LEMMA EnqueueKeepsInv ==
  ASSUME DeliveryInv, NEW e \in Events, NEW a \in Agents, Enqueue(e, a)
  PROVE  DeliveryInv'
<1>1. /\ e \in unused /\ unused' = unused \ {e} /\ queue' = queue \cup {e}
      /\ target' = [target EXCEPT ![e] = a]
      /\ UNCHANGED <<cycle, last, times>>
  BY DEF Enqueue
<1>2. target \in [Events -> Agents \cup {None}] /\ unused \subseteq Events
  BY DEF DeliveryInv, TypeOK
<1>3. TypeOK'
  BY <1>1, <1>2 DEF DeliveryInv, TypeOK
<1>4. \A f \in Events : f # e => target'[f] = target[f]
  BY <1>1, <1>2
<1>5. UnusedOK'
  BY <1>1, <1>2, <1>4 DEF DeliveryInv, UnusedOK
<1>6. NoEventLost'
  BY <1>1 DEF DeliveryInv, NoEventLost
<1>7. EventsReachTheirAgent'
  BY <1>1, <1>4, CycleKnows DEF EventsReachTheirAgent
<1>8. QED
  BY <1>1, <1>3, <1>5, <1>6, <1>7 DEF DeliveryInv, CycleOK

\* Every step keeps the invariant.
LEMMA DeliveryStep == DeliveryInv /\ [Next]_heartbeatVars => DeliveryInv'
<1> SUFFICES ASSUME DeliveryInv, [Next]_heartbeatVars PROVE DeliveryInv'
  OBVIOUS
<1>1. ASSUME NEW p \in Procs, Continue(p) PROVE DeliveryInv'
  BY <1>1, ContinueKeepsInv
<1>2. ASSUME NEW p \in Procs, NEW a \in Agents, Begin(p, a) PROVE DeliveryInv'
  BY <1>2, GateKeepsInv, CallKeepsInv DEF Begin
<1>3. ASSUME NEW e \in Events, NEW a \in Agents, Enqueue(e, a) PROVE DeliveryInv'
  BY <1>3, EnqueueKeepsInv
<1>4. CASE Crash
  BY <1>4, CrashKeepsInv
<1>5. CASE UNCHANGED heartbeatVars
  BY <1>5 DEF heartbeatVars, DeliveryInv, TypeOK, UnusedOK, NoEventLost,
              EventsReachTheirAgent, CycleOK
<1>6. QED
  BY <1>1, <1>2, <1>3, <1>4, <1>5 DEF Next

-----------------------------------------------------------------------------
(* The theorems.                                                           *)

\* The state of the heartbeats and of the queue keeps its type.
THEOREM DeliveryTypeCorrect == Spec => []TypeOK
<1>1. DeliveryInv => TypeOK
  BY DEF DeliveryInv
<1>2. QED
  BY <1>1, DeliveryInit, DeliveryStep, PTL DEF Spec

\* No queued event is lost: however runs fail, cycles overlap and the process
\* crashes, an event is off the queue only after a run that was given it.
THEOREM QueueKeepsEvents == Spec => []NoEventLost
<1>1. DeliveryInv => NoEventLost
  BY DEF DeliveryInv
<1>2. QED
  BY <1>1, DeliveryInit, DeliveryStep, PTL DEF Spec

\* No event strays: a run is given events of its own agent only.
THEOREM EventsDoNotStray == Spec => []EventsReachTheirAgent
<1>1. DeliveryInv => EventsReachTheirAgent
  BY DEF DeliveryInv
<1>2. QED
  BY <1>1, DeliveryInit, DeliveryStep, PTL DEF Spec

\* The queue starts empty in the abstract specification too.
LEMMA InitRefines == Init => D!Init
<1> SUFFICES ASSUME Init PROVE D!Init
  OBVIOUS
<1>1. \A e \in Events : Delivery(e) = "unused"
  BY DEF Init, Delivery
<1>2. QED
  BY <1>1 DEF Init, D!Init

\* A step that leaves the queue's state alone is a stuttering step.
LEMMA StutterRefines ==
  ASSUME UNCHANGED <<queue, target, unused, times>>
  PROVE  UNCHANGED <<[e \in Events |-> Delivery(e)], target>>
<1>1. \A e \in Events : Delivery(e)' = Delivery(e)
  BY DEF Delivery
<1>2. QED
  BY <1>1

\* A cycle's answer handles the events that are still queued; its end retires
\* handled ones.
LEMMA ContinueRefines ==
  ASSUME DeliveryInv, DeliveryInv', NEW p \in Procs, Continue(p)
  PROVE  D!Next \/ UNCHANGED <<[e \in Events |-> Delivery(e)], target>>
<1> DEFINE S == cycle[p].events
           a == cycle[p].agent
           Q == S \cap queue
           R == Q \ queue'
<1>1. S \in SUBSET Events /\ times \in [Events -> 0 .. 2] /\ queue \subseteq Events
      /\ unused \subseteq Events
      /\ \A e \in S : e \notin unused /\ target[e] = a /\ (e \notin queue => times[e] > 0)
  BY CycleKnows DEF DeliveryInv, TypeOK, NoEventLost
<1>2. UNCHANGED <<target, unused>>
  BY DEF Continue, AnswerOk, AnswerInFull, AgentFails, Tidied
<1>3. ASSUME Handled(S), cycle[p].pc = "running",
             MarkDrained(S) \/ UNCHANGED queue
      PROVE  D!Next
  <2>1. queue' \subseteq queue /\ queue \ queue' \subseteq S
    BY <1>1, <1>3, DrainRemovesOwn
  <2>2. /\ \A e \in S : times'[e] > 0
        /\ \A e \in Events : e \notin S => times'[e] = times[e]
    BY <1>1, <1>3, HandledCounts
  <2>3. a \in Agents
    BY <1>3 DEF DeliveryInv, CycleOK
  <2>4. \A e \in Q : target[e] = a /\ Delivery(e) \in {"pending", "handled"}
    BY <1>1 DEF Delivery
  <2>5. ASSUME NEW e \in Events
        PROVE  Delivery(e)' = IF e \in R THEN "gone"
                              ELSE IF e \in Q THEN "handled" ELSE Delivery(e)
    BY <1>1, <1>2, <2>1, <2>2 DEF Delivery
  <2>6. D!Handle(a, Q, R)
    <3>1. \A e \in Q : e \in Events
      BY <1>1
    <3>2. [e \in Events |-> Delivery(e)]' =
            [e \in Events |-> IF e \in R THEN "gone"
                              ELSE IF e \in Q THEN "handled" ELSE Delivery(e)]
      BY <2>5
    <3>3. QED
      BY <1>2, <2>4, <3>1, <3>2 DEF D!Handle
  <2>7. Q \in SUBSET Events /\ R \in SUBSET Q
    BY <1>1
  <2>8. QED
    BY <2>3, <2>6, <2>7 DEF D!Next
<1>4. CASE AnswerOk(p)
  BY <1>3, <1>4 DEF AnswerOk
<1>5. CASE AnswerInFull(p)
  BY <1>3, <1>5 DEF AnswerInFull
<1>6. CASE Tidied(p)
  <2>1. MarkDrained(S) /\ UNCHANGED times /\ cycle[p].pc = "tidying"
    BY <1>6 DEF Tidied
  <2>2. queue' \subseteq queue /\ queue \ queue' \subseteq S
    BY <1>1, <2>1, DrainRemovesOwn
  <2>3. \A e \in S : times[e] > 0
    BY <2>1 DEF DeliveryInv, CycleOK
  <2>4. \A e \in R : e \in Events /\ Delivery(e) = "handled"
    BY <1>1, <2>3 DEF Delivery
  <2>5. ASSUME NEW e \in Events
        PROVE  Delivery(e)' = IF e \in R THEN "gone" ELSE Delivery(e)
    BY <1>1, <1>2, <2>1, <2>2, <2>3 DEF Delivery
  <2>6. [e \in Events |-> Delivery(e)]' =
          [e \in Events |-> IF e \in R THEN "gone" ELSE Delivery(e)]
    BY <2>5
  <2>7. D!Retire(R)
    BY <1>2, <2>4, <2>6 DEF D!Retire
  <2>8. R \in SUBSET Events
    BY <1>1
  <2>9. QED
    BY <2>7, <2>8 DEF D!Next
<1>7. CASE AgentFails(p)
  BY <1>7, StutterRefines DEF AgentFails
<1>8. QED
  BY <1>4, <1>5, <1>6, <1>7 DEF Continue

\* An enqueue posts the event.
LEMMA EnqueueRefines ==
  ASSUME DeliveryInv, NEW e \in Events, NEW a \in Agents, Enqueue(e, a)
  PROVE  D!Next
<1>1. /\ e \in unused /\ unused' = unused \ {e} /\ queue' = queue \cup {e}
      /\ target' = [target EXCEPT ![e] = a] /\ UNCHANGED times
  BY DEF Enqueue
<1>2. times[e] = 0
  BY <1>1 DEF DeliveryInv, UnusedOK
<1>3. Delivery(e) = "unused" /\ Delivery(e)' = "pending"
  BY <1>1, <1>2 DEF Delivery
<1>4. \A f \in Events : f # e => Delivery(f)' = Delivery(f)
  BY <1>1 DEF Delivery
<1>5. [f \in Events |-> Delivery(f)]' =
        [[f \in Events |-> Delivery(f)] EXCEPT ![e] = "pending"]
  BY <1>3, <1>4
<1>6. D!Post(e, a)
  BY <1>1, <1>3, <1>5 DEF D!Post
<1>7. QED
  BY <1>6 DEF D!Next

\* Every step of the heartbeats is a step of EventDelivery or a stutter.
LEMMA StepRefines ==
  DeliveryInv /\ DeliveryInv' /\ [Next]_heartbeatVars
    => [D!Next]_<<[e \in Events |-> Delivery(e)], target>>
<1> SUFFICES ASSUME DeliveryInv, DeliveryInv', [Next]_heartbeatVars
             PROVE  D!Next \/ UNCHANGED <<[e \in Events |-> Delivery(e)], target>>
  OBVIOUS
<1>1. ASSUME NEW p \in Procs, Continue(p)
      PROVE  D!Next \/ UNCHANGED <<[e \in Events |-> Delivery(e)], target>>
  BY <1>1, ContinueRefines
<1>2. ASSUME NEW p \in Procs, NEW a \in Agents, Begin(p, a)
      PROVE  UNCHANGED <<[e \in Events |-> Delivery(e)], target>>
  BY <1>2, StutterRefines DEF Begin, Skip, GatherFails, NothingToDo, CallAgent
<1>3. ASSUME NEW e \in Events, NEW a \in Agents, Enqueue(e, a) PROVE D!Next
  BY <1>3, EnqueueRefines
<1>4. CASE Crash
  BY <1>4, StutterRefines DEF Crash
<1>5. CASE UNCHANGED heartbeatVars
  BY <1>5, StutterRefines DEF heartbeatVars
<1>6. QED
  BY <1>1, <1>2, <1>3, <1>4, <1>5 DEF Next

\* The heartbeats implement the abstract queue: at least once, to the agent
\* that the event was posted for, and never dropped unhandled.
THEOREM HeartbeatImplementsDelivery == Spec => ImplementsDelivery
BY DeliveryInit, DeliveryStep, InitRefines, StepRefines, PTL DEF Spec, ImplementsDelivery, D!Spec
=============================================================================
