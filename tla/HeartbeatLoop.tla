---------------------------- MODULE HeartbeatLoop ----------------------------
(***************************************************************************)
(* When a heartbeat starts: the background HeartbeatLoop, the phase        *)
(* arithmetic of heartbeat/schedule.py and the active-hours gate.  Module  *)
(* Heartbeat says what a cycle does.                                       *)
(*                                                                         *)
(* The loop wakes every TickMs, reads the clock once, and visits the       *)
(* registered agents in order with that one reading; it awaits the cycle   *)
(* of each agent that is due.  All times are in milliseconds of Unix time. *)
(***************************************************************************)
EXTENDS Integers, Sequences

CONSTANTS
  Agents,       \* the registered agents
  Order,        \* the registry's order: Agents as a sequence
  Enabled,      \* agents whose config is enabled, with an interval that parses
  Interval,     \* Interval[a]: config "every"
  Phase,        \* Phase[a]: resolve_phase_ms, a hash modulo the interval
  Window,       \* Window[a]: active_hours [start, end], in ms of a day
  DayMs,        \* a day
  TickMs,       \* the loop's tick
  MaxRun,       \* bound: how long a cycle takes
  MaxNow        \* bound: the clock

VARIABLES
  now,          \* the clock
  pc,           \* "off", "pass" (visiting), "running" (a cycle), "asleep"
  stopping,     \* stop() was called
  passNow,      \* the clock reading of the current pass
  i,            \* the place in Order of the agent that is visited next
  due,          \* _next_due: due[a] for the agents of known
  known,        \* agents that have an entry in _next_due
  lastFire,     \* passNow of the latest cycle of a since the start, or -1
  lag           \* how late that cycle was

loopVars == <<now, pc, stopping, passNow, i, due, known, lastFire, lag>>

ASSUME LoopAssumption ==
  /\ Order \in Seq(Agents)
  /\ Enabled \subseteq Agents
  /\ Interval \in [Agents -> Nat \ {0}]
  /\ Phase \in [Agents -> Nat]
  /\ DayMs \in Nat \ {0} /\ TickMs \in Nat /\ MaxRun \in Nat /\ MaxNow \in Nat

-----------------------------------------------------------------------------
(* schedule.py                                                             *)

\* Slip: the correction to the next tick goes the wrong way.
Slip_NextDueBackwards(t, interval, phase) ==
  LET base == (t \div interval) * interval + (phase % interval)
  IN IF base < t THEN base - interval ELSE base

\* compute_next_due_ms
NextDue(t, interval, phase) ==
  LET base == (t \div interval) * interval + (phase % interval)
  IN IF base < t THEN base + interval ELSE base

\* is_within_active_hours, on a time of day; the window may pass midnight.
WithinHours(t, w) ==
  IF w.start <= w.end THEN w.start <= t /\ t <= w.end ELSE t >= w.start \/ t <= w.end

\* The gate of HeartbeatService.run: it looks at the UTC time of day.
Open(a) == WithinHours(now % DayMs, Window[a])

-----------------------------------------------------------------------------
Current == Order[i]
AtEnd == i > Len(Order)

\* The application starts, later than it stopped; nothing is remembered.
Start ==
  /\ pc = "off"
  /\ \E t \in now .. MaxNow : now' = t
  /\ pc' = "asleep" /\ stopping' = FALSE
  /\ known' = {}
  /\ lastFire' = [a \in Agents |-> -1]
  /\ lag' = [a \in Agents |-> 0]
  /\ passNow' = now'
  /\ UNCHANGED <<i, due>>

\* The tick passes (not at once after a start, but that is one more reading).
Wake ==
  /\ pc = "asleep" /\ ~stopping
  /\ \E t \in now .. now + TickMs : t <= MaxNow /\ now' = t
  /\ pc' = "pass" /\ i' = 1 /\ passNow' = now'
  /\ UNCHANGED <<stopping, due, known, lastFire, lag>>

VisitDisabled ==
  /\ pc = "pass" /\ ~AtEnd /\ Current \notin Enabled
  /\ i' = i + 1
  /\ UNCHANGED <<now, pc, stopping, passNow, due, known, lastFire, lag>>

\* The due time on the visit: a first visit computes it.
DueOnVisit(a) ==
  IF a \in known THEN due[a] ELSE NextDue(passNow, Interval[a], Phase[a])

VisitNotDue ==
  /\ pc = "pass" /\ ~AtEnd /\ Current \in Enabled
  /\ passNow < DueOnVisit(Current)
  /\ due' = [due EXCEPT ![Current] = DueOnVisit(Current)]
  /\ known' = known \cup {Current}
  /\ i' = i + 1
  /\ UNCHANGED <<now, pc, stopping, passNow, lastFire, lag>>

VisitDue ==
  /\ pc = "pass" /\ ~AtEnd /\ Current \in Enabled
  /\ passNow >= DueOnVisit(Current)
  /\ due' = [due EXCEPT ![Current] = DueOnVisit(Current)]
  /\ known' = known \cup {Current}
  /\ lastFire' = [lastFire EXCEPT ![Current] = passNow]
  /\ lag' = [lag EXCEPT ![Current] = passNow - DueOnVisit(Current)]
  /\ pc' = "running"
  /\ UNCHANGED <<now, stopping, passNow, i>>

\* Slip: the next due time is computed from the reading itself, which an
\* aligned reading satisfies again.
Slip_DueAgain ==
  /\ pc = "running"
  /\ \E t \in now .. now + MaxRun : t <= MaxNow /\ now' = t
  /\ due' = [due EXCEPT ![Current] = NextDue(passNow, Interval[Current], Phase[Current])]
  /\ i' = i + 1 /\ pc' = "pass"
  /\ UNCHANGED <<stopping, passNow, known, lastFire, lag>>

\* Slip: a pass serves only the first agent that is due.
Slip_OneCyclePerPass ==
  /\ pc = "running"
  /\ \E t \in now .. now + MaxRun : t <= MaxNow /\ now' = t
  /\ due' = [due EXCEPT ![Current] = NextDue(passNow + 1, Interval[Current], Phase[Current])]
  /\ i' = i + 1 /\ pc' = "asleep"
  /\ UNCHANGED <<stopping, passNow, known, lastFire, lag>>

\* The cycle ends, well or not; the next due time follows the pass's reading,
\* not the time at which the cycle ended.
RunEnds ==
  /\ pc = "running"
  /\ \E t \in now .. now + MaxRun : t <= MaxNow /\ now' = t
  /\ due' = [due EXCEPT ![Current] = NextDue(passNow + 1, Interval[Current], Phase[Current])]
  /\ i' = i + 1 /\ pc' = "pass"
  /\ UNCHANGED <<stopping, passNow, known, lastFire, lag>>

EndPass ==
  /\ pc = "pass" /\ AtEnd
  /\ pc' = "asleep"
  /\ UNCHANGED <<now, stopping, passNow, i, due, known, lastFire, lag>>

RequestStop ==
  /\ pc # "off" /\ ~stopping
  /\ stopping' = TRUE
  /\ UNCHANGED <<now, pc, passNow, i, due, known, lastFire, lag>>

\* The loop sees the flag between passes; a cycle that outlasts the grace of
\* stop() is cancelled.
Stopped ==
  /\ stopping /\ pc \in {"asleep", "running"}
  /\ pc' = "off"
  /\ UNCHANGED <<now, stopping, passNow, i, due, known, lastFire, lag>>

-----------------------------------------------------------------------------
Init ==
  /\ now = 0 /\ pc = "off" /\ stopping = FALSE /\ passNow = 0 /\ i = 1
  /\ due = [a \in Agents |-> 0] /\ known = {}
  /\ lastFire = [a \in Agents |-> -1] /\ lag = [a \in Agents |-> 0]

Next ==
  \/ Start \/ Wake \/ VisitDisabled \/ VisitNotDue \/ VisitDue \/ RunEnds \/ EndPass
  \/ RequestStop \/ Stopped

Spec == Init /\ [][Next]_loopVars

-----------------------------------------------------------------------------
(* Properties.                                                             *)

TypeOK ==
  /\ now \in Nat /\ passNow \in Nat
  /\ pc \in {"off", "pass", "running", "asleep"} /\ stopping \in BOOLEAN
  /\ i \in 1 .. Len(Order) + 1
  /\ known \subseteq Agents
  /\ due \in [Agents -> Nat]
  /\ lastFire \in [Agents -> Nat \cup {-1}] /\ lag \in [Agents -> Nat]

\* The number of a's phase-aligned ticks up to t.
Slot(a, t) == (t + Interval[a] - (Phase[a] % Interval[a])) \div Interval[a]

\* However long the cycles of all agents take, an agent is woken at most once
\* for each aligned tick of its own: a slow pass does not replay a tick, and
\* ticks that it overran are answered by one cycle.
OneCyclePerTick ==
  [][\A a \in Agents : lastFire'[a] # lastFire[a] /\ lastFire[a] # -1 /\ lastFire'[a] # -1
       => Slot(a, lastFire'[a]) > Slot(a, lastFire[a])]_loopVars

\* No agent is starved by the others: a cycle starts at most one tick of
\* the loop and one cycle of every agent after it was due.
LagIsBounded == \A a \in Agents : lag[a] <= TickMs + Len(Order) * MaxRun

\* HeartbeatLoop: a tick is answered once, and soon.
LoopKeepsTime == []TypeOK /\ []LagIsBounded /\ OneCyclePerTick
=============================================================================
