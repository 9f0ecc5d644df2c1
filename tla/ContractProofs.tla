---------------------------- MODULE ContractProofs ----------------------------
(***************************************************************************)
(* Proofs about the parts of MC_Contracts, which share no state.           *)
(*                                                                         *)
(* HeartbeatLoop, for any registry, intervals, phases and run times: the   *)
(* phase arithmetic of schedule.py, that a tick wakes its agent at most    *)
(* once, and the bound on how late a cycle starts.                         *)
(*                                                                         *)
(* Connections, for any users, any requests and any failures: the two      *)
(* users' records of a connection agree.                                   *)
(*                                                                         *)
(* Memory, for any conversations, captures, wipes and failures of the      *)
(* bank: nothing personal is stored, and what was wiped is gone.           *)
(*                                                                         *)
(* The functions, for any question that has the shape of the program's:    *)
(* what is said of them for every input.                                   *)
(***************************************************************************)
EXTENDS MC_Contracts, FiniteSetTheorems, SequenceTheorems, WellFoundedInduction, TLAPS

-----------------------------------------------------------------------------
(* Division.                                                               *)

\* Euclid's division.
LEMMA DivMod ==
  ASSUME NEW t \in Int, NEW n \in Nat \ {0}
  PROVE  /\ t \div n \in Int /\ (t % n) \in 0 .. n - 1
         /\ t = n * (t \div n) + (t % n)
OBVIOUS

\* A quotient is bounded by the multiples around the dividend.
LEMMA DivUpper ==
  ASSUME NEW t \in Int, NEW n \in Nat \ {0}, NEW k \in Int, t < n * (k + 1)
  PROVE  t \div n <= k
<1> DEFINE q == t \div n
<1>1. q \in Int /\ n * q <= t OBVIOUS
<1> HIDE DEF q
<1>2. q < k + 1 BY <1>1
<1>3. QED BY <1>1, <1>2 DEF q

\* The bound from below.
LEMMA DivLower ==
  ASSUME NEW t \in Int, NEW n \in Nat \ {0}, NEW k \in Int, t >= n * k
  PROVE  t \div n >= k
<1> DEFINE q == t \div n
<1>1. q \in Int /\ t < n * (q + 1) OBVIOUS
<1> HIDE DEF q
<1>2. q >= k BY <1>1
<1>3. QED BY <1>2 DEF q

-----------------------------------------------------------------------------
(* The phase arithmetic.                                                   *)

\* t is one of the ticks of an agent: a multiple of its interval, plus its phase.
Aligned(t, interval, phase) ==
  \E k \in Int : t = interval * k + (phase % interval)

\* compute_next_due_ms returns a time that is not past, and less than one
\* interval ahead.
LEMMA NextDueBounds ==
  ASSUME NEW t \in Nat, NEW interval \in Nat \ {0}, NEW phase \in Nat
  PROVE  /\ NextDue(t, interval, phase) \in Nat
         /\ NextDue(t, interval, phase) >= t
         /\ NextDue(t, interval, phase) < t + interval
<1> DEFINE q == t \div interval
           r == t % interval
           p == phase % interval
<1>1. q \in Int /\ r \in 0 .. interval - 1 /\ t = interval * q + r BY DivMod
<1>2. p \in 0 .. interval - 1 BY DivMod
<1>3. NextDue(t, interval, phase) =
        IF q * interval + p < t THEN q * interval + p + interval ELSE q * interval + p
  BY DEF NextDue
<1> HIDE DEF q, r, p
<1>4. q * interval = interval * q BY <1>1
<1> DEFINE x == interval * q
<1>5. x \in Int /\ t = x + r BY <1>1
<1> HIDE DEF x
<1>6. q * interval = x BY <1>4 DEF x
<1>7. QED BY <1>1, <1>2, <1>3, <1>5, <1>6

\* compute_next_due_ms returns a tick of the agent.
LEMMA NextDueIsAligned ==
  ASSUME NEW t \in Nat, NEW interval \in Nat \ {0}, NEW phase \in Nat
  PROVE  Aligned(NextDue(t, interval, phase), interval, phase)
<1> DEFINE q == t \div interval
           p == phase % interval
<1>1. q \in Int /\ p \in 0 .. interval - 1 BY DivMod
<1>2. NextDue(t, interval, phase) =
        IF q * interval + p < t THEN q * interval + p + interval ELSE q * interval + p
  BY DEF NextDue
<1>3. Aligned(NextDue(t, interval, phase), interval, phase)
        <=> \E k \in Int : NextDue(t, interval, phase) = interval * k + p
  BY DEF Aligned
<1> HIDE DEF q, p
<1>4. q * interval + p + interval = interval * (q + 1) + p BY <1>1
<1>5. q * interval + p = interval * q + p BY <1>1
<1>6. q \in Int /\ q + 1 \in Int BY <1>1
<1>7. QED BY <1>2, <1>3, <1>4, <1>5, <1>6

\* compute_next_due_ms skips no tick: a tick that is not past is not before it.
THEOREM NextDueIsLeast ==
  ASSUME NEW t \in Nat, NEW interval \in Nat \ {0}, NEW phase \in Nat,
         NEW u \in Nat, u >= t, Aligned(u, interval, phase)
  PROVE  NextDue(t, interval, phase) <= u
<1> DEFINE d == NextDue(t, interval, phase)
           p == phase % interval
<1>1. d \in Nat /\ d < t + interval BY NextDueBounds
<1>2. PICK k \in Int : d = interval * k + p BY NextDueIsAligned DEF Aligned
<1>3. PICK m \in Int : u = interval * m + p BY DEF Aligned
<1>4. p \in Int BY DivMod
<1> HIDE DEF d, p
<1>5. SUFFICES ASSUME u < d PROVE FALSE BY <1>1 DEF d
<1>6. interval * m < interval * k BY <1>2, <1>3, <1>4, <1>5
<1>7. m < k BY <1>6
<1>8. interval * k >= interval * (m + 1) BY <1>7
<1>9. interval * (m + 1) = interval * m + interval OBVIOUS
<1> DEFINE x == interval * k
           y == interval * m
           z == interval * (m + 1)
<1>10. x \in Int /\ y \in Int /\ z \in Int /\ x >= z /\ z = y + interval
       /\ d = x + p /\ u = y + p
  BY <1>2, <1>3, <1>8, <1>9
<1> HIDE DEF x, y, z
<1>11. d >= u + interval BY <1>10, <1>4
<1>12. QED BY <1>1, <1>11

\* The slot of a tick is later than the slot of any time before that tick.
LEMMA SlotsGrow ==
  ASSUME NEW a \in Agents, NEW s \in Nat, NEW d \in Nat, NEW t \in Nat,
         Aligned(d, Interval[a], Phase[a]), s < d, d <= t
  PROVE  Slot(a, t) > Slot(a, s)
<1> DEFINE n == Interval[a]
           phase == Phase[a]
           p == phase % n
<1>1. n \in Nat \ {0} /\ phase \in Int BY LoopAssumption
<1>2. p \in 0 .. n - 1
  <2> HIDE DEF n, phase
  <2>1. (phase % n) \in 0 .. n - 1 BY <1>1, DivMod
  <2> QED BY <2>1
<1>3. PICK k \in Int : d = n * k + p BY DEF Aligned
<1>4. Slot(a, t) = (t + n - p) \div n /\ Slot(a, s) = (s + n - p) \div n BY DEF Slot
<1> HIDE DEF n, phase, p
<1>5. n * (k + 1) = n * k + n BY <1>1
<1> DEFINE x == n * k
<1>6. x \in Int /\ d = x + p /\ n * (k + 1) = x + n BY <1>1, <1>3, <1>5
<1> HIDE DEF x
<1>7. t + n - p >= n * (k + 1) /\ s + n - p < n * (k + 1) BY <1>1, <1>2, <1>6
<1>8. t + n - p \in Int /\ s + n - p \in Int /\ k + 1 \in Int BY <1>1, <1>2
<1>9. (t + n - p) \div n >= k + 1 BY <1>1, <1>7, <1>8, DivLower
<1>10. (s + n - p) \div n <= k BY <1>1, <1>7, <1>8, DivUpper
<1>11. (t + n - p) \div n \in Int /\ (s + n - p) \div n \in Int BY <1>1, <1>8, DivMod
<1>12. QED BY <1>4, <1>9, <1>10, <1>11

-----------------------------------------------------------------------------
(* The inductive invariant.                                                *)

\* The longest that a cycle can be late.
Bound == TickMs + Len(Order) * MaxRun

\* a has been visited in this pass.
Visited(a) == \E j \in 1 .. i - 1 : Order[j] = a

\* a's cycle is running: its due time has not been moved on yet.
Firing(a) == pc = "running" /\ Current = a

\* The clock has advanced by at most one run for each visit of the pass.
ClockOK ==
  /\ pc \in {"pass", "running"} => now <= passNow + (i - 1) * MaxRun
  /\ pc = "asleep" => now <= passNow + Len(Order) * MaxRun

\* A due time is a tick of its agent.  It lies ahead of the pass's reading for
\* the agents visited in the pass and, between passes, for all; the others
\* are late by less than the bound.
DueOK(a) ==
  /\ Aligned(due[a], Interval[a], Phase[a])
  /\ due[a] >= passNow - Bound
  /\ (pc = "asleep" \/ (Visited(a) /\ ~Firing(a))) => due[a] > passNow
  /\ lastFire[a] # -1 /\ ~Firing(a) => due[a] > lastFire[a]

LoopInv ==
  /\ TypeOK
  /\ LagIsBounded
  /\ passNow <= now
  /\ known \subseteq Enabled
  /\ ClockOK
  /\ pc = "running" => i <= Len(Order) /\ lastFire[Current] = passNow /\ Current \in known
  /\ pc # "off" => /\ \A a \in known : DueOK(a) /\ \E j \in 1 .. Len(Order) : Order[j] = a
                   /\ \A a \in Agents \ known : lastFire[a] = -1

\* A listed agent is an agent.
LEMMA ListedIsAgent == ASSUME NEW j \in 1 .. Len(Order) PROVE Order[j] \in Agents
BY LoopAssumption

\* The clock of one more visit.
LEMMA OneMoreVisit ==
  ASSUME NEW n \in Nat, NEW m \in Nat
  PROVE  /\ n * m \in Nat /\ (n + 1) * m = n * m + m
         /\ \A k \in Nat : k <= n => k * m <= n * m
OBVIOUS

\* The application starts with the invariant.
LEMMA InitInv == Init => LoopInv
<1> SUFFICES ASSUME Init PROVE LoopInv OBVIOUS
<1>1. Len(Order) \in Nat BY LoopAssumption
<1>2. TypeOK
  <2>1. due \in [Agents -> Nat] /\ lag \in [Agents -> Nat] BY DEF Init
  <2>2. lastFire \in [Agents -> Nat \cup {-1}] BY DEF Init
  <2>3. now = 0 /\ passNow = 0 /\ pc = "off" /\ stopping = FALSE /\ i = 1 /\ known = {} BY DEF Init
  <2>4. i \in 1 .. Len(Order) + 1 BY <1>1, <2>3
  <2>5. QED BY <2>1, <2>2, <2>3, <2>4 DEF TypeOK
<1>3. LagIsBounded
  <2>1. TickMs \in Nat /\ Len(Order) * MaxRun \in Nat BY <1>1, OneMoreVisit, LoopAssumption
  <2>2. 0 <= TickMs + Len(Order) * MaxRun BY <2>1
  <2>3. \A a \in Agents : lag[a] = 0 BY DEF Init
  <2>4. QED BY <2>2, <2>3 DEF LagIsBounded
<1>4. QED BY <1>2, <1>3 DEF Init, LoopInv, ClockOK

\* A restart forgets every due time.
LEMMA StartKeepsInv == LoopInv /\ Start => LoopInv'
<1> SUFFICES ASSUME LoopInv, Start PROVE LoopInv' OBVIOUS
<1>1. Len(Order) \in Nat /\ Len(Order) * MaxRun \in Nat /\ TickMs \in Nat BY LoopAssumption, OneMoreVisit
<1>2. now' \in Nat /\ passNow' = now' /\ pc' = "asleep" /\ known' = {} BY LoopAssumption DEF Start, LoopInv, TypeOK
<1>3. TypeOK' BY <1>2 DEF Start, LoopInv, TypeOK
<1>4. LagIsBounded' BY <1>1 DEF Start, LagIsBounded
<1>5. ClockOK' BY <1>1, <1>2 DEF ClockOK
<1>6. QED BY <1>2, <1>3, <1>4, <1>5 DEF Start, LoopInv

\* Between passes every due time lies ahead of the last reading, so the new
\* reading is late for it by at most the bound.
LEMMA WakeKeepsInv == LoopInv /\ Wake => LoopInv'
<1> SUFFICES ASSUME LoopInv, Wake PROVE LoopInv' OBVIOUS
<1>1. Len(Order) \in Nat /\ Len(Order) * MaxRun \in Nat /\ TickMs \in Nat /\ MaxRun \in Nat
  BY LoopAssumption, OneMoreVisit
<1>2. now' \in Nat /\ now <= now' /\ now' <= now + TickMs BY <1>1 DEF Wake, LoopInv, TypeOK
<1>3. TypeOK' BY <1>1, <1>2 DEF Wake, LoopInv, TypeOK
<1>4. passNow' <= passNow + Bound BY <1>1, <1>2 DEF Wake, LoopInv, TypeOK, ClockOK, Bound
<1>5. LagIsBounded' BY DEF Wake, LoopInv, LagIsBounded
<1>6. ClockOK' BY <1>1, <1>2 DEF Wake, ClockOK
<1>7. ASSUME NEW a \in known' PROVE DueOK(a)' /\ \E j \in 1 .. Len(Order) : Order[j] = a
  <2>1. a \in Agents /\ a \in known /\ DueOK(a) /\ \E j \in 1 .. Len(Order) : Order[j] = a
    BY <1>7 DEF Wake, LoopInv, TypeOK
  <2>2. due[a] \in Nat /\ due[a] > passNow /\ passNow \in Nat BY <2>1 DEF DueOK, Wake, LoopInv, TypeOK
  <2>3. ~Visited(a)' /\ pc' = "pass" /\ due' = due /\ lastFire' = lastFire BY DEF Wake, Visited
  <2>4. lastFire[a] # -1 => due[a] > lastFire[a] BY <2>1 DEF DueOK, Firing, Wake
  <2>5. due'[a] >= passNow' - Bound' BY <1>1, <1>2, <1>4, <2>2, <2>3 DEF Bound, Wake
  <2>6. Aligned(due'[a], Interval[a], Phase[a]) BY <2>1, <2>3 DEF DueOK
  <2>7. QED BY <2>1, <2>3, <2>4, <2>5, <2>6 DEF DueOK
<1>8. QED BY <1>3, <1>5, <1>6, <1>7 DEF Wake, LoopInv

\* The due time that a visit finds or computes is a tick, late by at most the bound.
LEMMA DueOnVisitOK ==
  ASSUME LoopInv, pc = "pass", ~AtEnd
  PROVE  /\ Current \in Agents /\ i \in 1 .. Len(Order) /\ i \in Nat
         /\ DueOnVisit(Current) \in Nat
         /\ Aligned(DueOnVisit(Current), Interval[Current], Phase[Current])
         /\ DueOnVisit(Current) >= passNow - Bound
         /\ lastFire[Current] # -1 => DueOnVisit(Current) > lastFire[Current]
<1>1. i \in 1 .. Len(Order) /\ i \in Nat /\ Len(Order) \in Nat BY LoopAssumption DEF LoopInv, TypeOK, AtEnd
<1>2. Current \in Agents BY <1>1, ListedIsAgent DEF Current
<1>3. TickMs \in Nat /\ Len(Order) * MaxRun \in Nat /\ passNow \in Nat
  BY <1>1, LoopAssumption, OneMoreVisit DEF LoopInv, TypeOK
<1>4. CASE Current \in known BY <1>1, <1>2, <1>4 DEF LoopInv, TypeOK, DueOK, DueOnVisit, Firing
<1>5. CASE Current \notin known
  <2>1. DueOnVisit(Current) = NextDue(passNow, Interval[Current], Phase[Current]) BY <1>5 DEF DueOnVisit
  <2>2. Interval[Current] \in Nat \ {0} /\ Phase[Current] \in Nat BY <1>2, LoopAssumption
  <2>3. DueOnVisit(Current) \in Nat /\ DueOnVisit(Current) >= passNow
        /\ Aligned(DueOnVisit(Current), Interval[Current], Phase[Current])
    BY <1>3, <2>1, <2>2, NextDueBounds, NextDueIsAligned
  <2>4. lastFire[Current] = -1 BY <1>2, <1>5 DEF LoopInv
  <2>5. QED BY <1>1, <1>2, <1>3, <2>3, <2>4 DEF Bound
<1>6. QED BY <1>4, <1>5

\* A visit that starts no cycle moves on to the next agent; the due time it
\* leaves lies ahead.
LEMMA NotDueKeepsInv == LoopInv /\ (VisitDisabled \/ VisitNotDue) => LoopInv'
<1>1. ASSUME LoopInv, VisitDisabled \/ VisitNotDue
      PROVE  /\ pc = "pass" /\ pc' = "pass" /\ ~AtEnd /\ i' = i + 1
             /\ UNCHANGED <<now, stopping, passNow, lastFire, lag>>
  BY <1>1 DEF VisitDisabled, VisitNotDue
<1>2. ASSUME LoopInv, VisitDisabled \/ VisitNotDue
      PROVE  ClockOK' /\ i' \in 1 .. Len(Order) + 1
  <2>1. i \in 1 .. Len(Order) /\ i \in Nat /\ Len(Order) \in Nat /\ MaxRun \in Nat
    BY <1>1, <1>2, DueOnVisitOK, LoopAssumption
  <2>2. (i - 1) * MaxRun \in Nat /\ i * MaxRun = (i - 1) * MaxRun + MaxRun
    <3>1. i - 1 \in Nat /\ (i - 1) + 1 = i BY <2>1
    <3>2. QED BY <2>1, <3>1, OneMoreVisit
  <2>3. now \in Nat /\ passNow \in Nat /\ now <= passNow + (i - 1) * MaxRun BY <1>1, <1>2 DEF LoopInv, TypeOK, ClockOK
  <2>4. now <= passNow + i * MaxRun BY <2>1, <2>2, <2>3
  <2>5. (i + 1) - 1 = i BY <2>1
  <2>6. QED BY <1>1, <1>2, <2>1, <2>4, <2>5 DEF ClockOK
<1>3. ASSUME LoopInv, VisitDisabled, NEW a \in known'
      PROVE  DueOK(a)' /\ \E j \in 1 .. Len(Order) : Order[j] = a
  <2>1. pc = "pass" /\ ~AtEnd /\ Current \notin Enabled /\ i' = i + 1 /\ pc' = "pass"
        /\ UNCHANGED <<passNow, due, known, lastFire>>
    BY <1>3 DEF VisitDisabled
  <2>2. a \in known /\ DueOK(a) /\ \E j \in 1 .. Len(Order) : Order[j] = a BY <1>3, <2>1 DEF LoopInv
  <2>3. a # Current BY <1>3, <2>1, <2>2 DEF LoopInv
  <2>4. i \in Nat BY <1>3, <2>1, DueOnVisitOK
  <2>5. Visited(a)' => Visited(a) BY <2>1, <2>3, <2>4 DEF Visited, Current
  <2>6. QED BY <2>1, <2>2, <2>5 DEF DueOK, Firing, Bound
<1>4. ASSUME LoopInv, VisitNotDue, NEW a \in known'
      PROVE  DueOK(a)' /\ \E j \in 1 .. Len(Order) : Order[j] = a
  <2>1. pc = "pass" /\ ~AtEnd /\ i' = i + 1 /\ pc' = "pass" /\ known' = known \cup {Current}
        /\ passNow < DueOnVisit(Current)
        /\ due' = [due EXCEPT ![Current] = DueOnVisit(Current)]
        /\ UNCHANGED <<passNow, lastFire>>
    BY <1>4 DEF VisitNotDue
  <2>2. /\ Current \in Agents /\ i \in 1 .. Len(Order) /\ i \in Nat
        /\ DueOnVisit(Current) \in Nat
        /\ Aligned(DueOnVisit(Current), Interval[Current], Phase[Current])
        /\ DueOnVisit(Current) >= passNow - Bound
        /\ lastFire[Current] # -1 => DueOnVisit(Current) > lastFire[Current]
    BY <1>4, <2>1, DueOnVisitOK
  <2>3. due \in [Agents -> Nat] /\ known \subseteq Agents BY <1>4 DEF LoopInv, TypeOK
  <2>4. CASE a = Current
    <3>1. due'[a] = DueOnVisit(Current) BY <2>1, <2>2, <2>3, <2>4
    <3>2. QED BY <2>1, <2>2, <2>4, <3>1 DEF DueOK, Current, Bound
  <2>5. CASE a # Current
    <3>1. a \in known /\ DueOK(a) /\ \E j \in 1 .. Len(Order) : Order[j] = a BY <1>4, <2>1, <2>5 DEF LoopInv
    <3>2. due'[a] = due[a] BY <2>1, <2>3, <2>5, <3>1
    <3>3. Visited(a)' => Visited(a) BY <2>1, <2>2, <2>5 DEF Visited, Current
    <3>4. QED BY <2>1, <3>1, <3>2, <3>3 DEF DueOK, Firing, Bound
  <2>6. QED BY <2>4, <2>5
<1>5. ASSUME LoopInv, VisitDisabled \/ VisitNotDue
      PROVE  TypeOK'
  <2>1. CASE VisitDisabled BY <1>2, <1>5, <2>1 DEF LoopInv, TypeOK, VisitDisabled
  <2>2. CASE VisitNotDue BY <1>1, <1>2, <1>5, <2>2, DueOnVisitOK DEF LoopInv, TypeOK, VisitNotDue
  <2>3. QED BY <1>5, <2>1, <2>2
<1>6. ASSUME LoopInv, VisitDisabled \/ VisitNotDue
      PROVE  LagIsBounded' /\ known' \subseteq Enabled /\ (\A a \in Agents \ known' : lastFire'[a] = -1)
  BY <1>1, <1>6 DEF LoopInv, LagIsBounded, VisitDisabled, VisitNotDue
<1>7. QED BY <1>1, <1>2, <1>3, <1>4, <1>5, <1>6 DEF LoopInv

\* A cycle starts at most Bound after the tick that it answers.
LEMMA DueKeepsInv == LoopInv /\ VisitDue => LoopInv'
<1> SUFFICES ASSUME LoopInv, VisitDue PROVE LoopInv' OBVIOUS
<1>1. /\ pc = "pass" /\ ~AtEnd /\ pc' = "running" /\ known' = known \cup {Current}
      /\ passNow >= DueOnVisit(Current)
      /\ due' = [due EXCEPT ![Current] = DueOnVisit(Current)]
      /\ lastFire' = [lastFire EXCEPT ![Current] = passNow]
      /\ lag' = [lag EXCEPT ![Current] = passNow - DueOnVisit(Current)]
      /\ UNCHANGED <<now, stopping, passNow, i>>
  BY DEF VisitDue
<1>2. /\ Current \in Agents /\ i \in 1 .. Len(Order) /\ i \in Nat
      /\ DueOnVisit(Current) \in Nat
      /\ Aligned(DueOnVisit(Current), Interval[Current], Phase[Current])
      /\ DueOnVisit(Current) >= passNow - Bound
  BY <1>1, DueOnVisitOK
<1>3. /\ due \in [Agents -> Nat] /\ known \subseteq Agents /\ passNow \in Nat
      /\ lastFire \in [Agents -> Nat \cup {-1}] /\ lag \in [Agents -> Nat]
      /\ now \in Nat /\ stopping \in BOOLEAN
  BY DEF LoopInv, TypeOK
<1>4. Len(Order) \in Nat /\ Bound \in Nat
  <2>1. Len(Order) \in Nat /\ TickMs \in Nat /\ MaxRun \in Nat BY LoopAssumption
  <2>2. Len(Order) * MaxRun \in Nat BY <2>1, OneMoreVisit
  <2>3. QED BY <2>1, <2>2 DEF Bound
<1>5. TypeOK'
  <2>1. passNow - DueOnVisit(Current) \in Nat BY <1>1, <1>2, <1>3
  <2>2. lag' \in [Agents -> Nat] /\ due' \in [Agents -> Nat] BY <1>1, <1>2, <1>3, <2>1
  <2>3. lastFire' \in [Agents -> Nat \cup {-1}] BY <1>1, <1>3
  <2>4. QED BY <1>1, <1>2, <1>3, <1>4, <2>2, <2>3 DEF TypeOK
<1>6. LagIsBounded'
  <2>1. \A a \in Agents : lag[a] <= Bound BY DEF LoopInv, LagIsBounded, Bound
  <2>2. passNow - DueOnVisit(Current) <= Bound BY <1>2, <1>3, <1>4
  <2>3. \A a \in Agents : lag'[a] <= Bound BY <1>1, <1>2, <1>3, <2>1, <2>2
  <2>4. QED BY <2>3 DEF LagIsBounded, Bound
<1>7. ClockOK' BY <1>1 DEF LoopInv, ClockOK
<1>8. Current' = Current /\ lastFire'[Current] = passNow BY <1>1, <1>2, <1>3 DEF Current
<1>9. ASSUME NEW a \in known'
      PROVE  DueOK(a)' /\ \E j \in 1 .. Len(Order) : Order[j] = a
  <2>1. CASE a = Current
    <3>1. due'[a] = DueOnVisit(Current) BY <1>1, <1>2, <1>3, <2>1
    <3>2. Firing(a)' BY <1>1, <1>8, <2>1 DEF Firing
    <3>3. QED BY <1>1, <1>2, <2>1, <3>1, <3>2 DEF DueOK, Current, Bound
  <2>2. CASE a # Current
    <3>1. a \in known /\ DueOK(a) /\ \E j \in 1 .. Len(Order) : Order[j] = a BY <1>1, <2>2, <1>9 DEF LoopInv
    <3>2. due'[a] = due[a] /\ lastFire'[a] = lastFire[a] BY <1>1, <1>3, <2>2, <3>1
    <3>3. Visited(a)' => Visited(a) BY <1>1 DEF Visited
    <3>4. QED BY <1>1, <3>1, <3>2, <3>3 DEF DueOK, Firing, Bound
  <2>3. QED BY <2>1, <2>2
<1>10. \A a \in Agents \ known' : lastFire'[a] = -1 BY <1>1, <1>3 DEF LoopInv
<1>11. known' \subseteq Enabled BY <1>1 DEF VisitDue, LoopInv
<1>12. passNow' <= now' /\ i' <= Len(Order) /\ Current' \in known' BY <1>1, <1>2, <1>8 DEF LoopInv
<1>13. lastFire'[Current'] = passNow' BY <1>1, <1>8
<1>14. QED BY <1>1, <1>5, <1>6, <1>7, <1>9, <1>10, <1>11, <1>12, <1>13 DEF LoopInv

\* When a cycle ends, its agent's next due time lies ahead of the pass's
\* reading, however much later it is by now.
LEMMA RunEndsKeepsInv == LoopInv /\ RunEnds => LoopInv'
<1> SUFFICES ASSUME LoopInv, RunEnds PROVE LoopInv' OBVIOUS
<1> DEFINE d == NextDue(passNow + 1, Interval[Current], Phase[Current])
<1>1. /\ pc = "running" /\ pc' = "pass" /\ i' = i + 1
      /\ due' = [due EXCEPT ![Current] = d]
      /\ UNCHANGED <<stopping, passNow, known, lastFire, lag>>
  BY DEF RunEnds
<1>2. /\ due \in [Agents -> Nat] /\ known \subseteq Agents /\ passNow \in Nat
      /\ lastFire \in [Agents -> Nat \cup {-1}] /\ lag \in [Agents -> Nat]
      /\ now \in Nat /\ stopping \in BOOLEAN /\ passNow <= now
  BY DEF LoopInv, TypeOK
<1>3. Len(Order) \in Nat /\ MaxRun \in Nat /\ Bound \in Nat
  <2>1. Len(Order) \in Nat /\ TickMs \in Nat /\ MaxRun \in Nat BY LoopAssumption
  <2>2. Len(Order) * MaxRun \in Nat BY <2>1, OneMoreVisit
  <2>3. QED BY <2>1, <2>2 DEF Bound
<1>4. i \in 1 .. Len(Order) /\ i \in Nat BY <1>1, <1>3 DEF LoopInv, TypeOK
<1>5. Current \in Agents BY <1>4, ListedIsAgent DEF Current
<1>6. d \in Nat /\ d > passNow /\ Aligned(d, Interval[Current], Phase[Current])
  <2>1. Interval[Current] \in Nat \ {0} /\ Phase[Current] \in Nat /\ passNow + 1 \in Nat BY <1>2, <1>5, LoopAssumption
  <2>2. d \in Nat /\ d >= passNow + 1 BY <2>1, NextDueBounds
  <2>3. Aligned(d, Interval[Current], Phase[Current]) BY <2>1, NextDueIsAligned
  <2> HIDE DEF d
  <2>4. QED BY <1>2, <2>2, <2>3
<1> HIDE DEF d
<1>7. PICK t \in now .. now + MaxRun : t <= MaxNow /\ now' = t BY DEF RunEnds
<1>8. now' \in Nat /\ now <= now' /\ now' <= now + MaxRun BY <1>2, <1>3, <1>7
<1>9. ClockOK'
  <2>1. (i - 1) * MaxRun \in Nat /\ i * MaxRun = (i - 1) * MaxRun + MaxRun
    <3>1. i - 1 \in Nat /\ (i - 1) + 1 = i BY <1>4
    <3>2. QED BY <1>3, <3>1, OneMoreVisit
  <2>2. now <= passNow + (i - 1) * MaxRun BY <1>1 DEF LoopInv, ClockOK
  <2>3. now' <= passNow + i * MaxRun BY <1>2, <1>3, <1>8, <2>1, <2>2
  <2>4. (i + 1) - 1 = i BY <1>4
  <2>5. QED BY <1>1, <2>3, <2>4 DEF ClockOK
<1>10. TypeOK'
  <2>1. due' \in [Agents -> Nat] BY <1>1, <1>2, <1>6
  <2>2. i' \in 1 .. Len(Order) + 1 BY <1>1, <1>3, <1>4
  <2>3. QED BY <1>1, <1>2, <1>8, <2>1, <2>2 DEF TypeOK
<1>11. LagIsBounded' /\ known' \subseteq Enabled /\ passNow' <= now'
       /\ (\A a \in Agents \ known' : lastFire'[a] = -1)
  BY <1>1, <1>2, <1>8 DEF LoopInv, LagIsBounded
<1>12. ASSUME NEW a \in known'
       PROVE  DueOK(a)' /\ \E j \in 1 .. Len(Order) : Order[j] = a
  <2>1. a \in known /\ a \in Agents /\ DueOK(a) /\ \E j \in 1 .. Len(Order) : Order[j] = a
    BY <1>1, <1>2, <1>12 DEF LoopInv
  <2>2. CASE a = Current
    <3>1. due'[a] = d BY <1>1, <1>2, <1>5, <2>2
    <3>2. lastFire'[a] = passNow BY <1>1, <2>2 DEF LoopInv
    <3>3. d >= passNow - Bound BY <1>2, <1>3, <1>6
    <3>4. QED BY <1>1, <1>6, <2>1, <2>2, <3>1, <3>2, <3>3 DEF DueOK, Bound
  <2>3. CASE a # Current
    <3>1. due'[a] = due[a] BY <1>1, <1>2, <2>1, <2>3
    <3>2. Visited(a)' => Visited(a) BY <1>1, <1>4, <2>3 DEF Visited, Current
    <3>3. ~Firing(a) BY <2>3 DEF Firing
    <3>4. QED BY <1>1, <2>1, <3>1, <3>2, <3>3 DEF DueOK, Bound
  <2>4. QED BY <2>2, <2>3
<1>13. QED BY <1>1, <1>9, <1>10, <1>11, <1>12 DEF LoopInv

\* The rest of a pass and of the loop's life moves no due time.
LEMMA RestKeepsInv ==
  LoopInv /\ (EndPass \/ RequestStop \/ Stopped \/ UNCHANGED loopVars) => LoopInv'
<1>1. CASE LoopInv /\ EndPass
  <2>1. pc = "pass" /\ AtEnd /\ pc' = "asleep"
        /\ UNCHANGED <<now, stopping, passNow, i, due, known, lastFire, lag>>
    BY <1>1 DEF EndPass
  <2>2. Len(Order) \in Nat /\ i = Len(Order) + 1 BY <1>1, <2>1, LoopAssumption DEF LoopInv, TypeOK, AtEnd
  <2>3. TypeOK' /\ LagIsBounded' BY <1>1, <2>1 DEF LoopInv, TypeOK, LagIsBounded
  <2>4. i - 1 = Len(Order) BY <2>2
  <2>5. ClockOK' BY <1>1, <2>1, <2>4 DEF LoopInv, ClockOK
  <2>6. ASSUME NEW a \in known' PROVE DueOK(a)' /\ \E j \in 1 .. Len(Order) : Order[j] = a
    <3>1. DueOK(a) /\ \E j \in 1 .. Len(Order) : Order[j] = a BY <1>1, <2>1, <2>6 DEF LoopInv
    <3>2. Visited(a) /\ ~Firing(a) BY <2>1, <2>4, <3>1 DEF Visited, Firing
    <3>3. QED BY <2>1, <3>1, <3>2 DEF DueOK, Bound
  <2>7. QED BY <1>1, <2>1, <2>3, <2>5, <2>6 DEF LoopInv
<1>2. CASE LoopInv /\ RequestStop
  <2>1. pc # "off" /\ stopping' = TRUE
        /\ UNCHANGED <<now, pc, passNow, i, due, known, lastFire, lag>>
    BY <1>2 DEF RequestStop
  <2>2. Current' = Current BY <2>1 DEF Current
  <2>3. \A a \in known : DueOK(a) => DueOK(a)' BY <2>1, <2>2 DEF DueOK, Visited, Firing, Bound
  <2>4. TypeOK' /\ LagIsBounded' /\ ClockOK' BY <1>2, <2>1 DEF LoopInv, TypeOK, LagIsBounded, ClockOK
  <2>5. QED BY <1>2, <2>1, <2>2, <2>3, <2>4 DEF LoopInv
<1>3. CASE LoopInv /\ Stopped BY <1>3 DEF Stopped, LoopInv, TypeOK, LagIsBounded, ClockOK
<1>4. CASE LoopInv /\ UNCHANGED loopVars
  <2>1. UNCHANGED <<now, pc, stopping, passNow, i, due, known, lastFire, lag>> BY <1>4 DEF loopVars
  <2>2. Current' = Current BY <2>1 DEF Current
  <2>3. \A a \in known : DueOK(a) => DueOK(a)' BY <2>1, <2>2 DEF DueOK, Visited, Firing, Bound
  <2>4. TypeOK' /\ LagIsBounded' /\ ClockOK' BY <1>4, <2>1 DEF LoopInv, TypeOK, LagIsBounded, ClockOK
  <2>5. QED BY <1>4, <2>1, <2>2, <2>3, <2>4 DEF LoopInv
<1>5. QED BY <1>1, <1>2, <1>3, <1>4

\* Every step keeps the invariant.
LEMMA StepInv == LoopInv /\ [Next]_loopVars => LoopInv'
BY StartKeepsInv, WakeKeepsInv, NotDueKeepsInv, DueKeepsInv, RunEndsKeepsInv, RestKeepsInv
   DEF Next

-----------------------------------------------------------------------------
(* The theorem.                                                            *)

\* Only a visit that is due moves lastFire on, and then past a tick.
LEMMA StepFires ==
  LoopInv /\ [Next]_loopVars =>
    [\A a \in Agents : lastFire'[a] # lastFire[a] /\ lastFire[a] # -1 /\ lastFire'[a] # -1
       => Slot(a, lastFire'[a]) > Slot(a, lastFire[a])]_loopVars
<1> SUFFICES ASSUME LoopInv, Next, NEW a \in Agents,
                    lastFire'[a] # lastFire[a], lastFire[a] # -1, lastFire'[a] # -1
             PROVE  Slot(a, lastFire'[a]) > Slot(a, lastFire[a])
  OBVIOUS
<1>1. ~Start BY DEF Start
<1>2. VisitDue BY <1>1 DEF Next, Wake, VisitDisabled, VisitNotDue, RunEnds, EndPass, RequestStop, Stopped
<1>3. /\ pc = "pass" /\ ~AtEnd /\ passNow >= DueOnVisit(Current)
      /\ lastFire' = [lastFire EXCEPT ![Current] = passNow]
  BY <1>2 DEF VisitDue
<1>4. lastFire \in [Agents -> Nat \cup {-1}] /\ passNow \in Nat BY DEF LoopInv, TypeOK
<1>5. a = Current /\ lastFire'[a] = passNow /\ lastFire[a] \in Nat BY <1>3, <1>4
<1>6. /\ DueOnVisit(a) \in Nat /\ DueOnVisit(a) > lastFire[a]
      /\ Aligned(DueOnVisit(a), Interval[a], Phase[a])
  BY <1>3, <1>5, DueOnVisitOK
<1>7. QED BY <1>3, <1>4, <1>5, <1>6, SlotsGrow

\* The loop, for any agents, cadences and lengths of cycles: its state keeps its
\* type, so that no due time is negative; no agent is starved, a cycle starts at
\* most one tick of the loop and one cycle of every registered agent after its
\* due time; and a phase-aligned tick starts at most one cycle, a pass that
\* overran several answering them with one.
THEOREM LoopAlwaysKeepsTime == Spec => LoopKeepsTime
<1>1. LoopInv => TypeOK /\ LagIsBounded BY DEF LoopInv
<1>2. QED BY <1>1, InitInv, StepInv, StepFires, PTL DEF Spec, LoopKeepsTime, OneCyclePerTick

-----------------------------------------------------------------------------
(* Connections: the calls and what they hold.                              *)
(*                                                                         *)
(* A request may be refused or cut off before it wrote anything, and then  *)
(* leaves no trace; so the inductive invariant CInv speaks of those that   *)
(* have written (Written), and takes as an excuse only a clash of two of   *)
(* these.                                                                  *)

\* A request in progress or over, with its copy of the document.
Call == [op : {"request", "accept", "reject", "revoke", "permission", "task"},
         pc : {"own", "peer", "done", "half"}, user : Users, id : Ids, copy : Connection]

Proper(doc, u) == doc \in Connection /\ doc.from # doc.to /\ u \in {doc.from, doc.to}

RecordsOK ==
  /\ record \in [Users -> [Ids -> Connection \cup {None}]]
  /\ \A u \in Users, n \in Ids : record[u][n] # None => Proper(record[u][n], u)

CallsOK ==
  /\ call \in [Calls -> Call \cup {Idle}] /\ tasks \subseteq Calls
  /\ \A c \in Calls : call[c] # Idle =>
       /\ Proper(call[c].copy, call[c].user)
       /\ call[c].op = "request" => call[c].copy.status = "pending"
       /\ call[c].op = "revoke" => call[c].copy.status = "revoked"

InFlight(c) == call[c].pc \in {"own", "peer"}
Written(c) == call[c].pc \in {"peer", "done", "half"}
Met(c, d) == {c, d} \in met

\* Documents with the same two users in the same roles.
SameEnds(x, y) == x.from = y.from /\ x.to = y.to

\* A connection joins the same two users in every document and copy of it.
EndsAgree ==
  /\ \A u, v \in Users, n \in Ids :
       record[u][n] # None /\ record[v][n] # None => SameEnds(record[u][n], record[v][n])
  /\ \A c, d \in Calls : InFlight(c) /\ InFlight(d) /\ call[c].id = call[d].id => SameEnds(call[c].copy, call[d].copy)
  /\ \A c \in Calls, u \in Users :
       InFlight(c) /\ record[u][call[c].id] # None => SameEnds(call[c].copy, record[u][call[c].id])

FlightsMeet == \A c, d \in Calls : c # d /\ InFlight(c) /\ InFlight(d) => Met(c, d)

\* Two requests about connection n overlapped, and both have written.
Clash(n) == \E c, d \in Calls :
  c # d /\ call[c].id = n /\ call[d].id = n /\ Written(c) /\ Written(d) /\ Met(c, d)

\* Its recipient v accepted the connection n, and the store has it.
Accepted(n, v) == \E c \in Calls : call[c].op = "accept" /\ call[c].id = n /\ call[c].user = v /\ Written(c)

Genuine ==
  /\ \A u, v \in Users, n \in Ids :
       record[u][n] # None /\ record[u][n].status = "active" /\ record[u][n].to = v => Accepted(n, v)
  /\ \A c \in Calls, n \in Ids, v \in Users :
       InFlight(c) /\ call[c].id = n /\ call[c].copy.status = "active" /\ call[c].copy.to = v =>
         (call[c].op = "accept" /\ call[c].user = v) \/ Accepted(n, v)

Agree(n) == \A u \in Users : record[u][n] # None => record[Peer(u, record[u][n])][n] = record[u][n]

\* What the first write left stays until the second one, or there was a clash.
HalfStands ==
  \A c \in Calls, n \in Ids :
    call[c].pc = "peer" /\ call[c].id = n => Clash(n) \/ record[call[c].user][n] = call[c].copy

\* The two records agree, unless a request is or was left between its writes.
AgreeBetween ==
  \A n \in Ids : \/ Agree(n) \/ Clash(n) \/ Halved(n)
                 \/ \E c \in Calls : call[c].id = n /\ call[c].pc = "peer"

OpenFor(n) == \E u \in Users : Standing(record[u][n])

\* A request would open a connection again only if another one closed it meanwhile.
Reopenings ==
  \A c \in Calls, n \in Ids :
    (/\ call[c].pc = "peer" \/ (call[c].pc = "own" /\ call[c].op # "request")
     /\ call[c].id = n /\ Standing(call[c].copy) /\ ~OpenFor(n))
      => \E d \in Calls : d # c /\ call[d].id = n /\ Written(d) /\ Met(c, d)

\* Why two connections of the same users may both be open.
Excused(n, j) ==
  \/ Halved(n) \/ Halved(j) \/ Clash(n) \/ Clash(j)
  \/ \E c, d \in Calls : call[c].id = n /\ call[d].id = j /\ Written(c) /\ Written(d) /\ Met(c, d)

SameUsers(x, y) == {x.from, x.to} = {y.from, y.to}

Rivals ==
  \A n, j \in Ids, u, v \in Users :
    n # j /\ Standing(record[u][n]) /\ Standing(record[v][j]) /\ SameUsers(record[u][n], record[v][j]) => Excused(n, j)

\* Why one may be asked for while another one is open.
RivalRequests ==
  \A c \in Calls, n \in Ids, u \in Users :
    (/\ call[c].op = "request" /\ call[c].pc = "own" /\ n # call[c].id
     /\ Standing(record[u][n]) /\ SameUsers(record[u][n], call[c].copy))
      => Halved(n) \/ Clash(n) \/ \E d \in Calls : call[d].id = n /\ Written(d) /\ Met(c, d)

\* After a revocation nothing stands, and nothing that did not meet it is on its way.
Revocations ==
  \A d \in Calls, n \in Ids : (call[d].op = "revoke" /\ call[d].pc = "done" /\ call[d].id = n) =>
    \/ Clash(n)
    \/ /\ \A u \in Users : record[u][n] # None => record[u][n].status = "revoked"
       /\ \A c \in Calls : InFlight(c) /\ call[c].id = n => Met(c, d)

CInv ==
  /\ RecordsOK /\ CallsOK /\ EndsAgree /\ FlightsMeet /\ Genuine /\ HalfStands /\ AgreeBetween
  /\ Reopenings /\ Rivals /\ RivalRequests /\ Revocations

-----------------------------------------------------------------------------
(* Steps.                                                                  *)

\* A new connection is asked for.
Asks(r) ==
  /\ r.op = "request" /\ r.pc = "own" /\ r.copy.status = "pending" /\ r.copy.from = r.user
  /\ ~Blocked(r.user, r.copy.to)
  /\ \A w \in Users : record[w][r.id] = None
  /\ \A d \in Calls : call[d].id # r.id

\* A connection that stands is changed, or used.
Changes(r) ==
  /\ r.op # "request" /\ r.pc \in {"own", "done"} /\ (r.pc = "done" => r.op = "task")
  /\ Standing(record[r.user][r.id]) /\ SameEnds(r.copy, record[r.user][r.id])
  /\ r.op = "accept" => r.copy.to = r.user
  /\ r.copy.status = "active" => r.op = "accept" \/ record[r.user][r.id].status = "active"
  /\ r.op = "revoke" => r.copy.status = "revoked"

\* Request r becomes call c.
Began(c, r) ==
  /\ call[c] = Idle /\ r \in Call /\ Proper(r.copy, r.user) /\ (Asks(r) \/ Changes(r))
  /\ record' = record /\ call' = [call EXCEPT ![c] = r] /\ tasks' \subseteq Calls
  /\ met' = met \cup {{c, d} : d \in {d \in Calls : call[d].pc \in {"own", "peer"}}}

\* Call c writes its copy into the records of w and goes on to stage at.
Wrote(c, w, at) ==
  /\ \/ call[c].pc = "own" /\ w = call[c].user /\ at = "peer"
     \/ call[c].pc = "peer" /\ w = Peer(call[c].user, call[c].copy) /\ at = "done"
  /\ record' = [record EXCEPT ![w][call[c].id] = call[c].copy]
  /\ call' = [call EXCEPT ![c].pc = at]
  /\ UNCHANGED <<met, tasks>>

\* What a standing document is.
LEMMA StandingIsProper ==
  ASSUME CInv, NEW u \in Users, NEW n \in Ids, record[u][n] # None
  PROVE  Proper(record[u][n], u)
BY DEF CInv, RecordsOK

\* Every request that is not refused begins in one of two ways.
LEMMA ChangeBegins ==
  ASSUME CInv, NEW c \in Calls, NEW u \in Users, NEW n \in Ids, NEW verb, NEW may, NEW doc,
         Change(c, verb, u, n, may, doc), verb \in {"accept", "reject", "revoke", "permission"},
         may => Standing(record[u][n]) /\ doc \in Connection /\ SameEnds(doc, record[u][n]),
         may => (verb = "accept" => record[u][n].to = u),
         may => (doc.status = "active" => verb = "accept" \/ record[u][n].status = "active"),
         may => (verb = "revoke" => doc.status = "revoked")
  PROVE  \E r : Began(c, r)
<1> DEFINE r == [op |-> verb, pc |-> "own", user |-> u, id |-> n, copy |-> doc]
<1>1. may /\ call[c].pc = "idle" /\ record' = record /\ tasks' = tasks
      /\ call' = [call EXCEPT ![c] = [op |-> verb, user |-> u, id |-> n, pc |-> "own", copy |-> doc]]
      /\ met' = met \cup {{c, d} : d \in {d \in Calls : call[d].pc \in {"own", "peer"}}}
  BY DEF Change, Begin
<1>2. [op |-> verb, user |-> u, id |-> n, pc |-> "own", copy |-> doc] = r OBVIOUS
<1>3. call[c] = Idle /\ tasks' \subseteq Calls BY <1>1 DEF CInv, CallsOK, Call
<1>4. r \in Call /\ r.pc = "own" /\ r.user = u /\ r.id = n /\ r.copy = doc /\ r.op = verb BY <1>1 DEF Call
<1>5. Proper(doc, u) BY <1>1, StandingIsProper DEF Standing, SameEnds, Proper
<1>6. Changes(r) BY <1>1, <1>4 DEF Changes, SameEnds
<1> HIDE DEF r
<1>7. Began(c, r) BY <1>1, <1>2, <1>3, <1>4, <1>5, <1>6 DEF Began
<1> QED BY <1>7

LEMMA RequestsBegin ==
  ASSUME CInv, NEW c \in Calls,
         \/ \E u, v \in Users, permission \in Permissions : Request(c, u, v, permission)
         \/ \E u \in Users, n \in Ids :
              \/ Accept(c, u, n) \/ Reject(c, u, n) \/ Revoke(c, u, n) \/ CreateTask(c, u, n)
              \/ \E permission \in Permissions : UpdatePermission(c, u, n, permission)
  PROVE  \E r : Began(c, r)
<1>1. ASSUME NEW u \in Users, NEW v \in Users, NEW permission \in Permissions, Request(c, u, v, permission)
      PROVE  \E r : Began(c, r)
  <2> DEFINE doc == [from |-> u, to |-> v, status |-> "pending", permission |-> permission]
  <2>1. PICK n \in Ids :
          /\ \A w \in Users : record[w][n] = None
          /\ \A d \in Calls : call[d].id # n
          /\ Begin(c, [op |-> "request", user |-> u, id |-> n, pc |-> "own", copy |-> doc])
    BY <1>1 DEF Request
  <2> DEFINE r == [op |-> "request", pc |-> "own", user |-> u, id |-> n, copy |-> doc]
  <2>2. [op |-> "request", user |-> u, id |-> n, pc |-> "own", copy |-> doc] = r OBVIOUS
  <2>3. doc \in Connection /\ Proper(doc, u) /\ doc.from = u /\ doc.to = v /\ doc.status = "pending"
    BY <1>1 DEF Request, Connection, Proper
  <2>4. r \in Call /\ r.op = "request" /\ r.pc = "own" /\ r.user = u /\ r.id = n /\ r.copy = doc BY <2>3 DEF Call
  <2>5. Asks(r) BY <1>1, <2>1, <2>3, <2>4 DEF Asks, Request
  <2> HIDE DEF r, doc
  <2>6. call[c].pc = "idle" /\ record' = record /\ tasks' = tasks /\ call' = [call EXCEPT ![c] = r]
        /\ met' = met \cup {{c, d} : d \in {d \in Calls : call[d].pc \in {"own", "peer"}}}
    BY <1>1, <2>1, <2>2 DEF Request, Begin
  <2>7. call[c] = Idle /\ tasks' \subseteq Calls BY <2>6 DEF CInv, CallsOK, Call
  <2>8. Began(c, r) BY <2>3, <2>4, <2>5, <2>6, <2>7 DEF Began
  <2> QED BY <2>8
<1>2. ASSUME NEW u \in Users, NEW n \in Ids
      PROVE  /\ record[u][n] # None => record[u][n] \in Connection
             /\ \A s \in {"active", "rejected", "revoked"} : record[u][n] # None =>
                  /\ Status(u, n, s) \in Connection /\ SameEnds(Status(u, n, s), record[u][n])
                  /\ Status(u, n, s).status = s
             /\ \A permission \in Permissions : record[u][n] # None =>
                  /\ [record[u][n] EXCEPT !.permission = permission] \in Connection
                  /\ SameEnds([record[u][n] EXCEPT !.permission = permission], record[u][n])
                  /\ [record[u][n] EXCEPT !.permission = permission].status = record[u][n].status
  <2>1. record[u][n] # None => record[u][n] \in Connection BY StandingIsProper DEF Proper
  <2> QED BY <2>1 DEF Connection, Status, SameEnds
<1>3. ASSUME NEW u \in Users, NEW n \in Ids, Accept(c, u, n) \/ Reject(c, u, n) \/ Revoke(c, u, n)
      PROVE  \E r : Began(c, r)
  <2>1. CASE Accept(c, u, n) BY <1>2, <2>1, ChangeBegins DEF Accept, MayAnswer, Standing
  <2>2. CASE Reject(c, u, n) BY <1>2, <2>2, ChangeBegins DEF Reject, MayAnswer, Standing
  <2>3. CASE Revoke(c, u, n) BY <1>2, <2>3, ChangeBegins DEF Revoke, MayEnd, Standing
  <2> QED BY <1>3, <2>1, <2>2, <2>3
<1>4. ASSUME NEW u \in Users, NEW n \in Ids, NEW permission \in Permissions, UpdatePermission(c, u, n, permission)
      PROVE  \E r : Began(c, r)
  <2> DEFINE doc == [record[u][n] EXCEPT !.permission = permission]
  <2>1. Permitted(record[u][n], "read") /\ Change(c, "permission", u, n, Permitted(record[u][n], "read"), doc)
    BY <1>4 DEF UpdatePermission, Change, Permitted
  <2>2. record[u][n] # None /\ record[u][n].status = "active" BY <2>1 DEF Permitted
  <2>3. doc \in Connection /\ SameEnds(doc, record[u][n]) /\ doc.status = "active" /\ Standing(record[u][n])
    BY <1>2, <2>2 DEF Standing
  <2> HIDE DEF doc
  <2> QED BY <2>1, <2>2, <2>3, ChangeBegins
<1>5. ASSUME NEW u \in Users, NEW n \in Ids, CreateTask(c, u, n)
      PROVE  \E r : Began(c, r)
  <2> DEFINE r == [op |-> "task", pc |-> "done", user |-> u, id |-> n, copy |-> record[u][n]]
  <2>1. record[u][n] # None /\ record[u][n].status = "active" BY <1>5 DEF CreateTask, Permitted
  <2>2. Proper(record[u][n], u) /\ Standing(record[u][n]) BY <2>1, StandingIsProper DEF Standing
  <2>3. r \in Call /\ r.op = "task" /\ r.pc = "done" /\ r.user = u /\ r.id = n /\ r.copy = record[u][n]
    BY <2>2 DEF Call, Proper
  <2>4. Changes(r) BY <2>1, <2>2, <2>3 DEF Changes, SameEnds
  <2>5. [op |-> "task", user |-> u, id |-> n, copy |-> record[u][n], pc |-> "done"] = r OBVIOUS
  <2> HIDE DEF r
  <2>6. call[c].pc = "idle" /\ record' = record /\ tasks' = tasks \cup {c} /\ call' = [call EXCEPT ![c] = r]
        /\ met' = met \cup {{c, d} : d \in {d \in Calls : call[d].pc \in {"own", "peer"}}}
    BY <1>5, <2>5 DEF CreateTask, Begin
  <2>7. call[c] = Idle /\ tasks' \subseteq Calls BY <2>6 DEF CInv, CallsOK, Call
  <2>8. Began(c, r) BY <2>2, <2>3, <2>4, <2>6, <2>7 DEF Began
  <2> QED BY <2>8
<1> QED BY <1>1, <1>3, <1>4, <1>5

-----------------------------------------------------------------------------
(* What has been written cannot be taken back.                             *)

\* A request that has written stays, and so does what it met.
WrittenStays ==
  /\ \A d \in Calls : Written(d) =>
       /\ call'[d].pc \in {"peer", "done", "half"} /\ call'[d].id = call[d].id
       /\ call'[d].op = call[d].op /\ call'[d].user = call[d].user
       /\ call[d].pc = "half" => call'[d].pc = "half"
  /\ \A d, e \in Calls : Written(d) /\ Written(e) /\ Met(d, e) => {d, e} \in met'

LEMMA ExcusesLast ==
  ASSUME WrittenStays
  PROVE  /\ \A n : (Clash(n) => Clash(n)') /\ (Halved(n) => Halved(n)')
         /\ \A n, v : Accepted(n, v) => Accepted(n, v)'
         /\ \A n, j : Excused(n, j) => Excused(n, j)'
<1>1. ASSUME NEW n, Clash(n) PROVE Clash(n)' BY <1>1 DEF WrittenStays, Clash, Written, Met
<1>2. ASSUME NEW n, Halved(n) PROVE Halved(n)' BY <1>2 DEF WrittenStays, Halved, Written
<1>3. ASSUME NEW n, NEW v, Accepted(n, v) PROVE Accepted(n, v)' BY <1>3 DEF WrittenStays, Accepted, Written
<1>4. ASSUME NEW n, NEW j, Excused(n, j) PROVE Excused(n, j)'
  <2>1. CASE \E c, d \in Calls : call[c].id = n /\ call[d].id = j /\ Written(c) /\ Written(d) /\ Met(c, d)
    BY <2>1 DEF WrittenStays, Excused, Written, Met
  <2> QED BY <1>1, <1>2, <1>4, <2>1 DEF Excused
<1> QED BY <1>1, <1>2, <1>3, <1>4

\* To overlap and to excuse are symmetric.
LEMMA ExcusesAreMutual ==
  ASSUME NEW n, NEW j, Excused(n, j)
  PROVE  Excused(j, n)
<1>1. \A c, d : Met(c, d) => Met(d, c)
  <2>1. \A c, d : {c, d} = {d, c} OBVIOUS
  <2> QED BY <2>1 DEF Met
<1> QED BY <1>1 DEF Excused

-----------------------------------------------------------------------------
(* A request begins.                                                       *)

LEMMA BeganMoves ==
  ASSUME CInv, NEW c \in Calls, NEW r, Began(c, r)
  PROVE  /\ WrittenStays
         /\ call'[c] = r /\ \A d \in Calls \ {c} : call'[d] = call[d]
         /\ \A d, e : Met(d, e) => {d, e} \in met'
         /\ \A d \in Calls : InFlight(d) => {c, d} \in met' /\ {d, c} \in met'
         /\ ~InFlight(c) /\ ~Written(c)
<1>1. call \in [Calls -> Call \cup {Idle}] /\ call[c] = Idle BY DEF CInv, CallsOK, Began
<1>2. call'[c] = r /\ \A d \in Calls \ {c} : call'[d] = call[d] BY <1>1 DEF Began
<1>3. ~InFlight(c) /\ ~Written(c) BY <1>1 DEF InFlight, Written, Idle
<1>4. \A d, e : Met(d, e) => {d, e} \in met' BY DEF Began, Met
<1>5. \A d \in Calls : InFlight(d) => {c, d} \in met' /\ {d, c} \in met'
  <2>1. ASSUME NEW d \in Calls, InFlight(d) PROVE {c, d} \in met' BY <2>1 DEF Began, InFlight
  <2>2. \A d : {c, d} = {d, c} OBVIOUS
  <2> QED BY <2>1, <2>2
<1>6. WrittenStays BY <1>2, <1>3, <1>4 DEF WrittenStays, Written
<1> QED BY <1>2, <1>3, <1>4, <1>5, <1>6

LEMMA BeganKeeps == ASSUME CInv, NEW c \in Calls, NEW r, Began(c, r) PROVE CInv'
<1>1. /\ call'[c] = r /\ \A d \in Calls \ {c} : call'[d] = call[d]
      /\ \A d, e : Met(d, e) => {d, e} \in met'
      /\ \A d \in Calls : InFlight(d) => {c, d} \in met' /\ {d, c} \in met'
      /\ ~InFlight(c) /\ ~Written(c)
  BY BeganMoves
<1>2. /\ \A n : (Clash(n) => Clash(n)') /\ (Halved(n) => Halved(n)')
      /\ \A n, v : Accepted(n, v) => Accepted(n, v)'
      /\ \A n, j : Excused(n, j) => Excused(n, j)'
  BY BeganMoves, ExcusesLast
<1>3. /\ record' = record /\ r \in Call /\ Proper(r.copy, r.user) /\ (Asks(r) \/ Changes(r))
      /\ call \in [Calls -> Call \cup {Idle}] /\ call' \in [Calls -> Call \cup {Idle}] /\ tasks' \subseteq Calls
      /\ r.user \in Users /\ r.id \in Ids
  BY DEF Began, CInv, CallsOK, Call
<1>4. RecordsOK' BY <1>3 DEF CInv, RecordsOK
<1>5. CallsOK' BY <1>1, <1>3 DEF CInv, CallsOK, Asks, Changes
<1>6. EndsAgree'
  <2>1. ASSUME NEW d \in Calls, d # c, InFlight(d), call[d].id = r.id PROVE SameEnds(r.copy, call[d].copy)
    BY <1>3, <2>1 DEF CInv, EndsAgree, Asks, Changes, Standing, SameEnds
  <2>2. ASSUME NEW u \in Users, record[u][r.id] # None PROVE SameEnds(r.copy, record[u][r.id])
    BY <1>3, <2>2 DEF CInv, EndsAgree, Asks, Changes, Standing, SameEnds
  <2> QED BY <1>1, <1>3, <2>1, <2>2 DEF CInv, EndsAgree, InFlight, SameEnds
<1>7. FlightsMeet' BY <1>1 DEF CInv, FlightsMeet, InFlight, Met
<1>8. Genuine'
  <2>1. ASSUME NEW v \in Users, r.copy.status = "active", r.copy.to = v
        PROVE  (r.op = "accept" /\ r.user = v) \/ Accepted(r.id, v)
    BY <1>3, <2>1 DEF Asks, Changes, CInv, Genuine, SameEnds, Standing
  <2>2. ASSUME NEW d \in Calls, NEW n \in Ids, NEW v \in Users,
               InFlight(d)', call'[d].id = n, call'[d].copy.status = "active", call'[d].copy.to = v
        PROVE  (call'[d].op = "accept" /\ call'[d].user = v) \/ Accepted(n, v)
    BY <1>1, <2>1, <2>2 DEF CInv, Genuine, InFlight
  <2>3. \A u, v \in Users, n \in Ids :
          record'[u][n] # None /\ record'[u][n].status = "active" /\ record'[u][n].to = v => Accepted(n, v)
    BY <1>3 DEF CInv, Genuine
  <2> QED BY <1>2, <2>2, <2>3 DEF Genuine
<1>9. HalfStands' /\ AgreeBetween'
  <2>1. r.pc # "peer" BY <1>3 DEF Asks, Changes
  <2>2. \A d \in Calls : call'[d].pc = "peer" => d # c /\ call'[d] = call[d] BY <1>1, <2>1
  <2>3. \A d \in Calls : call[d].pc = "peer" => call'[d] = call[d] BY <1>1 DEF InFlight
  <2>4. HalfStands' BY <1>2, <1>3, <2>2 DEF CInv, HalfStands
  <2>5. AgreeBetween' BY <1>2, <1>3, <2>3 DEF CInv, AgreeBetween, Agree
  <2> QED BY <2>4, <2>5
<1>10. Reopenings'
  <2>1. r.op # "request" => OpenFor(r.id) BY <1>3 DEF Asks, Changes, OpenFor
  <2>2. ASSUME NEW d \in Calls, NEW n \in Ids, d # c, call[d].pc = "peer" \/ (call[d].pc = "own" /\ call[d].op # "request"),
               call[d].id = n, Standing(call[d].copy), ~OpenFor(n)
        PROVE  \E e \in Calls : e # d /\ call'[e].id = n /\ call'[e].pc \in {"peer", "done", "half"} /\ {d, e} \in met'
    <3>1. PICK e \in Calls : e # d /\ call[e].id = n /\ Written(e) /\ Met(d, e) BY <2>2 DEF CInv, Reopenings
    <3>2. call'[e] = call[e] /\ {d, e} \in met' BY <1>1, <3>1
    <3> QED BY <3>1, <3>2 DEF Written
  <2>3. r.pc # "peer" BY <1>3 DEF Asks, Changes
  <2>5. \A n : OpenFor(n) => OpenFor(n)' BY <1>3 DEF OpenFor, Standing
  <2>6. ASSUME NEW d \in Calls, NEW n \in Ids, call'[d].pc = "peer" \/ (call'[d].pc = "own" /\ call'[d].op # "request"),
               call'[d].id = n, Standing(call'[d].copy), ~OpenFor(n)'
        PROVE  \E e \in Calls : e # d /\ call'[e].id = n /\ Written(e)' /\ Met(d, e)'
    <3>1. d # c /\ ~OpenFor(n) BY <1>1, <2>1, <2>3, <2>5, <2>6
    <3>2. call'[d] = call[d] BY <1>1, <3>1
    <3>3. /\ call[d].pc = "peer" \/ (call[d].pc = "own" /\ call[d].op # "request")
          /\ call[d].id = n /\ Standing(call[d].copy)
      BY <2>6, <3>2
    <3> QED BY <2>2, <3>1, <3>3 DEF Written, Met
  <2> QED BY <2>6 DEF Reopenings, Standing
<1>11. Rivals' /\ RivalRequests'
  <2>1. \A n, j \in Ids, u, v \in Users :
          n # j /\ Standing(record[u][n]) /\ Standing(record[v][j]) /\ SameUsers(record[u][n], record[v][j]) => Excused(n, j)'
    BY <1>2 DEF CInv, Rivals
  <2>2. ASSUME NEW n \in Ids, NEW u \in Users, r.op = "request", r.pc = "own", n # r.id,
               Standing(record[u][n]), SameUsers(record[u][n], r.copy)
        PROVE  Halved(n)' \/ Clash(n)' \/ \E d \in Calls : call'[d].id = n /\ call'[d].pc \in {"peer", "done", "half"} /\ {c, d} \in met'
    <3> DEFINE doc == record[u][n]
               v == r.copy.to
    <3>1. Asks(r) /\ r.copy.from = r.user BY <1>3, <2>2 DEF Asks, Changes
    <3>2. Proper(doc, u) /\ doc # None /\ r.user # v /\ {doc.from, doc.to} = {r.user, v} /\ v \in Users
      BY <1>3, <2>2, <3>1, StandingIsProper DEF Proper, Standing, SameUsers, Connection
    <3>3. Peer(u, doc) \in {r.user, v} /\ Peer(u, doc) # u /\ u \in {r.user, v} BY <3>2 DEF Proper, Peer
    <3>4. u = r.user => Peer(u, doc) = v BY <3>3
    <3>5. u # r.user BY <2>2, <3>1, <3>4 DEF Asks, Blocked
    <3>6. Peer(u, doc) = r.user BY <3>3, <3>5
    <3>7. ~Agree(n)
      <4>1. Agree(n) => record[r.user][n] = doc BY <3>2, <3>6 DEF Agree
      <4>2. record[r.user][n] = doc => Peer(r.user, record[r.user][n]) = v BY <3>2 DEF Peer
      <4> QED BY <2>2, <3>1, <4>1, <4>2 DEF Asks, Blocked
    <3>8. Clash(n) \/ Halved(n) \/ \E d \in Calls : call[d].id = n /\ call[d].pc = "peer"
      BY <3>7 DEF CInv, AgreeBetween
    <3>9. ASSUME NEW d \in Calls, call[d].id = n, call[d].pc = "peer"
          PROVE  call'[d].id = n /\ call'[d].pc \in {"peer", "done", "half"} /\ {c, d} \in met'
      BY <1>1, <3>9 DEF InFlight
    <3> QED BY <1>2, <3>8, <3>9
  <2>3. ASSUME NEW x \in Calls, NEW n \in Ids, NEW u \in Users, x # c, call[x].op = "request", call[x].pc = "own",
               n # call[x].id, Standing(record[u][n]), SameUsers(record[u][n], call[x].copy)
        PROVE  Halved(n)' \/ Clash(n)' \/ \E d \in Calls : call'[d].id = n /\ call'[d].pc \in {"peer", "done", "half"} /\ {x, d} \in met'
    <3>1. Halved(n) \/ Clash(n) \/ \E d \in Calls : call[d].id = n /\ Written(d) /\ Met(x, d)
      BY <2>3 DEF CInv, RivalRequests
    <3> QED BY <1>1, <1>2, <3>1 DEF Written
  <2>4. \A n, j \in Ids, u, v \in Users :
          n # j /\ Standing(record'[u][n]) /\ Standing(record'[v][j]) /\ SameUsers(record'[u][n], record'[v][j]) => Excused(n, j)'
    BY <1>3, <2>1
  <2>5. ASSUME NEW x \in Calls, NEW n \in Ids, NEW u \in Users,
               call'[x].op = "request", call'[x].pc = "own", n # call'[x].id,
               Standing(record'[u][n]), SameUsers(record'[u][n], call'[x].copy)
        PROVE  Halved(n)' \/ Clash(n)' \/ \E d \in Calls : call'[d].id = n /\ call'[d].pc \in {"peer", "done", "half"} /\ {x, d} \in met'
    <3>1. CASE x = c BY <1>1, <1>3, <2>2, <2>5, <3>1
    <3>2. CASE x # c
      <4>1. call'[x] = call[x] BY <1>1, <3>2
      <4>2. /\ call[x].op = "request" /\ call[x].pc = "own" /\ n # call[x].id
            /\ Standing(record[u][n]) /\ SameUsers(record[u][n], call[x].copy)
        BY <1>3, <2>5, <4>1
      <4> QED BY <2>3, <3>2, <4>2
    <3> QED BY <3>1, <3>2
  <2>6. Rivals' BY <2>4 DEF Rivals, Standing, SameUsers
  <2>7. RivalRequests' BY <2>5 DEF RivalRequests, Written, Met
  <2> QED BY <2>6, <2>7
<1>12. Revocations'
  <2>1. ~(r.op = "revoke" /\ r.pc = "done") BY <1>3 DEF Asks, Changes
  <2>2. ASSUME NEW d \in Calls, NEW n \in Ids, d # c, call[d].op = "revoke", call[d].pc = "done", call[d].id = n, ~Clash(n)
        PROVE  /\ \A u \in Users : record[u][n] # None => record[u][n].status = "revoked"
               /\ \A x \in Calls : call'[x].pc \in {"own", "peer"} /\ call'[x].id = n => {x, d} \in met'
    <3>1. /\ \A u \in Users : record[u][n] # None => record[u][n].status = "revoked"
          /\ \A x \in Calls : InFlight(x) /\ call[x].id = n => Met(x, d)
      BY <2>2 DEF CInv, Revocations
    <3>2. r.id # n BY <1>3, <2>2, <3>1 DEF Asks, Changes, Standing
    <3> QED BY <1>1, <3>1, <3>2 DEF InFlight
  <2> QED BY <1>1, <1>2, <1>3, <2>1, <2>2 DEF Revocations, InFlight, Met
<1> QED BY <1>4, <1>5, <1>6, <1>7, <1>8, <1>9, <1>10, <1>11, <1>12 DEF CInv

-----------------------------------------------------------------------------
(* A request writes one of its two records.                                *)

LEMMA WroteMoves ==
  ASSUME CInv, NEW c \in Calls, NEW w, NEW at, Wrote(c, w, at)
  PROVE  /\ WrittenStays /\ InFlight(c) /\ call[c] \in Call /\ w \in Users /\ at \in {"peer", "done"}
         /\ call' \in [Calls -> Call \cup {Idle}]
         /\ call'[c].op = call[c].op /\ call'[c].pc = at /\ call'[c].user = call[c].user
         /\ call'[c].id = call[c].id /\ call'[c].copy = call[c].copy
         /\ \A d \in Calls \ {c} : call'[d] = call[d]
         /\ record' \in [Users -> [Ids -> Connection \cup {None}]]
         /\ record'[w][call[c].id] = call[c].copy
         /\ \A u \in Users, n \in Ids : u # w \/ n # call[c].id => record'[u][n] = record[u][n]
         /\ {call[c].user, w} \subseteq {call[c].copy.from, call[c].copy.to} /\ met' = met
         /\ Proper(call[c].copy, w)
<1>1. call \in [Calls -> Call \cup {Idle}] /\ call[c] # Idle /\ InFlight(c)
  BY DEF CInv, CallsOK, Wrote, Idle, InFlight
<1>2. call[c] \in Call /\ Proper(call[c].copy, call[c].user) BY <1>1 DEF CInv, CallsOK
<1>3. w \in Users /\ at \in {"peer", "done"} /\ met' = met BY <1>2 DEF Wrote, Call, Connection, Peer
<1>4. Proper(call[c].copy, w) /\ {call[c].user, w} \subseteq {call[c].copy.from, call[c].copy.to}
  BY <1>2 DEF Wrote, Peer, Proper
<1> DEFINE r == [call[c] EXCEPT !.pc = at]
<1>5. /\ r \in Call /\ r.op = call[c].op /\ r.pc = at /\ r.user = call[c].user
      /\ r.id = call[c].id /\ r.copy = call[c].copy
  BY <1>2, <1>3 DEF Call
<1>6. call' = [call EXCEPT ![c] = r] BY <1>1 DEF Wrote
<1> HIDE DEF r
<1>7. call' \in [Calls -> Call \cup {Idle}] /\ call'[c] = r /\ \A d \in Calls \ {c} : call'[d] = call[d]
  BY <1>1, <1>5, <1>6
<1>8. /\ record' \in [Users -> [Ids -> Connection \cup {None}]]
      /\ record'[w][call[c].id] = call[c].copy
      /\ \A u \in Users, n \in Ids : u # w \/ n # call[c].id => record'[u][n] = record[u][n]
  <2> DEFINE k == call[c].id
             doc == call[c].copy
  <2>1. record \in [Users -> [Ids -> Connection \cup {None}]] /\ k \in Ids /\ doc \in Connection
    BY <1>2 DEF CInv, RecordsOK, Call
  <2>2. record' = [record EXCEPT ![w][k] = doc] BY DEF Wrote
  <2> HIDE DEF k, doc
  <2>3. /\ record' \in [Users -> [Ids -> Connection \cup {None}]] /\ record'[w][k] = doc
        /\ \A u \in Users, n \in Ids : u # w \/ n # k => record'[u][n] = record[u][n]
    BY <1>3, <2>1, <2>2
  <2> QED BY <2>3 DEF k, doc
<1>9. WrittenStays BY <1>3, <1>5, <1>7 DEF WrittenStays, Written, Met, Wrote
<1> QED BY <1>1, <1>2, <1>3, <1>4, <1>5, <1>7, <1>8, <1>9

LEMMA WroteKeeps == ASSUME CInv, NEW c \in Calls, NEW w, NEW at, Wrote(c, w, at) PROVE CInv'
<1>0. PICK k \in Ids, doc \in Connection : k = call[c].id /\ doc = call[c].copy BY WroteMoves DEF Call
<1>1. /\ InFlight(c) /\ call[c] \in Call /\ w \in Users /\ at \in {"peer", "done"}
      /\ call' \in [Calls -> Call \cup {Idle}]
      /\ call'[c].op = call[c].op /\ call'[c].pc = at /\ call'[c].user = call[c].user
      /\ call'[c].id = k /\ call'[c].copy = doc
      /\ \A d \in Calls \ {c} : call'[d] = call[d]
      /\ record' \in [Users -> [Ids -> Connection \cup {None}]]
      /\ record'[w][k] = doc
      /\ \A u \in Users, n \in Ids : u # w \/ n # k => record'[u][n] = record[u][n]
      /\ {call[c].user, w} \subseteq {doc.from, doc.to} /\ met' = met
      /\ Proper(doc, w)
  BY <1>0, WroteMoves
<1>2. /\ \A n : (Clash(n) => Clash(n)') /\ (Halved(n) => Halved(n)')
      /\ \A n, v : Accepted(n, v) => Accepted(n, v)'
      /\ \A n, j : Excused(n, j) => Excused(n, j)'
  BY WroteMoves, ExcusesLast
<1>3. /\ k \in Ids /\ doc # None /\ doc \in Connection /\ call[c] # Idle /\ tasks' = tasks
      /\ \A v \in Users : v # None
  BY <1>0, <1>1, NoneIsNoConnection, ConnectionsAssumption DEF Call, Proper, InFlight, Idle, Wrote
<1>4. /\ (call[c].pc = "own" /\ w = call[c].user /\ at = "peer")
         \/ (call[c].pc = "peer" /\ w = Peer(call[c].user, doc) /\ at = "done")
  BY <1>0 DEF Wrote
\* Any other request about the same connection in flight has met this one.
<1>5. ASSUME NEW d \in Calls, d # c, InFlight(d)
      PROVE  Met(c, d) /\ Met(d, c)
  BY <1>1, <1>5 DEF CInv, FlightsMeet
<1>6. call'[c].pc \in {"peer", "done", "half"} BY <1>1
\* So one that had written clashes with it, and one at "peer" is such a one.
<1>7. ASSUME NEW d \in Calls, d # c, call[d].id = k, Written(d), Met(c, d)
      PROVE  Clash(k)'
  <2>1. /\ call'[c].id = k /\ call'[d].id = k /\ {c, d} \in met'
        /\ call'[d].pc \in {"peer", "done", "half"}
    BY <1>1, <1>7 DEF Met, Written
  <2> QED BY <1>6, <1>7, <2>1 DEF Clash, Written, Met
<1>8. RecordsOK' BY <1>1 DEF CInv, RecordsOK
<1>9. CallsOK'
  <2>1. ASSUME NEW d \in Calls, call'[d] # Idle
        PROVE  /\ Proper(call'[d].copy, call'[d].user)
               /\ call'[d].op = "request" => call'[d].copy.status = "pending"
               /\ call'[d].op = "revoke" => call'[d].copy.status = "revoked"
    <3>1. CASE d = c BY <1>0, <1>1, <1>3, <3>1 DEF CInv, CallsOK
    <3>2. CASE d # c BY <1>1, <2>1, <3>2 DEF CInv, CallsOK
    <3> QED BY <3>1, <3>2
  <2> QED BY <1>1, <1>3, <2>1 DEF CInv, CallsOK
<1>10. EndsAgree'
  <2>1. /\ \A u \in Users : record[u][k] # None => SameEnds(doc, record[u][k])
        /\ \A d \in Calls : InFlight(d) /\ call[d].id = k => SameEnds(doc, call[d].copy)
    BY <1>0, <1>1 DEF CInv, EndsAgree, SameEnds
  <2>2. \A u, v \in Users, n \in Ids :
          record'[u][n] # None /\ record'[v][n] # None => SameEnds(record'[u][n], record'[v][n])
    BY <1>1, <2>1 DEF CInv, EndsAgree, SameEnds
  <2>3. \A d \in Calls : InFlight(d)' => InFlight(d) /\ call'[d].id = call[d].id /\ call'[d].copy = call[d].copy
    BY <1>0, <1>1 DEF InFlight
  <2>4. \A d, e \in Calls : InFlight(d)' /\ InFlight(e)' /\ call'[d].id = call'[e].id => SameEnds(call'[d].copy, call'[e].copy)
    BY <2>3 DEF CInv, EndsAgree, SameEnds
  <2>5. \A d \in Calls, u \in Users :
          InFlight(d)' /\ record'[u][call'[d].id] # None => SameEnds(call'[d].copy, record'[u][call'[d].id])
    BY <1>1, <2>1, <2>3 DEF CInv, EndsAgree, SameEnds, CallsOK, Call, InFlight, Idle
  <2> QED BY <2>2, <2>4, <2>5 DEF EndsAgree, SameEnds
<1>11. FlightsMeet'
  <2>1. \A d \in Calls : InFlight(d)' => InFlight(d) BY <1>1 DEF InFlight
  <2> QED BY <1>1, <2>1 DEF CInv, FlightsMeet, Met
<1>12. Genuine'
  <2>1. ASSUME NEW v \in Users, doc.status = "active", doc.to = v PROVE Accepted(k, v)'
    <3>1. (call[c].op = "accept" /\ call[c].user = v) \/ Accepted(k, v) BY <1>0, <1>1, <1>3, <2>1 DEF CInv, Genuine
    <3>2. call[c].op = "accept" /\ call[c].user = v => Accepted(k, v)' BY <1>1, <1>6 DEF Accepted, Written
    <3> QED BY <1>2, <3>1, <3>2
  <2>2. ASSUME NEW u \in Users, NEW v \in Users, NEW n \in Ids,
               record'[u][n] # None, record'[u][n].status = "active", record'[u][n].to = v
        PROVE  Accepted(n, v)'
    <3>1. CASE u = w /\ n = k BY <1>1, <2>1, <2>2, <3>1
    <3>2. CASE u # w \/ n # k BY <1>1, <1>2, <2>2, <3>2 DEF CInv, Genuine
    <3> QED BY <3>1, <3>2
  <2>3. ASSUME NEW d \in Calls, NEW n \in Ids, NEW v \in Users,
               call'[d].pc \in {"own", "peer"}, call'[d].id = n, call'[d].copy.status = "active", call'[d].copy.to = v
        PROVE  (call'[d].op = "accept" /\ call'[d].user = v) \/ Accepted(n, v)'
    <3>1. CASE d = c BY <1>1, <2>1, <2>3, <3>1
    <3>2. CASE d # c BY <1>1, <1>2, <2>3, <3>2 DEF CInv, Genuine, InFlight
    <3> QED BY <3>1, <3>2
  <2> QED BY <2>2, <2>3 DEF Genuine, InFlight
<1>13. HalfStands'
  <2>1. ASSUME NEW d \in Calls, NEW n \in Ids, call'[d].pc = "peer", call'[d].id = n
        PROVE  Clash(n)' \/ record'[call'[d].user][n] = call'[d].copy
    <3>1. CASE d = c BY <1>1, <1>4, <2>1, <3>1
    <3>2. CASE d # c /\ n = k
      <4>1. call'[d] = call[d] BY <1>1, <3>2
      <4>2. InFlight(d) /\ Written(d) /\ call[d].id = k BY <2>1, <3>2, <4>1 DEF InFlight, Written
      <4>3. Clash(k)' BY <1>5, <1>7, <3>2, <4>2
      <4> QED BY <3>2, <4>3
    <3>3. CASE d # c /\ n # k
      <4>1. call'[d] = call[d] /\ call[d].user \in Users BY <1>1, <2>1, <3>3 DEF CInv, CallsOK, Call, Idle
      <4>2. record'[call[d].user][n] = record[call[d].user][n] BY <1>1, <3>3, <4>1
      <4>3. Clash(n) \/ record[call[d].user][n] = call[d].copy BY <2>1, <4>1 DEF CInv, HalfStands
      <4> QED BY <1>2, <4>1, <4>2, <4>3
    <3> QED BY <3>1, <3>2, <3>3
  <2> QED BY <2>1 DEF HalfStands
\* A request that wrote both records left its copy in both.
<1>14. ASSUME at = "done", ~Clash(k), NEW u \in Users, record'[u][k] # None
       PROVE  record'[u][k] = doc /\ record'[Peer(u, doc)][k] = doc
  <2>1. record[call[c].user][k] = doc BY <1>0, <1>4, <1>14 DEF CInv, HalfStands
  <2>2. call[c].user \in Users /\ call[c].user # w /\ {doc.from, doc.to} = {call[c].user, w}
    BY <1>1, <1>4, <1>14 DEF Call, Peer, Proper
  <2>3. record'[call[c].user][k] = doc /\ record'[w][k] = doc BY <1>1, <2>1, <2>2
  <2>4. \A v \in {call[c].user, w} : Peer(v, doc) \in {call[c].user, w} BY <2>2 DEF Peer
  <2>5. record'[u][k].from = record'[w][k].from /\ record'[u][k].to = record'[w][k].to
    BY <1>1, <1>3, <1>10, <1>14 DEF EndsAgree, SameEnds
  <2>6. u \in {record'[u][k].from, record'[u][k].to} BY <1>8, <1>14 DEF RecordsOK, Proper
  <2> QED BY <2>2, <2>3, <2>4, <2>5, <2>6
<1>15. AgreeBetween'
  <2>1. ASSUME NEW n \in Ids, n # k
        PROVE  Agree(n)' \/ Clash(n)' \/ Halved(n)' \/ \E d \in Calls : call'[d].id = n /\ call'[d].pc = "peer"
    <3>1. Agree(n) => Agree(n)'
      <4>1. ASSUME NEW u \in Users, Agree(n), record'[u][n] # None
            PROVE  record'[Peer(u, record'[u][n])][n] = record'[u][n]
        <5>1. record'[u][n] = record[u][n] /\ record[u][n] # None BY <1>1, <2>1, <4>1
        <5>2. Peer(u, record[u][n]) \in Users BY <5>1, StandingIsProper DEF Proper, Connection, Peer
        <5>3. record[Peer(u, record[u][n])][n] = record[u][n] BY <4>1, <5>1 DEF Agree
        <5> QED BY <1>1, <2>1, <5>1, <5>2, <5>3
      <4> QED BY <4>1 DEF Agree, Peer
    <3>2. ASSUME NEW d \in Calls, call[d].id = n, call[d].pc = "peer"
          PROVE  call'[d].id = n /\ call'[d].pc = "peer"
      BY <1>0, <1>1, <2>1, <3>2
    <3> QED BY <1>2, <3>1, <3>2 DEF CInv, AgreeBetween
  <2>2. ASSUME at = "done" PROVE Agree(k)' \/ Clash(k)'
    <3>1. ~Clash(k) => \A u \in Users : record'[u][k] # None => record'[Peer(u, record'[u][k])][k] = record'[u][k]
      BY <1>14, <2>2
    <3> QED BY <1>2, <3>1 DEF Agree, Peer
  <2>3. at = "peer" => \E d \in Calls : call'[d].id = k /\ call'[d].pc = "peer" BY <1>1
  <2>4. Agree(k)' \/ Clash(k)' \/ Halved(k)' \/ \E d \in Calls : call'[d].id = k /\ call'[d].pc = "peer"
    BY <1>1, <2>2, <2>3
  <2> QED BY <2>1, <2>4 DEF AgreeBetween
<1>16. Reopenings'
  <2>1. ASSUME NEW d \in Calls, NEW n \in Ids, call'[d].pc = "peer" \/ (call'[d].pc = "own" /\ call'[d].op # "request"),
               call'[d].id = n, Standing(call'[d].copy), \A u \in Users : ~Standing(record'[u][n])
        PROVE  \E e \in Calls : e # d /\ call'[e].id = n /\ call'[e].pc \in {"peer", "done", "half"} /\ {d, e} \in met'
    <3>1. d # c BY <1>1, <2>1
    <3>2. call'[d] = call[d] /\ InFlight(d) BY <1>1, <2>1, <3>1 DEF InFlight
    <3>3. CASE n = k BY <1>1, <1>5, <1>6, <3>1, <3>2, <3>3 DEF Met
    <3>4. CASE n # k
      <4>1. ~OpenFor(n) BY <1>1, <2>1, <3>4 DEF OpenFor
      <4>2. PICK e \in Calls : e # d /\ call[e].id = n /\ Written(e) /\ Met(d, e)
        BY <2>1, <3>2, <4>1 DEF CInv, Reopenings
      <4>3. call'[e] = call[e] BY <1>0, <1>1, <3>4, <4>2
      <4> QED BY <1>1, <4>2, <4>3 DEF Written, Met
    <3> QED BY <3>3, <3>4
  <2> QED BY <2>1 DEF Reopenings, Written, Met, OpenFor, Standing
<1>17. Rivals'
  <2>1. ASSUME NEW j \in Ids, NEW v \in Users, j # k, Standing(record[v][j]), Standing(doc), SameUsers(doc, record[v][j])
        PROVE  Excused(k, j)' /\ Excused(j, k)'
    <3>1. CASE call[c].op = "request" /\ call[c].pc = "own"
      <4>1. Halved(j) \/ Clash(j) \/ \E d \in Calls : call[d].id = j /\ Written(d) /\ Met(c, d)
        BY <1>0, <2>1, <3>1 DEF CInv, RivalRequests, SameUsers
      <4>2. ASSUME NEW d \in Calls, call[d].id = j, Written(d), Met(c, d)
            PROVE  /\ call'[c].id = k /\ call'[d].id = j /\ {c, d} \in met' /\ {d, c} \in met'
                   /\ call'[d].pc \in {"peer", "done", "half"}
        <5>1. {c, d} = {d, c} OBVIOUS
        <5> QED BY <1>0, <1>1, <2>1, <4>2, <5>1 DEF Written, Met
      <4> QED BY <1>2, <1>6, <4>1, <4>2 DEF Excused, Written, Met
    <3>2. CASE ~(call[c].op = "request" /\ call[c].pc = "own")
      <4>1. ASSUME NEW x \in Users, Standing(record[x][k]) PROVE Excused(k, j)
        <5>1. SameEnds(doc, record[x][k]) BY <1>0, <1>1, <4>1 DEF CInv, EndsAgree, Standing
        <5>2. SameUsers(record[x][k], record[v][j]) BY <2>1, <5>1 DEF SameUsers, SameEnds
        <5> QED BY <2>1, <4>1, <5>2 DEF CInv, Rivals
      <4>2. ASSUME ~OpenFor(k) PROVE Clash(k)'
        <5>1. call[c].pc = "peer" \/ (call[c].pc = "own" /\ call[c].op # "request") BY <1>1, <3>2 DEF InFlight
        <5>2. PICK d \in Calls : d # c /\ call[d].id = k /\ Written(d) /\ Met(c, d)
          BY <1>0, <2>1, <4>2, <5>1 DEF CInv, Reopenings
        <5> QED BY <1>7, <5>2
      <4>3. Clash(k)' => Excused(k, j)' /\ Excused(j, k)' BY DEF Excused
      <4> QED BY <1>2, <4>1, <4>2, <4>3, ExcusesAreMutual DEF OpenFor
    <3> QED BY <3>1, <3>2
  <2>2. ASSUME NEW n \in Ids, NEW j \in Ids, NEW u \in Users, NEW v \in Users, n # j,
               Standing(record'[u][n]), Standing(record'[v][j]), SameUsers(record'[u][n], record'[v][j])
        PROVE  Excused(n, j)'
    <3>1. CASE u = w /\ n = k
      <4>1. record'[u][n] = doc /\ record'[v][j] = record[v][j] BY <1>1, <2>2, <3>1
      <4> QED BY <2>1, <2>2, <3>1, <4>1
    <3>2. CASE v = w /\ j = k
      <4>1. record'[v][j] = doc /\ record'[u][n] = record[u][n] BY <1>1, <2>2, <3>2
      <4>2. SameUsers(doc, record[u][n]) BY <2>2, <4>1 DEF SameUsers
      <4> QED BY <2>1, <2>2, <3>2, <4>1, <4>2
    <3>3. CASE (u # w \/ n # k) /\ (v # w \/ j # k)
      <4>1. record'[v][j] = record[v][j] /\ record'[u][n] = record[u][n] BY <1>1, <3>3
      <4> QED BY <1>2, <2>2, <4>1 DEF CInv, Rivals
    <3> QED BY <3>1, <3>2, <3>3
  <2> QED BY <2>2 DEF Rivals, Standing, SameUsers
<1>18. RivalRequests'
  <2>1. ASSUME NEW x \in Calls, NEW n \in Ids, NEW u \in Users,
               call'[x].op = "request", call'[x].pc = "own", n # call'[x].id,
               Standing(record'[u][n]), SameUsers(record'[u][n], call'[x].copy)
        PROVE  Halved(n)' \/ Clash(n)' \/ \E d \in Calls : call'[d].id = n /\ call'[d].pc \in {"peer", "done", "half"} /\ {x, d} \in met'
    <3>1. x # c /\ call'[x] = call[x] /\ InFlight(x) BY <1>1, <2>1 DEF InFlight
    <3>2. CASE n = k BY <1>1, <1>5, <1>6, <3>1, <3>2 DEF Met
    <3>3. CASE n # k
      <4>1. record'[u][n] = record[u][n] BY <1>1, <3>3
      <4>2. Halved(n) \/ Clash(n) \/ \E d \in Calls : call[d].id = n /\ Written(d) /\ Met(x, d)
        BY <2>1, <3>1, <4>1 DEF CInv, RivalRequests
      <4>3. ASSUME NEW d \in Calls, call[d].id = n, Written(d), Met(x, d)
            PROVE  call'[d].id = n /\ call'[d].pc \in {"peer", "done", "half"} /\ {x, d} \in met'
        BY <1>0, <1>1, <3>3, <4>3 DEF Written, Met
      <4> QED BY <1>2, <4>2, <4>3
    <3> QED BY <3>2, <3>3
  <2> QED BY <2>1 DEF RivalRequests, Written, Met
<1>19. Revocations'
  <2>1. ASSUME NEW d \in Calls, NEW n \in Ids, call'[d].op = "revoke", call'[d].pc = "done", call'[d].id = n
        PROVE  \/ Clash(n)'
               \/ /\ \A u \in Users : record'[u][n] # None => record'[u][n].status = "revoked"
                  /\ \A x \in Calls : call'[x].pc \in {"own", "peer"} /\ call'[x].id = n => {x, d} \in met'
    <3>1. CASE d = c
      <4>1. at = "done" /\ n = k /\ doc.status = "revoked" BY <1>0, <1>1, <1>3, <2>1, <3>1 DEF CInv, CallsOK
      <4>2. ASSUME NEW x \in Calls, call'[x].pc \in {"own", "peer"} PROVE {x, d} \in met'
        <5>1. x # c BY <1>1, <4>1, <4>2
        <5>2. InFlight(x) BY <1>1, <4>2, <5>1 DEF InFlight
        <5> QED BY <1>1, <1>5, <3>1, <5>1, <5>2 DEF Met
      <4>3. ~Clash(k) => \A u \in Users : record'[u][k] # None => record'[u][k].status = "revoked" BY <1>14, <4>1
      <4> QED BY <1>2, <4>1, <4>2, <4>3
    <3>2. CASE d # c
      <4>1. call'[d] = call[d] BY <1>1, <3>2
      <4>2. \/ Clash(n)
            \/ /\ \A u \in Users : record[u][n] # None => record[u][n].status = "revoked"
               /\ \A x \in Calls : InFlight(x) /\ call[x].id = n => Met(x, d)
        BY <2>1, <4>1 DEF CInv, Revocations
      <4>3. CASE n = k /\ ~Clash(n)
        <5>1. Met(c, d) BY <1>0, <1>1, <4>2, <4>3
        <5> QED BY <1>7, <2>1, <3>2, <4>1, <4>3, <5>1 DEF Written
      <4>4. CASE n # k /\ ~Clash(n)
        <5>1. \A u \in Users : record'[u][n] = record[u][n] BY <1>1, <4>4
        <5>2. \A x \in Calls : call'[x].id = n => call'[x] = call[x] BY <1>1, <4>4
        <5> QED BY <1>1, <4>2, <4>4, <5>1, <5>2 DEF InFlight, Met
      <4> QED BY <1>2, <4>3, <4>4
    <3> QED BY <3>1, <3>2
  <2> QED BY <2>1 DEF Revocations, InFlight, Met
<1> QED BY <1>8, <1>9, <1>10, <1>11, <1>12, <1>13, <1>15, <1>16, <1>17, <1>18, <1>19 DEF CInv

-----------------------------------------------------------------------------
(* A request fails, before its first write or between the two.             *)

LEMMA FailMoves ==
  ASSUME CInv, NEW c \in Calls, Fail(c)
  PROVE  /\ WrittenStays /\ record' = record /\ tasks' = tasks
         /\ call' \in [Calls -> Call \cup {Idle}] /\ call'[c].pc \in {"idle", "half"}
         /\ \A d \in Calls \ {c} : call'[d] = call[d]
         /\ call'[c] # Idle => /\ call'[c].op = call[c].op /\ call'[c].user = call[c].user
                               /\ call'[c].copy = call[c].copy /\ call[c] # Idle
         /\ call[c].pc = "peer" => call'[c].pc = "half" /\ call'[c].id = call[c].id
         /\ \A d \in Calls \ {c}, e \in Calls : Written(e) /\ Met(d, e) => {d, e} \in met'
         /\ \A d, e \in Calls \ {c} : Met(d, e) => {d, e} \in met'
<1>1. call \in [Calls -> Call \cup {Idle}] /\ call[c] # Idle /\ call[c].pc \in {"own", "peer"}
  BY DEF CInv, CallsOK, Fail, Idle
<1>2. call[c] \in Call BY <1>1
<1>3. CASE call[c].pc = "own"
  <2>1. call' = [call EXCEPT ![c] = Idle] /\ met' = {pair \in met : c \notin pair} /\ record' = record /\ tasks' = tasks
    BY <1>3 DEF Fail
  <2>2. call' \in [Calls -> Call \cup {Idle}] /\ call'[c] = Idle /\ \A d \in Calls \ {c} : call'[d] = call[d]
    BY <1>1, <2>1
  <2>3. ~Written(c) /\ Idle.pc = "idle" BY <1>3 DEF Written, Idle
  <2>4. \A d, e \in Calls \ {c} : Met(d, e) => {d, e} \in met' BY <2>1 DEF Met
  <2>5. WrittenStays BY <2>2, <2>3, <2>4 DEF WrittenStays, Written
  <2> QED BY <1>3, <2>1, <2>2, <2>3, <2>4, <2>5
<1>4. CASE call[c].pc = "peer"
  <2> DEFINE r == [call[c] EXCEPT !.pc = "half"]
  <2>1. /\ r \in Call /\ r.op = call[c].op /\ r.pc = "half" /\ r.user = call[c].user
        /\ r.id = call[c].id /\ r.copy = call[c].copy
    BY <1>2 DEF Call
  <2>2. call' = [call EXCEPT ![c] = r] /\ met' = met /\ record' = record /\ tasks' = tasks BY <1>1, <1>4 DEF Fail
  <2> HIDE DEF r
  <2>3. call' \in [Calls -> Call \cup {Idle}] /\ call'[c] = r /\ \A d \in Calls \ {c} : call'[d] = call[d]
    BY <1>1, <2>1, <2>2
  <2>4. WrittenStays BY <1>4, <2>1, <2>2, <2>3 DEF WrittenStays, Written, Met
  <2> QED BY <1>1, <1>4, <2>1, <2>2, <2>3, <2>4 DEF Met
<1> QED BY <1>1, <1>3, <1>4

LEMMA FailKeeps == ASSUME CInv, NEW c \in Calls, Fail(c) PROVE CInv'
<1>1. /\ record' = record /\ tasks' = tasks
      /\ call' \in [Calls -> Call \cup {Idle}] /\ call'[c].pc \in {"idle", "half"}
      /\ \A d \in Calls \ {c} : call'[d] = call[d]
      /\ call'[c] # Idle => /\ call'[c].op = call[c].op /\ call'[c].user = call[c].user
                            /\ call'[c].copy = call[c].copy /\ call[c] # Idle
      /\ call[c].pc = "peer" => call'[c].pc = "half" /\ call'[c].id = call[c].id
      /\ \A d \in Calls \ {c}, e \in Calls : Written(e) /\ Met(d, e) => {d, e} \in met'
      /\ \A d, e \in Calls \ {c} : Met(d, e) => {d, e} \in met'
  BY FailMoves
<1>2. /\ \A n : (Clash(n) => Clash(n)') /\ (Halved(n) => Halved(n)')
      /\ \A n, v : Accepted(n, v) => Accepted(n, v)'
      /\ \A n, j : Excused(n, j) => Excused(n, j)'
  BY FailMoves, ExcusesLast
<1>3. \A d \in Calls : call'[d].pc \in {"own", "peer", "done"} => d # c /\ call'[d] = call[d] BY <1>1
\* What one of the others met, and has written, it still met.
<1>4. ASSUME NEW d \in Calls, NEW n, d # c, \E e \in Calls : e # d /\ call[e].id = n /\ Written(e) /\ Met(d, e)
      PROVE  \E e \in Calls : e # d /\ call'[e].id = n /\ call'[e].pc \in {"peer", "done", "half"} /\ {d, e} \in met'
  BY <1>1, <1>4, FailMoves DEF WrittenStays
<1>5. RecordsOK' /\ CallsOK'
  <2>1. RecordsOK' BY <1>1 DEF CInv, RecordsOK
  <2>2. ASSUME NEW d \in Calls, call'[d] # Idle
        PROVE  /\ Proper(call'[d].copy, call'[d].user)
               /\ call'[d].op = "request" => call'[d].copy.status = "pending"
               /\ call'[d].op = "revoke" => call'[d].copy.status = "revoked"
    BY <1>1, <2>2 DEF CInv, CallsOK
  <2> QED BY <1>1, <2>1, <2>2 DEF CInv, CallsOK
<1>6. EndsAgree' /\ FlightsMeet'
  <2>1. \A d \in Calls : InFlight(d)' => d # c /\ call'[d] = call[d] /\ InFlight(d) BY <1>3 DEF InFlight
  <2>2. EndsAgree' BY <1>1, <2>1 DEF CInv, EndsAgree, SameEnds
  <2>3. FlightsMeet' BY <1>1, <2>1 DEF CInv, FlightsMeet, Met
  <2> QED BY <2>2, <2>3
<1>7. Genuine' /\ HalfStands'
  <2>1. Genuine' BY <1>1, <1>2, <1>3 DEF CInv, Genuine, InFlight
  <2>2. HalfStands' BY <1>1, <1>2, <1>3 DEF CInv, HalfStands
  <2> QED BY <2>1, <2>2
<1>8. AgreeBetween'
  <2>1. ASSUME NEW d \in Calls, NEW n \in Ids, call[d].id = n, call[d].pc = "peer"
        PROVE  Halved(n)' \/ (call'[d].id = n /\ call'[d].pc = "peer")
    BY <1>1, <2>1 DEF Halved
  <2>2. \A n \in Ids : Agree(n) => Agree(n)' BY <1>1 DEF Agree, Peer
  <2> QED BY <1>2, <2>1, <2>2 DEF CInv, AgreeBetween
<1>9. Reopenings'
  <2>1. \A n : OpenFor(n) => OpenFor(n)' BY <1>1 DEF OpenFor, Standing
  <2>2. ASSUME NEW d \in Calls, NEW n \in Ids, call'[d].pc = "peer" \/ (call'[d].pc = "own" /\ call'[d].op # "request"),
               call'[d].id = n, Standing(call'[d].copy), ~OpenFor(n)'
        PROVE  \E e \in Calls : e # d /\ call'[e].id = n /\ Written(e)' /\ Met(d, e)'
    <3>1. d # c /\ call'[d] = call[d] BY <1>3, <2>2
    <3>2. \E e \in Calls : e # d /\ call[e].id = n /\ Written(e) /\ Met(d, e) BY <2>1, <2>2, <3>1 DEF CInv, Reopenings
    <3> QED BY <1>4, <3>1, <3>2 DEF Written, Met
  <2> QED BY <2>2 DEF Reopenings, Standing
<1>10. Rivals' BY <1>1, <1>2 DEF CInv, Rivals, Standing, SameUsers
<1>11. RivalRequests'
  <2>1. ASSUME NEW x \in Calls, NEW n \in Ids, NEW u \in Users,
               call'[x].op = "request", call'[x].pc = "own", n # call'[x].id,
               Standing(record'[u][n]), SameUsers(record'[u][n], call'[x].copy)
        PROVE  Halved(n)' \/ Clash(n)' \/ \E d \in Calls : call'[d].id = n /\ call'[d].pc \in {"peer", "done", "half"} /\ {x, d} \in met'
    <3>1. x # c /\ call'[x] = call[x] BY <1>3, <2>1
    <3>2. Halved(n) \/ Clash(n) \/ \E d \in Calls : call[d].id = n /\ Written(d) /\ Met(x, d)
      BY <1>1, <2>1, <3>1 DEF CInv, RivalRequests
    <3>3. ASSUME NEW d \in Calls, call[d].id = n, Written(d), Met(x, d)
          PROVE  call'[d].id = n /\ call'[d].pc \in {"peer", "done", "half"} /\ {x, d} \in met'
      BY <1>1, <3>1, <3>3, FailMoves DEF WrittenStays
    <3> QED BY <1>2, <3>2, <3>3
  <2> QED BY <2>1 DEF RivalRequests, Written, Met
<1>12. Revocations'
  <2>1. ASSUME NEW d \in Calls, NEW n \in Ids, call'[d].op = "revoke", call'[d].pc = "done", call'[d].id = n, ~Clash(n)
        PROVE  /\ \A u \in Users : record'[u][n] # None => record'[u][n].status = "revoked"
               /\ \A x \in Calls : call'[x].pc \in {"own", "peer"} /\ call'[x].id = n => {x, d} \in met'
    <3>1. d # c /\ call'[d] = call[d] BY <1>3, <2>1
    <3>2. /\ \A u \in Users : record[u][n] # None => record[u][n].status = "revoked"
          /\ \A x \in Calls : InFlight(x) /\ call[x].id = n => Met(x, d)
      BY <2>1, <3>1 DEF CInv, Revocations
    <3> QED BY <1>1, <1>3, <3>1, <3>2 DEF InFlight
  <2> QED BY <1>2, <2>1 DEF Revocations, InFlight, Met
<1> QED BY <1>5, <1>6, <1>7, <1>8, <1>9, <1>10, <1>11, <1>12 DEF CInv

-----------------------------------------------------------------------------
(* The invariant and what it says.                                         *)

LEMMA InitAgrees == ConnInit => CInv
<1> SUFFICES ASSUME ConnInit PROVE CInv OBVIOUS
<1>1. /\ \A u \in Users, n \in Ids : record[u][n] = None
      /\ \A c \in Calls : call[c] = Idle
      /\ record \in [Users -> [Ids -> Connection \cup {None}]]
      /\ call \in [Calls -> Call \cup {Idle}] /\ tasks \subseteq Calls
  BY DEF ConnInit
<1>2. \A c \in Calls : call[c].pc = "idle" BY <1>1 DEF Idle
<1>3. RecordsOK /\ CallsOK BY <1>1 DEF RecordsOK, CallsOK
<1>4. EndsAgree /\ FlightsMeet /\ Genuine /\ HalfStands /\ AgreeBetween
  BY <1>1, <1>2 DEF EndsAgree, FlightsMeet, Genuine, HalfStands, AgreeBetween, Agree, InFlight
<1>5. Reopenings /\ Rivals /\ RivalRequests /\ Revocations
  BY <1>1, <1>2 DEF Reopenings, Rivals, RivalRequests, Revocations, Standing
<1> QED BY <1>3, <1>4, <1>5 DEF CInv

LEMMA NextKeeps == ASSUME CInv, [ConnNext]_connVars PROVE CInv'
<1>1. ASSUME NEW c \in Calls, Write(c) PROVE CInv'
  <2>1. \E w, at : Wrote(c, w, at)
    <3>1. CASE call[c].pc = "own" BY <1>1, <3>1 DEF Write, Wrote, CInv, CallsOK
    <3>2. CASE call[c].pc = "peer" BY <1>1, <3>2 DEF Write, Wrote, CInv, CallsOK
    <3> QED BY <1>1, <3>1, <3>2 DEF Write
  <2> QED BY <2>1, WroteKeeps
<1>2. CASE UNCHANGED connVars
  <2>1. record' = record /\ call' = call /\ met' = met /\ tasks' = tasks BY <1>2 DEF connVars
  <2>2. RecordsOK' /\ CallsOK' BY <2>1 DEF CInv, RecordsOK, CallsOK
  <2>3. EndsAgree' /\ FlightsMeet' BY <2>1 DEF CInv, EndsAgree, FlightsMeet, SameEnds, InFlight, Met
  <2>4. \A n, v : (Clash(n) => Clash(n)') /\ (Halved(n) => Halved(n)') /\ (Accepted(n, v) => Accepted(n, v)')
    BY <2>1 DEF Clash, Halved, Accepted, Written, Met
  <2>5. Genuine' /\ HalfStands' BY <2>1, <2>4 DEF CInv, Genuine, HalfStands, InFlight
  <2>6. AgreeBetween'
    <3>1. \A n : Agree(n) => Agree(n)' BY <2>1 DEF Agree, Peer
    <3> QED BY <2>1, <2>4, <3>1 DEF CInv, AgreeBetween
  <2>7. Reopenings'
    <3>1. Reopenings BY DEF CInv
    <3>2. QED BY <2>1, <3>1 DEF Reopenings, OpenFor, Standing, Written, Met
  <2>8. Rivals'
    <3>1. \A n, j : Excused(n, j) => Excused(n, j)' BY <2>1, <2>4 DEF Excused, Written, Met
    <3> QED BY <2>1, <3>1 DEF CInv, Rivals, Standing, SameUsers
  <2>9. RivalRequests'
    <3>1. ASSUME NEW c \in Calls, NEW n \in Ids, NEW u \in Users, call'[c].op = "request", call'[c].pc = "own",
                 n # call'[c].id, Standing(record'[u][n]), SameUsers(record'[u][n], call'[c].copy)
          PROVE  Halved(n)' \/ Clash(n)' \/ \E d \in Calls : call'[d].id = n /\ Written(d)' /\ Met(c, d)'
      <4>1. Halved(n) \/ Clash(n) \/ \E d \in Calls : call[d].id = n /\ Written(d) /\ Met(c, d)
        BY <2>1, <3>1 DEF CInv, RivalRequests
      <4> QED BY <2>1, <2>4, <4>1 DEF Written, Met
    <3> QED BY <3>1 DEF RivalRequests
  <2>10. Revocations' BY <2>1, <2>4 DEF CInv, Revocations, InFlight, Met
  <2> QED BY <2>2, <2>3, <2>5, <2>6, <2>7, <2>8, <2>9, <2>10 DEF CInv
<1>3. ASSUME NEW c \in Calls,
             \/ \E u, v \in Users, permission \in Permissions : Request(c, u, v, permission)
             \/ \E u \in Users, n \in Ids :
                  \/ Accept(c, u, n) \/ Reject(c, u, n) \/ Revoke(c, u, n) \/ CreateTask(c, u, n)
                  \/ \E permission \in Permissions : UpdatePermission(c, u, n, permission)
      PROVE CInv'
  BY <1>3, RequestsBegin, BeganKeeps
<1> QED BY <1>1, <1>2, <1>3, FailKeeps DEF ConnNext

\* A connection joins the two users that each of its documents names.
LEMMA PairOf ==
  ASSUME CInv, NEW u \in Users, NEW n \in Ids, record[u][n] # None
  PROVE  Pair(n) = {record[u][n].from, record[u][n].to}
<1>1. \A v \in Users : record[v][n] # None => record[v][n].from = record[u][n].from /\ record[v][n].to = record[u][n].to
  BY DEF CInv, EndsAgree, SameEnds
<1>2. \A x : x \in Pair(n) <=> \E v \in Users : record[v][n] # None /\ x \in {record[v][n].from, record[v][n].to}
  BY DEF Pair
<1> QED BY <1>1, <1>2

LEMMA ClashOverlaps == ASSUME NEW n, Clash(n) PROVE Overlapped(n)
BY DEF Clash, Overlapped, Met

LEMMA InvariantsFollow ==
  ASSUME CInv
  PROVE  ConnTypeOK /\ RecordsAgree /\ ActiveWasAccepted /\ OnePerPair
<1>1. ConnTypeOK
  <2>1. \A c \in Calls : call[c].pc # "idle" => call[c] \in Call BY DEF CInv, CallsOK, Idle
  <2>2. \A c \in Calls : /\ call[c].pc \in {"idle", "own", "peer", "done", "half"}
                         /\ call[c].pc \in {"own", "peer", "half"} => call[c].copy \in Connection
    BY <2>1 DEF Call
  <2> QED BY <2>2 DEF CInv, RecordsOK, CallsOK, Proper, ConnTypeOK
<1>2. RecordsAgree BY ClashOverlaps DEF CInv, AgreeBetween, Agree, RecordsAgree, Over
<1>3. ActiveWasAccepted
  <2>1. ASSUME NEW u \in Users, NEW n \in Ids, record[u][n] # None, record[u][n].status = "active"
        PROVE  \E c \in Calls : call[c].op = "accept" /\ call[c].id = n /\ call[c].user = record[u][n].to
    <3>1. record[u][n].to \in Users BY <2>1, StandingIsProper DEF Proper, Connection
    <3>2. Accepted(n, record[u][n].to) BY <2>1, <3>1 DEF CInv, Genuine
    <3> QED BY <3>2 DEF Accepted
  <2> QED BY <2>1 DEF ActiveWasAccepted
<1>4. OnePerPair
  <2>1. ASSUME NEW u \in Users, NEW n \in Ids, NEW j \in Ids, n # j,
               Standing(record[u][n]), Standing(record[u][j]), Pair(n) = Pair(j)
        PROVE  Excused(n, j)
    <3>1. SameUsers(record[u][n], record[u][j]) BY <2>1, PairOf DEF Standing, SameUsers
    <3> QED BY <2>1, <3>1 DEF CInv, Rivals
  <2>2. ASSUME NEW n \in Ids, NEW j \in Ids, Excused(n, j)
        PROVE  \/ \E k \in {n, j} : Halved(k)
               \/ \E c, d \in Calls : call[c].id = n /\ call[d].id = j /\ {c, d} \in met
               \/ \E k \in {n, j} : Overlapped(k)
    <3>1. Clash(n) \/ Clash(j) => \E k \in {n, j} : Overlapped(k) BY ClashOverlaps
    <3> QED BY <2>2, <3>1 DEF Excused, Met
  <2> QED BY <2>1, <2>2 DEF OnePerPair
<1> QED BY <1>1, <1>2, <1>3, <1>4

\* A task is created over an active connection, which no settled revocation leaves.
LEMMA TaskStepsAgree ==
  ASSUME CInv, [ConnNext]_connVars, NEW c \in tasks' \ tasks, NEW d \in Calls,
         call[d].op = "revoke", call[d].pc = "done", call[d].id = call'[c].id
  PROVE  Overlapped(call[d].id)
<1>a. ConnNext /\ tasks' # tasks BY DEF connVars
<1>b. PICK e \in Calls, u \in Users, n \in Ids : CreateTask(e, u, n)
  BY <1>a DEF ConnNext, Write, Fail, Request, Accept, Reject, Revoke, UpdatePermission, Change
<1>1. c = e /\ CreateTask(c, u, n)
  <2>1. tasks' = tasks \cup {e} BY <1>b DEF CreateTask
  <2>2. c = e BY <2>1
  <2>3. QED BY <1>b, <2>2
<1>2. c \in Calls BY <1>1
<1>3. call'[c].id = n /\ record[u][n] # None /\ record[u][n].status = "active"
  BY <1>1, <1>2 DEF CreateTask, Begin, Permitted, CInv, CallsOK
<1>4. Clash(n) BY <1>3 DEF CInv, Revocations
<1> QED BY <1>3, <1>4, ClashOverlaps

\* The two users' records of a connection agree, an active one was accepted by
\* its recipient, one pair of users has one open connection, and a revoked one
\* carries no more tasks, except where requests about it overlapped or one was
\* cut off: for any users, connections, requests and failures of the store.
THEOREM ConnectionsStayInAgreement == ConnSpec => ConnectionsAgree
<1>1. ConnSpec => []CInv BY InitAgrees, NextKeeps, PTL DEF ConnSpec
<1>2. ASSUME CInv, [ConnNext]_connVars
      PROVE  [\A c \in tasks' \ tasks, d \in Calls :
                (call[d].op = "revoke" /\ call[d].pc = "done" /\ call[d].id = call'[c].id)
                  => Overlapped(call[d].id)]_connVars
  BY <1>2, TaskStepsAgree
<1>3. ConnSpec => NoTasksAfterRevocation BY <1>1, <1>2, PTL DEF ConnSpec, NoTasksAfterRevocation
<1>4. ConnSpec => []ConnTypeOK /\ []RecordsAgree /\ []ActiveWasAccepted /\ []OnePerPair BY <1>1, InvariantsFollow, PTL
<1> QED BY <1>3, <1>4 DEF ConnectionsAgree

-----------------------------------------------------------------------------
(* Induction, and loops over lists.                                        *)
(*                                                                         *)
(* FoldLeft is a function on sets of places, defined from each set to that *)
(* without its largest member; what it computes is the last value of a run *)
(* over the places in order (RunOfSubsets).                                *)

LEMMA LeastMember ==
  ASSUME NEW Q \in SUBSET Nat, Q # {}
  PROVE  \E m \in Q : \A k \in Q : m <= k
<1>1. IsWellFoundedOn(OpToRel(<, Nat), Nat) BY NatLessThanWellFounded
<1>2. PICK m \in Q : \A k \in Q : ~ (<<k, m>> \in OpToRel(<, Nat)) BY <1>1, WFMin
<1>3. ASSUME NEW k \in Q PROVE m <= k
  <2>1. ~(k < m) BY <1>2 DEF OpToRel
  <2>2. QED BY <2>1
<1>4. QED BY <1>2, <1>3

\* Induction, by the set of the numbers for which something holds.
LEMMA UpTo ==
  ASSUME NEW n \in Nat, NEW P, 0 \in P, \A k \in 1 .. n : k - 1 \in P => k \in P
  PROVE  \A k \in 0 .. n : k \in P
<1>1. SUFFICES ASSUME (0 .. n) \ P # {} PROVE FALSE OBVIOUS
<1> DEFINE Q == (0 .. n) \ P
<1>a. Q \in SUBSET Nat /\ Q # {} BY <1>1
<1>2. PICK m \in Q : \A k \in Q : m <= k
  <2> HIDE DEF Q
  <2>1. QED BY <1>a, LeastMember
<1>3. m \in 1 .. n /\ m - 1 \in 0 .. n /\ m - 1 \notin Q BY <1>2
<1>4. m - 1 \in P BY <1>3
<1>5. QED BY <1>2, <1>3, <1>4

\* The largest member of a set of numbers up to n.
LEMMA LargestMember ==
  ASSUME NEW n \in Nat, NEW Q \in SUBSET (1 .. n), Q # {}
  PROVE  Max(Q) \in Q /\ \A k \in Q : Max(Q) >= k
<1> DEFINE M == {n - k : k \in Q}
<1>1. M \in SUBSET Nat /\ M # {}
  <2>1. \A k \in Q : n - k \in Nat OBVIOUS
  <2>2. QED BY <2>1
<1>2. PICK m \in M : \A k \in M : m <= k
  <2> HIDE DEF M
  <2>1. QED BY <1>1, LeastMember
<1>3. PICK x \in Q : m = n - x OBVIOUS
<1>4. \A y \in Q : x >= y
  <2>1. TAKE y \in Q
  <2>2. n - y \in M OBVIOUS
  <2>3. QED BY <1>2, <1>3, <2>2
<1>5. QED BY <1>4 DEF Max

LEMMA LargestOfInterval == ASSUME NEW n \in Nat \ {0} PROVE Max(1 .. n) = n
<1>1. n \in Nat /\ 1 .. n \in SUBSET (1 .. n) /\ 1 .. n # {} /\ n \in 1 .. n OBVIOUS
<1>2. Max(1 .. n) \in 1 .. n /\ \A k \in 1 .. n : Max(1 .. n) >= k BY <1>1, LargestMember
<1>3. QED BY <1>1, <1>2

LEMMA LeastOfSet ==
  ASSUME NEW Q \in SUBSET Nat, Q # {}
  PROVE  Min(Q) \in Q /\ \A k \in Q : Min(Q) <= k
<1>1. PICK m \in Q : \A k \in Q : m <= k BY LeastMember
<1>2. QED BY <1>1 DEF Min

LEMMA MinOfTwo == ASSUME NEW a \in Nat, NEW b \in Nat PROVE Min({a, b}) = IF a <= b THEN a ELSE b
<1>0. {a, b} \in SUBSET Nat /\ {a, b} # {} OBVIOUS
<1>1. Min({a, b}) \in {a, b} /\ \A k \in {a, b} : Min({a, b}) <= k BY <1>0, LeastOfSet
<1>2. QED BY <1>1

\* h is computed from b by the steps F, from each subset of 1 .. n without its
\* largest member to the subset.
Computed(h, n, b, F) ==
  \A s \in SUBSET (1 .. n) : h[s] = IF s = {} THEN b ELSE F[<<h[s \ {Max(s)}], Max(s)>>]

\* A function on the subsets of 1 .. n is defined by its value of the empty set and
\* a step to each set from the one without its largest member.
LEMMA SubsetRecursion ==
  ASSUME NEW A, NEW n \in Nat, NEW b \in A, NEW F \in [A \X (1 .. n) -> A]
  PROVE  \E h \in [SUBSET (1 .. n) -> A] : Computed(h, n, b, F)
<1> DEFINE Solves(h, m) == \A s \in SUBSET (1 .. m) :
             h[s] = IF s = {} THEN b ELSE F[<<h[s \ {Max(s)}], Max(s)>>]
           P == {m \in 0 .. n : \E h \in [SUBSET (1 .. m) -> A] : Solves(h, m)}
<1>1. 0 \in P
  <2> DEFINE h == [s \in SUBSET (1 .. 0) |-> b]
  <2>1. SUBSET (1 .. 0) = {{}} OBVIOUS
  <2>2. h \in [SUBSET (1 .. 0) -> A] /\ Solves(h, 0) BY <2>1
  <2>3. 0 \in 0 .. n OBVIOUS
  <2> HIDE DEF h, Solves
  <2>4. QED BY <2>2, <2>3
<1>2. ASSUME NEW m \in 1 .. n, m - 1 \in P PROVE m \in P
  <2>1. PICK g \in [SUBSET (1 .. m - 1) -> A] : Solves(g, m - 1) BY <1>2
  <2> DEFINE h == [s \in SUBSET (1 .. m) |-> IF m \in s THEN F[<<g[s \ {m}], m>>] ELSE g[s]]
  <2>2. \A s \in SUBSET (1 .. m) : m \in s => s \ {m} \in SUBSET (1 .. m - 1) OBVIOUS
  <2>3. \A s \in SUBSET (1 .. m) : m \notin s => s \in SUBSET (1 .. m - 1) OBVIOUS
  <2>4. h \in [SUBSET (1 .. m) -> A]
    <3>1. ASSUME NEW s \in SUBSET (1 .. m) PROVE h[s] \in A
      <4>1. CASE m \in s
        <5>1. g[s \ {m}] \in A BY <2>2, <4>1
        <5>2. QED BY <5>1, <4>1
      <4>2. CASE m \notin s BY <2>3, <4>2
      <4>3. QED BY <4>1, <4>2
    <3>2. QED BY <3>1
  <2>5. ASSUME NEW s \in SUBSET (1 .. m)
        PROVE  h[s] = IF s = {} THEN b ELSE F[<<h[s \ {Max(s)}], Max(s)>>]
    <3>1. CASE m \in s
      <4>0. m \in Nat /\ s \in SUBSET (1 .. m) /\ s # {} BY <3>1
      <4>1. Max(s) \in s /\ \A k \in s : Max(s) >= k BY <4>0, LargestMember
      <4>2. Max(s) = m
        <5>1. Max(s) >= m /\ Max(s) \in 1 .. m BY <3>1, <4>0, <4>1
        <5>2. QED BY <5>1
      <4>3. h[s \ {m}] = g[s \ {m}] BY <2>2, <3>1
      <4>4. QED BY <3>1, <4>2, <4>3
    <3>2. CASE m \notin s /\ s # {}
      <4>1. s \in SUBSET (1 .. m - 1) BY <2>3, <3>2
      <4>3. s \ {Max(s)} \in SUBSET (1 .. m) /\ m \notin s \ {Max(s)} BY <3>2
      <4>4. h[s] = g[s] /\ h[s \ {Max(s)}] = g[s \ {Max(s)}] BY <3>2, <4>3
      <4>5. QED BY <2>1, <3>2, <4>1, <4>4
    <3>3. CASE s = {}
      <4>1. {} \in SUBSET (1 .. m - 1) /\ g[{}] = b BY <2>1
      <4>2. QED BY <3>3, <4>1
    <3>4. QED BY <3>1, <3>2, <3>3
  <2> HIDE DEF h
  <2>6. Solves(h, m) BY <2>5
  <2>a. m \in 0 .. n OBVIOUS
  <2> HIDE DEF Solves
  <2>7. QED BY <2>4, <2>6, <2>a
<1>3. n \in P
  <2> HIDE DEF P
  <2>1. QED BY <1>1, <1>2, UpTo
<1>4. QED BY <1>3 DEF Computed

\* t is the run of a loop over n places, from b to c: a step F from each value to
\* the next.
IsRun(t, A, n, b, F, c) ==
  t \in [0 .. n -> A] /\ t[0] = b /\ t[n] = c /\ \A k \in 1 .. n : t[k] = F[<<t[k - 1], k>>]

\* g goes by the steps F as long as its values are in A.
StepsIn(A, g, n, b, F) ==
  /\ g[{}] = b
  /\ \A s \in SUBSET (1 .. n) : s # {} /\ g[s \ {Max(s)}] \in A => g[s] = F[<<g[s \ {Max(s)}], Max(s)>>]

\* What a function computes from subset to subset is computed by a run over 1 .. n.
LEMMA RunOfSubsets ==
  ASSUME NEW A, NEW n \in Nat, NEW b \in A, NEW F \in [A \X (1 .. n) -> A],
         NEW g, StepsIn(A, g, n, b, F)
  PROVE  \E t : IsRun(t, A, n, b, F, g[1 .. n])
<1> DEFINE t == [k \in 0 .. n |-> g[1 .. k]]
           P == {k \in 0 .. n : g[1 .. k] \in A}
<1>1. ASSUME NEW k \in 1 .. n, g[1 .. k - 1] \in A PROVE g[1 .. k] = F[<<g[1 .. k - 1], k>>]
  <2>1. 1 .. k \in SUBSET (1 .. n) /\ 1 .. k # {} OBVIOUS
  <2>2. Max(1 .. k) = k BY LargestOfInterval
  <2>3. (1 .. k) \ {k} = 1 .. k - 1 OBVIOUS
  <2>4. QED BY <1>1, <2>1, <2>2, <2>3 DEF StepsIn
<1>2. 1 .. 0 = {} /\ g[1 .. 0] = b
  <2>1. 1 .. 0 = {} OBVIOUS
  <2>2. QED BY <2>1 DEF StepsIn
<1>3. \A k \in 0 .. n : g[1 .. k] \in A
  <2>1. 0 \in P BY <1>2
  <2>2. ASSUME NEW k \in 1 .. n, k - 1 \in P PROVE k \in P
    <3>1. g[1 .. k - 1] \in A BY <2>2
    <3>2. F[<<g[1 .. k - 1], k>>] \in A BY <3>1
    <3>3. QED BY <1>1, <3>1, <3>2
  <2>3. \A k \in 0 .. n : k \in P
    <3> HIDE DEF P
    <3>1. QED BY <2>1, <2>2, UpTo
  <2>4. QED BY <2>3
<1>4. t \in [0 .. n -> A] BY <1>3
<1>5. t[0] = b /\ t[n] = g[1 .. n] BY <1>2
<1>6. ASSUME NEW k \in 1 .. n PROVE t[k] = F[<<t[k - 1], k>>]
  <2>1. k - 1 \in 0 .. n /\ k \in 0 .. n OBVIOUS
  <2>2. QED BY <1>1, <1>3, <2>1
<1>7. IsRun(t, A, n, b, F, g[1 .. n]) BY <1>4, <1>5, <1>6 DEF IsRun
<1>8. QED BY <1>7

-----------------------------------------------------------------------------
(* Lists: comprehensions, prefixes and orders as operators of Lists.       *)

\* R orders D.
Orders(D, R) ==
  /\ \A a \in D : <<a, a>> \in R
  /\ \A a, b \in D : <<a, b>> \in R \/ <<b, a>> \in R
  /\ \A a, b \in D : <<a, b>> \in R /\ <<b, a>> \in R => a = b
  /\ \A a, b, c \in D : <<a, b>> \in R /\ <<b, c>> \in R => <<a, c>> \in R

\* f lists D in the order R.
Enumerates(f, D, R) ==
  /\ f \in [1 .. Cardinality(D) -> D]
  /\ \A a \in D : \E k \in 1 .. Cardinality(D) : f[k] = a
  /\ \A j, k \in 1 .. Cardinality(D) : j < k => f[j] # f[k] /\ <<f[j], f[k]>> \in R

\* Counting the members up to each one numbers a finite set from 1.
LEMMA KthLists ==
  ASSUME NEW D, IsFiniteSet(D), NEW R, Orders(D, R)
  PROVE  Cardinality(D) \in Nat /\ Enumerates([k \in 1 .. Cardinality(D) |-> Kth(D, R, k)], D, R)
<1> DEFINE n == Cardinality(D)
           Down(a) == {e \in D : <<e, a>> \in R}
           rank == [a \in D |-> Cardinality(Down(a))]
<1>1. n \in Nat BY FS_CardinalityType
<1>2. \A a \in D : IsFiniteSet(Down(a)) /\ Cardinality(Down(a)) \in Nat /\ Cardinality(Down(a)) <= n /\ a \in Down(a)
  <2>1. TAKE a \in D
  <2>2. Down(a) \in SUBSET D OBVIOUS
  <2>3. IsFiniteSet(Down(a)) /\ Cardinality(Down(a)) <= n BY <2>2, FS_Subset
  <2>4. a \in Down(a) BY DEF Orders
  <2>5. QED BY <2>3, <2>4, FS_CardinalityType
<1>3. \A a \in D : Cardinality(Down(a)) # 0
  <2>1. TAKE a \in D
  <2>2. IsFiniteSet(Down(a)) /\ Down(a) # {} BY <1>2
  <2> HIDE DEF Down
  <2>3. QED BY <2>2, FS_EmptySet
<1>4. rank \in [D -> 1 .. n]
  <2> HIDE DEF Down, n
  <2>1. \A a \in D : Cardinality(Down(a)) \in 1 .. n BY <1>1, <1>2, <1>3
  <2>2. QED BY <2>1
<1>5. ASSUME NEW a \in D, NEW b \in D, a # b, <<a, b>> \in R PROVE rank[a] < rank[b]
  <2>1. Down(a) \in SUBSET Down(b) BY <1>5 DEF Orders
  <2>2. b \in Down(b) /\ b \notin Down(a) BY <1>5 DEF Orders
  <2>3. IsFiniteSet(Down(b)) BY <1>2
  <2>4. Cardinality(Down(a)) <= Cardinality(Down(b)) /\ Cardinality(Down(a)) # Cardinality(Down(b))
    <3> HIDE DEF Down
    <3>1. QED BY <2>1, <2>2, <2>3, FS_Subset
  <2> HIDE DEF Down
  <2>5. Cardinality(Down(a)) < Cardinality(Down(b)) BY <1>2, <2>4
  <2>6. QED BY <2>5
<1>6. \A a, b \in D : a # b => rank[a] # rank[b]
  <2>1. TAKE a, b \in D
  <2>2. HAVE a # b
  <2>3. <<a, b>> \in R \/ <<b, a>> \in R BY DEF Orders
  <2>4. rank[a] \in Int /\ rank[b] \in Int BY <1>4
  <2>5. QED BY <1>5, <2>2, <2>3, <2>4
<1>7. \A k \in 1 .. n : \E a \in D : rank[a] = k
  <2>1. rank \in Injection(D, 1 .. n) BY <1>4, <1>6 DEF Injection, IsInjective
  <2>2. IsFiniteSet(1 .. n) /\ Cardinality(1 .. n) = n
    <3>1. 1 \in Int /\ n \in Int BY <1>1
    <3>2. IsFiniteSet(1 .. n) /\ Cardinality(1 .. n) = IF 1 > n THEN 0 ELSE n - 1 + 1 BY <3>1, FS_Interval
    <3>3. QED BY <1>1, <3>2
  <2>3. rank \in Surjection(D, 1 .. n)
    <3> HIDE DEF rank
    <3>1. QED BY <2>1, <2>2, FS_Injection
  <2>4. QED BY <2>3 DEF Surjection
<1> HIDE DEF n
<1>8. ASSUME NEW k \in 1 .. n PROVE Kth(D, R, k) \in D /\ rank[Kth(D, R, k)] = k
  <2>1. \E a \in D : Cardinality({e \in D : <<e, a>> \in R}) = k BY <1>7
  <2>2. Kth(D, R, k) \in D /\ Cardinality({e \in D : <<e, Kth(D, R, k)>> \in R}) = k BY <2>1 DEF Kth
  <2>3. QED BY <2>2
<1> DEFINE f == [k \in 1 .. n |-> Kth(D, R, k)]
<1> HIDE DEF rank
<1>9. f \in [1 .. n -> D] /\ \A k \in 1 .. n : rank[f[k]] = k BY <1>8
<1> HIDE DEF f
<1>10. \A a \in D : \E k \in 1 .. n : f[k] = a
  <2>1. TAKE a \in D
  <2>2. rank[a] \in 1 .. n BY <1>4
  <2>3. f[rank[a]] \in D /\ rank[f[rank[a]]] = rank[a] BY <1>9, <2>2
  <2>4. f[rank[a]] = a BY <1>6, <2>3
  <2>5. QED BY <2>2, <2>4
<1>11. ASSUME NEW j \in 1 .. n, NEW k \in 1 .. n, j < k PROVE f[j] # f[k] /\ <<f[j], f[k]>> \in R
  <2>1. f[j] \in D /\ f[k] \in D /\ rank[f[j]] = j /\ rank[f[k]] = k BY <1>9
  <2>2. f[j] # f[k] BY <2>1, <1>11
  <2>3. CASE <<f[k], f[j]>> \in R BY <1>5, <1>11, <2>1, <2>2, <2>3
  <2>4. QED BY <2>1, <2>2, <2>3 DEF Orders
<1>12. QED BY <1>1, <1>9, <1>10, <1>11 DEF Enumerates, n, f

LEMMA PlacesAreOrdered == ASSUME NEW D \in SUBSET Int PROVE Orders(D, InPlace(D))
BY DEF Orders, InPlace

\* r is what s has in the places D, in order; f tells the place of each.
Takes(f, r, s, D) ==
  /\ f \in [1 .. Len(r) -> D]
  /\ \A a \in D : \E k \in 1 .. Len(r) : f[k] = a
  /\ \A j, k \in 1 .. Len(r) : j < k => f[j] < f[k]
  /\ \A k \in 1 .. Len(r) : r[k] = s[f[k]]

LEMMA ArrangedInPlace ==
  ASSUME NEW S, NEW s \in Seq(S), NEW D \in SUBSET (DOMAIN s)
  PROVE  /\ IsFiniteSet(D) /\ Cardinality(D) \in Nat
         /\ Arranged(s, D, InPlace(D)) \in Seq(S)
         /\ Len(Arranged(s, D, InPlace(D))) = Cardinality(D)
         /\ \E f : Takes(f, Arranged(s, D, InPlace(D)), s, D)
<1> DEFINE n == Cardinality(D)
           R == InPlace(D)
           f == [k \in 1 .. n |-> Kth(D, R, k)]
           r == Arranged(s, D, R)
<1>1. DOMAIN s = 1 .. Len(s) /\ Len(s) \in Nat /\ \A k \in 1 .. Len(s) : s[k] \in S OBVIOUS
<1>2. IsFiniteSet(D)
  <2>1. 1 \in Int /\ Len(s) \in Int BY <1>1
  <2>2. IsFiniteSet(1 .. Len(s)) BY <2>1, FS_Interval
  <2>3. QED BY <1>1, <2>2, FS_Subset
<1>3. Orders(D, R)
  <2>1. D \in SUBSET Int BY <1>1
  <2>2. QED BY <2>1, PlacesAreOrdered
<1>4. n \in Nat /\ Enumerates(f, D, R)
  <2> HIDE DEF R
  <2>1. QED BY <1>2, <1>3, KthLists
<1>5. r = [k \in 1 .. n |-> s[f[k]]] BY DEF Arranged
<1> HIDE DEF f, r
<1>6. r \in Seq(S) /\ Len(r) = n
  <2>1. \A k \in 1 .. n : s[f[k]] \in S BY <1>1, <1>4 DEF Enumerates
  <2> HIDE DEF n
  <2>2. QED BY <1>4, <1>5, <2>1
<1>7. Takes(f, r, s, D)
  <2>1. f \in [1 .. n -> D] /\ \A a \in D : \E k \in 1 .. n : f[k] = a BY <1>4 DEF Enumerates
  <2>2. \A k \in 1 .. n : r[k] = s[f[k]] BY <1>5
  <2>3. ASSUME NEW j \in 1 .. n, NEW k \in 1 .. n, j < k PROVE f[j] < f[k]
    <3>1. f[j] # f[k] /\ <<f[j], f[k]>> \in R BY <1>4, <2>3 DEF Enumerates
    <3>2. f[j] \in D /\ f[k] \in D BY <2>1
    <3>3. f[j] \in Int /\ f[k] \in Int BY <1>1, <3>2
    <3>4. QED BY <3>1, <3>3 DEF InPlace
  <2> HIDE DEF n
  <2>4. QED BY <1>6, <2>1, <2>2, <2>3 DEF Takes
<1>8. QED BY <1>2, <1>4, <1>6, <1>7 DEF r

\* The members of a list are those in the places that were taken.
LEMMA ArrangedMembers ==
  ASSUME NEW S, NEW s \in Seq(S), NEW D \in SUBSET (DOMAIN s)
  PROVE  /\ Arranged(s, D, InPlace(D)) \in Seq(S)
         /\ \A k \in DOMAIN Arranged(s, D, InPlace(D)) : \E a \in D : Arranged(s, D, InPlace(D))[k] = s[a]
         /\ \A a \in D : \E k \in DOMAIN Arranged(s, D, InPlace(D)) : Arranged(s, D, InPlace(D))[k] = s[a]
<1> DEFINE r == Arranged(s, D, InPlace(D))
<1>1. r \in Seq(S) /\ \E f : Takes(f, r, s, D)
  <2> HIDE DEF r
  <2>1. QED BY ArrangedInPlace DEF r
<1> HIDE DEF r
<1>2. DOMAIN r = 1 .. Len(r) BY <1>1
<1>3. PICK f : Takes(f, r, s, D) BY <1>1
<1>4. \A k \in DOMAIN r : \E a \in D : r[k] = s[a] BY <1>2, <1>3 DEF Takes
<1>5. \A a \in D : \E k \in DOMAIN r : r[k] = s[a] BY <1>2, <1>3 DEF Takes
<1>6. QED BY <1>1, <1>4, <1>5 DEF r

\* s in an order of all its places.
LEMMA ArrangedAll ==
  ASSUME NEW S, NEW s \in Seq(S), NEW R, Orders(DOMAIN s, R)
  PROVE  /\ Arranged(s, DOMAIN s, R) \in Seq(S) /\ Len(Arranged(s, DOMAIN s, R)) = Len(s)
         /\ \E f : /\ Enumerates(f, DOMAIN s, R) /\ Cardinality(DOMAIN s) = Len(s)
                   /\ \A k \in 1 .. Len(s) : Arranged(s, DOMAIN s, R)[k] = s[f[k]]
<1> DEFINE D == DOMAIN s
           n == Cardinality(D)
           f == [k \in 1 .. n |-> Kth(D, R, k)]
           r == Arranged(s, D, R)
<1>1. D = 1 .. Len(s) /\ Len(s) \in Nat /\ \A k \in 1 .. Len(s) : s[k] \in S OBVIOUS
<1>2. IsFiniteSet(D) /\ n = Len(s)
  <2>1. 1 \in Int /\ Len(s) \in Int BY <1>1
  <2>2. IsFiniteSet(1 .. Len(s)) /\ Cardinality(1 .. Len(s)) = IF 1 > Len(s) THEN 0 ELSE Len(s) - 1 + 1
    BY <2>1, FS_Interval
  <2> HIDE DEF D
  <2>3. QED BY <1>1, <2>2
<1>4. n \in Nat /\ Enumerates(f, D, R)
  <2> HIDE DEF D
  <2>1. QED BY <1>2, KthLists DEF D
<1>5. r = [k \in 1 .. n |-> s[f[k]]] BY DEF Arranged
<1> HIDE DEF f, r, n, D
<1>6. r \in Seq(S) /\ Len(r) = n
  <2>1. \A k \in 1 .. n : s[f[k]] \in S BY <1>1, <1>2, <1>4 DEF Enumerates, n
  <2>2. QED BY <1>4, <1>5, <2>1
<1>7. \A k \in 1 .. Len(s) : r[k] = s[f[k]] BY <1>2, <1>5
<1>8. Enumerates(f, DOMAIN s, R) /\ Cardinality(DOMAIN s) = Len(s) /\ (\A k \in 1 .. Len(s) : r[k] = s[f[k]])
  BY <1>2, <1>4, <1>7 DEF D, n
<1>9. r = Arranged(s, DOMAIN s, R) BY DEF r, D
<1>10. QED BY <1>2, <1>6, <1>8, <1>9

\* There is one list of what s has in the places D, in their order.
LEMMA TakesOnce ==
  ASSUME NEW D \in SUBSET Int, NEW s, NEW S, NEW q \in Seq(S), NEW r \in Seq(S),
         NEW f, Takes(f, q, s, D), NEW g, Takes(g, r, s, D)
  PROVE  q = r
<1> DEFINE n == Len(q)
           m == Len(r)
           P == {k \in 0 .. n : \A j \in 1 .. k : j \in 1 .. m /\ f[j] = g[j]}
<1>1. n \in Nat /\ m \in Nat /\ DOMAIN q = 1 .. n /\ DOMAIN r = 1 .. m OBVIOUS
<1>2. /\ \A k \in 1 .. n : f[k] \in D /\ f[k] \in Int /\ q[k] = s[f[k]]
      /\ \A k \in 1 .. m : g[k] \in D /\ g[k] \in Int /\ r[k] = s[g[k]]
      /\ \A a \in D : (\E k \in 1 .. n : f[k] = a) /\ (\E k \in 1 .. m : g[k] = a)
      /\ \A j, k \in 1 .. n : j < k => f[j] < f[k]
      /\ \A j, k \in 1 .. m : j < k => g[j] < g[k]
  BY DEF Takes
<1>3. ASSUME NEW k \in 1 .. n, k - 1 \in P PROVE k \in P
  <2>1. \A j \in 1 .. k - 1 : j \in 1 .. m /\ f[j] = g[j] BY <1>3
  <2>2. PICK x \in 1 .. m : g[x] = f[k] BY <1>2
  <2>3. x >= k
    <3>1. SUFFICES ASSUME x \in 1 .. k - 1 PROVE FALSE BY <1>1
    <3>2. f[x] = f[k] /\ f[x] < f[k] /\ f[k] \in Int
      <4>1. x \in 1 .. n /\ x < k BY <1>1, <3>1
      <4>2. QED BY <1>2, <2>1, <2>2, <3>1, <4>1
    <3>3. QED BY <3>2
  <2>4. k \in 1 .. m BY <1>1, <2>3
  <2>5. PICK y \in 1 .. n : f[y] = g[k] BY <1>2, <2>4
  <2>6. y >= k
    <3>1. SUFFICES ASSUME y \in 1 .. k - 1 PROVE FALSE BY <1>1
    <3>2. g[y] = g[k] /\ g[y] < g[k] /\ g[k] \in Int
      <4>1. y \in 1 .. m /\ y < k BY <1>1, <2>1, <3>1
      <4>2. QED BY <1>2, <2>1, <2>4, <2>5, <3>1, <4>1
    <3>3. QED BY <3>2
  <2>7. f[k] <= f[y] /\ g[k] <= g[x]
    <3>1. k = y \/ f[k] < f[y] BY <1>2, <2>6
    <3>2. k = x \/ g[k] < g[x] BY <1>2, <2>3, <2>4
    <3>3. f[k] \in Int /\ f[y] \in Int /\ g[k] \in Int /\ g[x] \in Int BY <1>2, <2>4
    <3>4. QED BY <3>1, <3>2, <3>3
  <2>8. f[k] = g[k] BY <1>2, <2>2, <2>4, <2>5, <2>7
  <2>9. \A j \in 1 .. k : j \in 1 .. m /\ f[j] = g[j]
    <3>1. TAKE j \in 1 .. k
    <3>2. j \in 1 .. k - 1 \/ j = k OBVIOUS
    <3>3. QED BY <2>1, <2>4, <2>8, <3>2
  <2>10. QED BY <2>9
<1>4. 0 \in P BY <1>1
<1>5. \A j \in 1 .. n : j \in 1 .. m /\ f[j] = g[j]
  <2>1. \A k \in 0 .. n : k \in P
    <3> HIDE DEF P, n, m
    <3>1. QED BY <1>1, <1>3, <1>4, UpTo
  <2>2. n \in P BY <1>1, <2>1
  <2>3. QED BY <2>2
<1>6. n = m
  <2>a. n <= m
    <3> HIDE DEF n, m
    <3>1. n = 0 \/ n \in 1 .. n BY <1>1
    <3>2. QED BY <1>1, <1>5, <3>1
  <2>1. SUFFICES ASSUME n + 1 \in 1 .. m PROVE FALSE
    <3> HIDE DEF n, m
    <3>1. QED BY <1>1, <2>a
  <2>2. PICK y \in 1 .. n : f[y] = g[n + 1] BY <1>2, <2>1
  <2>3. g[y] < g[n + 1] /\ g[y] = g[n + 1] /\ g[y] \in Int
    <3>1. y \in 1 .. m /\ y < n + 1 BY <1>1, <1>5
    <3>2. QED BY <1>2, <1>5, <2>1, <2>2, <3>1
  <2>4. QED BY <2>3
<1>7. \A k \in 1 .. n : q[k] = r[k] BY <1>2, <1>5
<1> HIDE DEF n, m
<1>8. QED BY <1>1, <1>6, <1>7 DEF n, m

\* What one list has in some places, and then another in some of its own.
LEMMA TakesBoth ==
  ASSUME NEW S, NEW s \in Seq(S), NEW t \in Seq(S),
         NEW D \in SUBSET (DOMAIN s), NEW E \in SUBSET (DOMAIN t),
         NEW q \in Seq(S), NEW r \in Seq(S), NEW f, Takes(f, q, s, D), NEW g, Takes(g, r, t, E)
  PROVE  \E h : Takes(h, q \o r, s \o t, D \cup {Len(s) + e : e \in E})
<1> DEFINE n == Len(q)
           m == Len(r)
           l == Len(s)
           F == D \cup {l + e : e \in E}
           h == [k \in 1 .. n + m |-> IF k <= n THEN f[k] ELSE l + g[k - n]]
           u == s \o t
           v == q \o r
<1>1. n \in Nat /\ m \in Nat /\ l \in Nat /\ Len(t) \in Nat /\ DOMAIN s = 1 .. l /\ DOMAIN t = 1 .. Len(t) OBVIOUS
<1>2. Len(v) = n + m /\ \A k \in 1 .. n + m : v[k] = IF k <= n THEN q[k] ELSE r[k - n] OBVIOUS
<1>3. \A k \in 1 .. l + Len(t) : u[k] = IF k <= l THEN s[k] ELSE t[k - l] OBVIOUS
<1>4. /\ \A k \in 1 .. n : f[k] \in D /\ f[k] \in 1 .. l /\ q[k] = s[f[k]]
      /\ \A k \in 1 .. m : g[k] \in E /\ g[k] \in 1 .. Len(t) /\ r[k] = t[g[k]]
      /\ \A a \in D : \E k \in 1 .. n : f[k] = a
      /\ \A a \in E : \E k \in 1 .. m : g[k] = a
      /\ \A j, k \in 1 .. n : j < k => f[j] < f[k]
      /\ \A j, k \in 1 .. m : j < k => g[j] < g[k]
  BY <1>1 DEF Takes
<1> HIDE DEF n, m, l, u, v
<1>5. ASSUME NEW k \in 1 .. n + m
      PROVE  h[k] \in F /\ v[k] = u[h[k]] /\ h[k] \in Int /\ (k <= n => h[k] <= l) /\ (k > n => h[k] > l)
  <2>1. CASE k <= n
    <3>1. k \in 1 .. n /\ f[k] \in 1 .. l BY <1>1, <1>4, <2>1
    <3>a. h[k] = f[k] /\ v[k] = q[k] BY <1>2, <2>1
    <3>b. f[k] \in D /\ q[k] = s[f[k]] BY <1>4, <3>1
    <3>c. f[k] \in 1 .. l + Len(t) /\ f[k] <= l BY <1>1, <3>1
    <3>d. u[f[k]] = s[f[k]] BY <1>3, <3>c
    <3>2. h[k] = f[k] /\ f[k] \in D /\ v[k] = q[k] /\ q[k] = s[f[k]] /\ u[f[k]] = s[f[k]] BY <3>a, <3>b, <3>d
    <3>3. QED BY <1>1, <2>1, <3>1, <3>2
  <2>2. CASE k > n
    <3>1. k - n \in 1 .. m /\ g[k - n] \in 1 .. Len(t) BY <1>1, <1>4, <2>2
    <3>2. h[k] = l + g[k - n] /\ g[k - n] \in E /\ v[k] = r[k - n] /\ r[k - n] = t[g[k - n]]
      BY <1>1, <1>2, <1>4, <2>2, <3>1
    <3>3. l + g[k - n] \in 1 .. l + Len(t) /\ (l + g[k - n]) - l = g[k - n] /\ l + g[k - n] > l BY <1>1, <3>1
    <3>4. u[l + g[k - n]] = t[g[k - n]] BY <1>1, <1>3, <3>3
    <3>5. QED BY <1>1, <2>2, <3>2, <3>3, <3>4
  <2>3. QED BY <1>1, <2>1, <2>2
<1>6. ASSUME NEW a \in F PROVE \E k \in 1 .. n + m : h[k] = a
  <2>1. CASE a \in D
    <3>1. PICK k \in 1 .. n : f[k] = a BY <1>4, <2>1
    <3>2. k \in 1 .. n + m /\ h[k] = a BY <1>1, <3>1
    <3>3. QED BY <3>2
  <2>2. ASSUME NEW e \in E, a = l + e PROVE \E k \in 1 .. n + m : h[k] = a
    <3>1. PICK k \in 1 .. m : g[k] = e BY <1>4
    <3>2. k + n \in 1 .. n + m /\ ~(k + n <= n) /\ (k + n) - n = k BY <1>1
    <3>3. h[k + n] = a BY <2>2, <3>1, <3>2
    <3>4. QED BY <3>2, <3>3
  <2>3. QED BY <2>1, <2>2
<1>7. ASSUME NEW j \in 1 .. n + m, NEW k \in 1 .. n + m, j < k PROVE h[j] < h[k]
  <2>1. CASE k <= n
    <3>1. j \in 1 .. n /\ k \in 1 .. n BY <1>1, <1>7, <2>1
    <3>2. QED BY <1>4, <1>7, <3>1
  <2>2. CASE j > n
    <3>1. j - n \in 1 .. m /\ k - n \in 1 .. m /\ j - n < k - n BY <1>1, <1>7, <2>2
    <3>2. g[j - n] < g[k - n] /\ g[j - n] \in Int /\ g[k - n] \in Int BY <1>1, <1>4, <3>1
    <3>3. h[j] = l + g[j - n] /\ h[k] = l + g[k - n] BY <1>1, <1>7, <2>2
    <3>4. QED BY <1>1, <3>2, <3>3
  <2>3. CASE j <= n /\ k > n
    <3>1. h[j] <= l /\ h[k] > l /\ h[j] \in Int /\ h[k] \in Int BY <1>5, <2>3
    <3>2. QED BY <1>1, <3>1
  <2>4. QED BY <1>1, <2>1, <2>2, <2>3
<1>8. h \in [1 .. n + m -> F] BY <1>5
<1> HIDE DEF h, F
<1>9. Takes(h, v, u, F) BY <1>2, <1>5, <1>6, <1>7, <1>8 DEF Takes
<1>10. \E x : Takes(x, v, u, F) BY <1>9
<1>11. QED BY <1>10 DEF F, v, u, l

Carries(f, E, F) == (\A e \in E : f[e] \in F) /\ \A a \in F : \E e \in E : f[e] = a

\* Taking from what was taken.
LEMMA TakesOfTakes ==
  ASSUME NEW S, NEW q \in Seq(S), NEW r \in Seq(S), NEW s, NEW D \in SUBSET Int, NEW E \in SUBSET (DOMAIN q),
         NEW f, Takes(f, q, s, D), NEW g, Takes(g, r, q, E),
         NEW F, Carries(f, E, F)
  PROVE  \E h : Takes(h, r, s, F)
<1> DEFINE h == [k \in 1 .. Len(r) |-> f[g[k]]]
<1>1. DOMAIN q = 1 .. Len(q) /\ Len(q) \in Nat /\ Len(r) \in Nat OBVIOUS
<1>2. /\ \A k \in 1 .. Len(q) : f[k] \in D /\ f[k] \in Int /\ q[k] = s[f[k]]
      /\ \A j, k \in 1 .. Len(q) : j < k => f[j] < f[k]
      /\ \A k \in 1 .. Len(r) : g[k] \in E /\ g[k] \in 1 .. Len(q) /\ r[k] = q[g[k]]
      /\ \A a \in E : \E k \in 1 .. Len(r) : g[k] = a
      /\ \A j, k \in 1 .. Len(r) : j < k => g[j] < g[k]
  BY <1>1 DEF Takes
<1>0. (\A e \in E : f[e] \in F) /\ \A a \in F : \E e \in E : f[e] = a BY DEF Carries
<1>3. \A k \in 1 .. Len(r) : h[k] = f[g[k]] /\ h[k] \in F /\ r[k] = s[h[k]] BY <1>0, <1>2
<1>4. \A a \in F : \E k \in 1 .. Len(r) : h[k] = a
  <2>1. TAKE a \in F
  <2>2. PICK e \in E : f[e] = a BY <1>0
  <2>3. PICK k \in 1 .. Len(r) : g[k] = e BY <1>2
  <2>4. h[k] = a BY <1>3, <2>2, <2>3
  <2>5. QED BY <2>4
<1>5. \A j, k \in 1 .. Len(r) : j < k => h[j] < h[k] BY <1>2, <1>3
<1>6. h \in [1 .. Len(r) -> F] BY <1>3
<1> HIDE DEF h
<1>7. Takes(h, r, s, F) BY <1>3, <1>4, <1>5, <1>6 DEF Takes
<1>8. QED BY <1>7

\* Taking before or after each member is replaced is the same.
LEMMA TakesReplaced ==
  ASSUME NEW r, NEW s, NEW D \in SUBSET (DOMAIN s), NEW f, Takes(f, r, s, D), NEW x, NEW y,
         Len(x) = Len(r), \A k \in 1 .. Len(r) : x[k] = y[f[k]]
  PROVE  Takes(f, x, y, D)
BY DEF Takes

-----------------------------------------------------------------------------
(* Sums, as runs.                                                          *)

\* A sum as the run over its list.
SumRun(t, q) ==
  /\ t \in [0 .. Len(q) -> Int] /\ t[0] = 0 /\ t[Len(q)] = SumOf(q)
  /\ \A k \in 1 .. Len(q) : t[k] = t[k - 1] + q[k]

\* SumOf is the last value of a run over the list.
LEMMA SumRuns == ASSUME NEW q \in Seq(Int) PROVE \E t : SumRun(t, q)
<1> DEFINE n == Len(q)
           F == [p \in Int \X (1 .. n) |-> p[1] + q[p[2]]]
           Step(h) == h = [s \in SUBSET (1 .. n) |-> IF s = {} THEN 0 ELSE h[s \ {Max(s)}] + q[Max(s)]]
           it == CHOOSE h : Step(h)
<1>1. n \in Nat /\ DOMAIN q = 1 .. n /\ 0 \in Int /\ F \in [Int \X (1 .. n) -> Int] OBVIOUS
<1>2. \E h : Step(h)
  <2>1. PICK h \in [SUBSET (1 .. n) -> Int] : Computed(h, n, 0, F)
    <3> HIDE DEF F, n
    <3>1. QED BY <1>1, SubsetRecursion
  <2>2. ASSUME NEW s \in SUBSET (1 .. n), s # {} PROVE h[s] = h[s \ {Max(s)}] + q[Max(s)]
    <3>1. Max(s) \in 1 .. n /\ h[s \ {Max(s)}] \in Int BY <1>1, <2>2, LargestMember
    <3>2. QED BY <2>1, <2>2, <3>1 DEF Computed
  <2>3. Step(h) BY <2>1, <2>2 DEF Computed
  <2>4. QED BY <2>3
<1>3. Step(it) BY <1>2
<1>4. SumOf(q) = it[1 .. n] BY <1>1 DEF SumOf, FoldLeft, MapThenFoldSet
<1> HIDE DEF it
<1>5. it[{}] = 0 BY <1>3
<1>6. \A s \in SUBSET (1 .. n) : s # {} /\ it[s \ {Max(s)}] \in Int => it[s] = F[<<it[s \ {Max(s)}], Max(s)>>]
  <2> SUFFICES ASSUME NEW s \in SUBSET (1 .. n), s # {}, it[s \ {Max(s)}] \in Int
               PROVE  it[s] = F[<<it[s \ {Max(s)}], Max(s)>>]
    OBVIOUS
  <2>1. Max(s) \in 1 .. n BY <1>1, LargestMember
  <2>2. QED BY <1>3, <2>1
<1>a. StepsIn(Int, it, n, 0, F) BY <1>5, <1>6 DEF StepsIn
<1>7. PICK t : IsRun(t, Int, n, 0, F, it[1 .. n])
  <2> HIDE DEF F, n
  <2>1. QED BY <1>1, <1>a, RunOfSubsets
<1>8. ASSUME NEW k \in 1 .. n PROVE t[k] = t[k - 1] + q[k]
  <2>1. t[k - 1] \in Int BY <1>1, <1>7 DEF IsRun
  <2>2. QED BY <1>7, <2>1 DEF IsRun
<1>9. SumRun(t, q) BY <1>4, <1>7, <1>8 DEF SumRun, IsRun
<1>10. QED BY <1>9

-----------------------------------------------------------------------------
(* Sums over some of the places, over groups of them, and over joined lists. *)

\* w is what the numbers of q are together, in any places.
SumsUp(w, q) ==
  /\ w \in [SUBSET (DOMAIN q) -> Int] /\ w[{}] = 0 /\ w[DOMAIN q] = SumOf(q)
  /\ \A D \in SUBSET (DOMAIN q), a \in DOMAIN q : a \notin D => w[D \cup {a}] = w[D] + q[a]

\* The sum of the numbers of q in the places D.
SumIn(q, D) == (CHOOSE w : SumsUp(w, q))[D]

LEMMA SumsExist == ASSUME NEW q \in Seq(Int) PROVE \E w : SumsUp(w, q)
<1> DEFINE n == Len(q)
           F == [p \in Int \X (1 .. n) |-> p[1] + q[p[2]]]
           Step(h) == h = [s \in SUBSET (1 .. n) |-> IF s = {} THEN 0 ELSE h[s \ {Max(s)}] + q[Max(s)]]
           it == CHOOSE h : Step(h)
           P == {m \in 0 .. n : \A D \in SUBSET (1 .. m) :
                   it[D] \in Int /\ \A a \in 1 .. m : a \notin D => it[D \cup {a}] = it[D] + q[a]}
<1>1. n \in Nat /\ DOMAIN q = 1 .. n /\ 0 \in Int /\ F \in [Int \X (1 .. n) -> Int] /\ \A a \in 1 .. n : q[a] \in Int
  OBVIOUS
<1>2. \E h : Step(h)
  <2>1. PICK h \in [SUBSET (1 .. n) -> Int] : Computed(h, n, 0, F)
    <3> HIDE DEF F, n
    <3>1. QED BY <1>1, SubsetRecursion
  <2>2. ASSUME NEW s \in SUBSET (1 .. n), s # {} PROVE h[s] = h[s \ {Max(s)}] + q[Max(s)]
    <3>1. Max(s) \in 1 .. n /\ h[s \ {Max(s)}] \in Int BY <1>1, <2>2, LargestMember
    <3>2. QED BY <2>1, <2>2, <3>1 DEF Computed
  <2>3. Step(h) BY <2>1, <2>2 DEF Computed
  <2>4. QED BY <2>3
<1>3. Step(it) BY <1>2
<1>4. SumOf(q) = it[1 .. n] BY <1>1 DEF SumOf, FoldLeft, MapThenFoldSet
<1> HIDE DEF it
<1>5. it[{}] = 0 BY <1>3
<1>6. \A s \in SUBSET (1 .. n) : s # {} => it[s] = it[s \ {Max(s)}] + q[Max(s)] BY <1>3
<1>7. it = [s \in SUBSET (1 .. n) |-> it[s]] BY <1>3
<1> HIDE DEF n
<1>8. 0 \in P
  <2>1. 1 .. 0 = {} /\ 0 \in 0 .. n BY <1>1
  <2>2. \A D \in SUBSET (1 .. 0) : it[D] \in Int /\ \A a \in 1 .. 0 : a \notin D => it[D \cup {a}] = it[D] + q[a]
    <3> TAKE D \in SUBSET (1 .. 0)
    <3>1. D = {} BY <2>1
    <3>2. it[D] \in Int BY <1>5, <3>1
    <3>3. QED BY <2>1, <3>2
  <2>3. QED BY <2>1, <2>2
<1>9. ASSUME NEW m \in 1 .. n, m - 1 \in P PROVE m \in P
  <2>1. \A D \in SUBSET (1 .. m - 1) : it[D] \in Int /\ \A a \in 1 .. m - 1 : a \notin D => it[D \cup {a}] = it[D] + q[a]
    BY <1>9
  <2>2. \A D \in SUBSET (1 .. m) : m \in D => Max(D) = m /\ D \ {m} \in SUBSET (1 .. m - 1) /\ it[D] = it[D \ {m}] + q[m]
    <3> TAKE D \in SUBSET (1 .. m)
    <3>1. HAVE m \in D
    <3>2. m \in Nat /\ D # {} /\ D \in SUBSET (1 .. n) BY <1>1, <3>1
    <3>3. Max(D) \in D /\ \A k \in D : Max(D) >= k BY <3>1, <3>2, LargestMember
    <3>4. Max(D) = m
      <4>1. Max(D) >= m /\ Max(D) \in 1 .. m BY <3>1, <3>3
      <4>2. QED BY <4>1
    <3>5. it[D] = it[D \ {m}] + q[m] BY <1>6, <3>2, <3>4
    <3>6. D \ {m} \in SUBSET (1 .. m - 1) OBVIOUS
    <3>7. QED BY <3>4, <3>5, <3>6
  <2>3. \A D \in SUBSET (1 .. m) : m \notin D => D \in SUBSET (1 .. m - 1) OBVIOUS
  <2>4. \A D \in SUBSET (1 .. m) : it[D] \in Int
    <3> TAKE D \in SUBSET (1 .. m)
    <3>1. CASE m \in D
      <4>1. it[D \ {m}] \in Int /\ q[m] \in Int /\ it[D] = it[D \ {m}] + q[m] BY <1>1, <2>1, <2>2, <3>1
      <4>2. QED BY <4>1
    <3>2. CASE m \notin D BY <2>1, <2>3, <3>2
    <3>3. QED BY <3>1, <3>2
  <2>5. ASSUME NEW D \in SUBSET (1 .. m), NEW a \in 1 .. m, a \notin D PROVE it[D \cup {a}] = it[D] + q[a]
    <3>1. CASE a = m
      <4>1. D \cup {m} \in SUBSET (1 .. m) /\ m \in D \cup {m} /\ (D \cup {m}) \ {m} = D BY <2>5, <3>1
      <4>2. it[D \cup {m}] = it[D] + q[m] BY <2>2, <4>1
      <4>3. QED BY <3>1, <4>2
    <3>2. CASE a # m /\ m \in D
      <4> DEFINE E == D \ {m}
      <4>1. E \in SUBSET (1 .. m - 1) /\ a \in 1 .. m - 1 /\ a \notin E /\ it[D] = it[E] + q[m] BY <2>2, <2>5, <3>2
      <4>2. it[E \cup {a}] = it[E] + q[a] BY <2>1, <4>1
      <4>3. D \cup {a} \in SUBSET (1 .. m) /\ m \in D \cup {a} /\ (D \cup {a}) \ {m} = E \cup {a} BY <3>2
      <4>4. it[D \cup {a}] = it[E \cup {a}] + q[m] BY <2>2, <4>3
      <4>5. it[E] \in Int /\ q[a] \in Int /\ q[m] \in Int BY <1>1, <2>1, <4>1
      <4> HIDE DEF E
      <4>6. QED BY <4>1, <4>2, <4>4, <4>5
    <3>3. CASE a # m /\ m \notin D
      <4>1. a \in 1 .. m - 1 BY <3>3
      <4>2. QED BY <2>1, <2>3, <2>5, <3>3, <4>1
    <3>4. QED BY <3>1, <3>2, <3>3
  <2>6. m \in 0 .. n BY <1>1
  <2>7. QED BY <2>4, <2>5, <2>6
<1>10. \A m \in 0 .. n : m \in P
  <2> HIDE DEF P
  <2>1. QED BY <1>1, <1>8, <1>9, UpTo
<1>11. n \in P
  <2> HIDE DEF P
  <2>1. n \in 0 .. n BY <1>1
  <2>2. QED BY <1>10, <2>1
<1>12. /\ \A D \in SUBSET (1 .. n) : it[D] \in Int
       /\ \A D \in SUBSET (1 .. n), a \in 1 .. n : a \notin D => it[D \cup {a}] = it[D] + q[a]
  BY <1>11
<1>13. SumsUp(it, q) BY <1>1, <1>4, <1>5, <1>7, <1>12 DEF SumsUp
<1>14. QED BY <1>13

LEMMA OverPlaces ==
  ASSUME NEW q \in Seq(Int)
  PROVE  /\ SumIn(q, {}) = 0 /\ SumIn(q, DOMAIN q) = SumOf(q)
         /\ \A D \in SUBSET (DOMAIN q) : SumIn(q, D) \in Int
         /\ \A D \in SUBSET (DOMAIN q), a \in DOMAIN q : a \notin D => SumIn(q, D \cup {a}) = SumIn(q, D) + q[a]
<1> DEFINE w == CHOOSE h : SumsUp(h, q)
<1>1. SumsUp(w, q) BY SumsExist
<1>2. \A D : SumIn(q, D) = w[D] BY DEF SumIn
<1> HIDE DEF w
<1>3. /\ w \in [SUBSET (DOMAIN q) -> Int] /\ w[{}] = 0 /\ w[DOMAIN q] = SumOf(q)
      /\ \A D \in SUBSET (DOMAIN q), a \in DOMAIN q : a \notin D => w[D \cup {a}] = w[D] + q[a]
  BY <1>1 DEF SumsUp
<1>4. \A D \in SUBSET (DOMAIN q) : w[D] \in Int BY <1>3
<1>5. SumIn(q, {}) = 0 /\ SumIn(q, DOMAIN q) = SumOf(q) /\ \A D \in SUBSET (DOMAIN q) : SumIn(q, D) \in Int
  BY <1>2, <1>3, <1>4
<1>6. ASSUME NEW D \in SUBSET (DOMAIN q), NEW a \in DOMAIN q, a \notin D PROVE SumIn(q, D \cup {a}) = SumIn(q, D) + q[a]
  <2>1. SumIn(q, D \cup {a}) = w[D \cup {a}] /\ SumIn(q, D) = w[D] BY <1>2
  <2>2. w[D \cup {a}] = w[D] + q[a] BY <1>3, <1>6
  <2>3. QED BY <2>1, <2>2
<1>7. QED BY <1>5, <1>6

\* The places of D among the first k.
Upto(D, k) == {d \in D : d <= k}

LEMMA UptoSteps ==
  ASSUME NEW n \in Nat, NEW D \in SUBSET (1 .. n)
  PROVE  /\ Upto(D, 0) = {} /\ Upto(D, n) = D
         /\ \A k \in 1 .. n : /\ k \notin Upto(D, k - 1) /\ Upto(D, k) \in SUBSET D /\ Upto(D, k - 1) \in SUBSET D
                              /\ Upto(D, k) = IF k \in D THEN Upto(D, k - 1) \cup {k} ELSE Upto(D, k - 1)
<1>1. Upto(D, 0) = {} /\ Upto(D, n) = D
  <2>1. \A d \in D : ~(d <= 0) /\ d <= n OBVIOUS
  <2>2. QED BY <2>1 DEF Upto
<1>2. ASSUME NEW k \in 1 .. n
      PROVE  /\ k \notin Upto(D, k - 1) /\ Upto(D, k) \in SUBSET D /\ Upto(D, k - 1) \in SUBSET D
             /\ Upto(D, k) = IF k \in D THEN Upto(D, k - 1) \cup {k} ELSE Upto(D, k - 1)
  <2>1. k \notin Upto(D, k - 1) /\ Upto(D, k) \in SUBSET D /\ Upto(D, k - 1) \in SUBSET D BY DEF Upto
  <2>2. \A d \in D : d <= k <=> (d <= k - 1 \/ d = k) OBVIOUS
  <2>3. Upto(D, k) = IF k \in D THEN Upto(D, k - 1) \cup {k} ELSE Upto(D, k - 1) BY <2>2 DEF Upto
  <2>4. QED BY <2>1, <2>3
<1>3. QED BY <1>1, <1>2

\* f carries the places D to E, one to one, and each number with its place.
Moves(f, p, D, q, E) ==
  /\ Carries(f, D, E)
  /\ \A c, d \in D : f[c] = f[d] => c = d
  /\ \A d \in D : q[f[d]] = p[d]

LEMMA OverMoved ==
  ASSUME NEW p \in Seq(Int), NEW q \in Seq(Int), NEW D \in SUBSET (DOMAIN p), NEW E \in SUBSET (DOMAIN q),
         NEW f, Moves(f, p, D, q, E)
  PROVE  SumIn(p, D) = SumIn(q, E)
<1> DEFINE n == Len(p)
           Im(k) == {f[d] : d \in Upto(D, k)}
           P == {k \in 0 .. n : SumIn(p, Upto(D, k)) = SumIn(q, Im(k))}
<1>1. n \in Nat /\ DOMAIN p = 1 .. n OBVIOUS
<1>2. /\ \A e \in D : f[e] \in E /\ f[e] \in DOMAIN q /\ q[f[e]] = p[e]
      /\ \A a \in E : \E e \in D : f[e] = a
      /\ \A c, d \in D : f[c] = f[d] => c = d
  BY DEF Moves, Carries
<1> HIDE DEF n
<1>3. /\ Upto(D, 0) = {} /\ Upto(D, n) = D
      /\ \A k \in 1 .. n : /\ k \notin Upto(D, k - 1) /\ Upto(D, k) \in SUBSET D /\ Upto(D, k - 1) \in SUBSET D
                           /\ Upto(D, k) = IF k \in D THEN Upto(D, k - 1) \cup {k} ELSE Upto(D, k - 1)
  BY <1>1, UptoSteps
<1>4. 0 \in P
  <2>1. Im(0) = {} /\ 0 \in 0 .. n BY <1>1, <1>3
  <2>2. SumIn(p, {}) = 0 /\ SumIn(q, {}) = 0 BY OverPlaces
  <2> HIDE DEF Im
  <2>3. QED BY <1>3, <2>1, <2>2
<1>5. ASSUME NEW k \in 1 .. n, k - 1 \in P PROVE k \in P
  <2> DEFINE A == Upto(D, k - 1)
  <2>1. A \in SUBSET D /\ k \notin A /\ Upto(D, k) = IF k \in D THEN A \cup {k} ELSE A BY <1>3
  <2>2. SumIn(p, A) = SumIn(q, Im(k - 1)) /\ k \in 0 .. n BY <1>1, <1>5
  <2> HIDE DEF A
  <2>3. Im(k - 1) = {f[d] : d \in A} BY DEF A
  <2>4. CASE k \notin D BY <2>1, <2>2, <2>3, <2>4
  <2>5. CASE k \in D
    <3>1. Im(k) = {f[d] : d \in A} \cup {f[k]} BY <2>1, <2>5
    <3>2. f[k] \notin {f[d] : d \in A}
      <4>1. ASSUME NEW d \in A PROVE f[k] # f[d]
        <5>1. d \in D /\ d # k BY <2>1
        <5>2. QED BY <1>2, <2>5, <5>1
      <4>2. QED BY <4>1
    <3>3. {f[d] : d \in A} \in SUBSET (DOMAIN q) BY <1>2, <2>1
    <3> DEFINE G == {f[d] : d \in A}
    <3> HIDE DEF G
    <3>4. SumIn(q, G \cup {f[k]}) = SumIn(q, G) + q[f[k]]
      <4>1. G \in SUBSET (DOMAIN q) /\ f[k] \in DOMAIN q /\ f[k] \notin G BY <1>2, <2>5, <3>2, <3>3 DEF G
      <4>2. QED BY <4>1, OverPlaces
    <3>5. SumIn(p, A \cup {k}) = SumIn(p, A) + p[k] BY <2>1, <2>5, OverPlaces
    <3>6. SumIn(p, Upto(D, k)) = SumIn(q, Im(k))
      <4> HIDE DEF Im
      <4>1. QED BY <1>2, <2>1, <2>2, <2>3, <2>5, <3>1, <3>4, <3>5 DEF G
    <3>7. QED BY <2>2, <3>6
  <2>6. QED BY <2>4, <2>5
<1>6. \A k \in 0 .. n : k \in P
  <2> HIDE DEF P
  <2>1. QED BY <1>1, <1>4, <1>5, UpTo
<1>7. n \in P
  <2> HIDE DEF P
  <2>1. n \in 0 .. n BY <1>1
  <2>2. QED BY <1>6, <2>1
<1>8. Im(n) = E
  <2>1. Im(n) = {f[d] : d \in D} BY <1>3
  <2>2. \A d \in D : f[d] \in E BY <1>2
  <2>3. \A a \in E : a \in {f[d] : d \in D}
    <3> TAKE a \in E
    <3>1. PICK d \in D : f[d] = a BY <1>2
    <3>2. QED BY <3>1
  <2>4. {f[d] : d \in D} = E BY <2>2, <2>3
  <2>5. QED BY <2>1, <2>4
<1>9. QED BY <1>3, <1>7, <1>8

LEMMA OverJoined ==
  ASSUME NEW q \in Seq(Int), NEW D \in SUBSET (DOMAIN q), NEW E \in SUBSET (DOMAIN q), D \cap E = {}
  PROVE  SumIn(q, D \cup E) = SumIn(q, D) + SumIn(q, E)
<1> DEFINE n == Len(q)
           P == {k \in 0 .. n : SumIn(q, D \cup Upto(E, k)) = SumIn(q, D) + SumIn(q, Upto(E, k))}
<1>1. n \in Nat /\ DOMAIN q = 1 .. n /\ \A k \in DOMAIN q : q[k] \in Int OBVIOUS
<1> HIDE DEF n
<1>2. /\ Upto(E, 0) = {} /\ Upto(E, n) = E
      /\ \A k \in 1 .. n : /\ k \notin Upto(E, k - 1) /\ Upto(E, k) \in SUBSET E /\ Upto(E, k - 1) \in SUBSET E
                           /\ Upto(E, k) = IF k \in E THEN Upto(E, k - 1) \cup {k} ELSE Upto(E, k - 1)
  BY <1>1, UptoSteps
<1>3. 0 \in P
  <2>1. SumIn(q, {}) = 0 /\ SumIn(q, D) \in Int /\ D \cup {} = D BY OverPlaces
  <2>2. SumIn(q, D \cup {}) = SumIn(q, D) + SumIn(q, {}) BY <2>1
  <2>3. 0 \in 0 .. n BY <1>1
  <2>4. QED BY <1>2, <2>2, <2>3
<1>4. ASSUME NEW k \in 1 .. n, k - 1 \in P PROVE k \in P
  <2> DEFINE A == Upto(E, k - 1)
  <2>1. A \in SUBSET E /\ k \notin A /\ Upto(E, k) = IF k \in E THEN A \cup {k} ELSE A BY <1>2
  <2>2. SumIn(q, D \cup A) = SumIn(q, D) + SumIn(q, A) /\ k \in 0 .. n BY <1>1, <1>4
  <2> HIDE DEF A
  <2>3. CASE k \notin E BY <2>1, <2>2, <2>3
  <2>4. CASE k \in E
    <3>1. /\ A \in SUBSET (DOMAIN q) /\ k \in DOMAIN q /\ k \notin A
          /\ D \cup A \in SUBSET (DOMAIN q) /\ k \notin D \cup A
      BY <2>1, <2>4
    <3>2. SumIn(q, A \cup {k}) = SumIn(q, A) + q[k] /\ SumIn(q, A) \in Int /\ SumIn(q, D) \in Int BY <3>1, OverPlaces
    <3> DEFINE F == D \cup A
    <3> HIDE DEF F
    <3>3. SumIn(q, F \cup {k}) = SumIn(q, F) + q[k]
      <4>1. F \in SUBSET (DOMAIN q) /\ k \in DOMAIN q /\ k \notin F BY <3>1 DEF F
      <4>2. QED BY <4>1, OverPlaces
    <3>4. D \cup (A \cup {k}) = F \cup {k} BY DEF F
    <3>5. SumIn(q, F) = SumIn(q, D) + SumIn(q, A) /\ q[k] \in Int BY <1>1, <2>2, <3>1 DEF F
    <3>a. SumIn(q, D \cup (A \cup {k})) = SumIn(q, F \cup {k}) BY <3>4
    <3>b. SumIn(q, F \cup {k}) = SumIn(q, D) + (SumIn(q, A) + q[k]) BY <3>2, <3>3, <3>5
    <3>6. SumIn(q, D \cup (A \cup {k})) = SumIn(q, D) + SumIn(q, A \cup {k}) BY <3>2, <3>a, <3>b
    <3>7. SumIn(q, D \cup Upto(E, k)) = SumIn(q, D) + SumIn(q, Upto(E, k)) BY <2>1, <2>4, <3>6
    <3>8. QED BY <2>2, <3>7
  <2>5. QED BY <2>3, <2>4
<1>5. \A k \in 0 .. n : k \in P
  <2> HIDE DEF P
  <2>1. QED BY <1>1, <1>3, <1>4, UpTo
<1>6. n \in P
  <2> HIDE DEF P
  <2>1. n \in 0 .. n BY <1>1
  <2>2. QED BY <1>5, <2>1
<1>7. QED BY <1>2, <1>6

LEMMA OverZero ==
  ASSUME NEW q \in Seq(Int), NEW D \in SUBSET (DOMAIN q), \A d \in D : q[d] = 0
  PROVE  SumIn(q, D) = 0
<1> DEFINE n == Len(q)
           P == {k \in 0 .. n : SumIn(q, Upto(D, k)) = 0}
<1>1. n \in Nat /\ DOMAIN q = 1 .. n OBVIOUS
<1> HIDE DEF n
<1>2. /\ Upto(D, 0) = {} /\ Upto(D, n) = D
      /\ \A k \in 1 .. n : /\ k \notin Upto(D, k - 1) /\ Upto(D, k) \in SUBSET D /\ Upto(D, k - 1) \in SUBSET D
                           /\ Upto(D, k) = IF k \in D THEN Upto(D, k - 1) \cup {k} ELSE Upto(D, k - 1)
  BY <1>1, UptoSteps
<1>3. 0 \in P
  <2>1. SumIn(q, {}) = 0 BY OverPlaces
  <2>2. Upto(D, 0) = {} BY <1>2
  <2>3. 0 \in 0 .. n BY <1>1
  <2>4. SumIn(q, Upto(D, 0)) = 0 BY <2>1, <2>2
  <2>5. QED BY <2>3, <2>4
<1>4. ASSUME NEW k \in 1 .. n, k - 1 \in P PROVE k \in P
  <2> DEFINE A == Upto(D, k - 1)
  <2>1. A \in SUBSET D /\ k \notin A /\ Upto(D, k) = IF k \in D THEN A \cup {k} ELSE A BY <1>2
  <2>2. SumIn(q, A) = 0 /\ k \in 0 .. n BY <1>1, <1>4
  <2> HIDE DEF A
  <2>3. CASE k \notin D BY <2>1, <2>2, <2>3
  <2>4. CASE k \in D
    <3>1. A \in SUBSET (DOMAIN q) /\ k \in DOMAIN q /\ k \notin A /\ q[k] = 0 BY <2>1, <2>4
    <3>2. SumIn(q, A \cup {k}) = SumIn(q, A) + q[k] BY <3>1, OverPlaces
    <3>3. SumIn(q, Upto(D, k)) = 0 BY <2>1, <2>2, <2>4, <3>1, <3>2
    <3>4. QED BY <2>2, <3>3
  <2>5. QED BY <2>3, <2>4
<1>5. \A k \in 0 .. n : k \in P
  <2> HIDE DEF P
  <2>1. QED BY <1>1, <1>3, <1>4, UpTo
<1>6. n \in P
  <2> HIDE DEF P
  <2>1. n \in 0 .. n BY <1>1
  <2>2. QED BY <1>5, <2>1
<1>7. QED BY <1>2, <1>6

\* A number that is not in the places D counts as 0.
LEMMA OverSelected ==
  ASSUME NEW p \in Seq(Int), NEW q \in Seq(Int), DOMAIN p = DOMAIN q, NEW D \in SUBSET (DOMAIN q),
         \A k \in DOMAIN q : p[k] = IF k \in D THEN q[k] ELSE 0
  PROVE  SumOf(p) = SumIn(q, D)
<1> DEFINE E == (DOMAIN q) \ D
           f == [k \in D |-> k]
<1>1. D \in SUBSET (DOMAIN p) /\ E \in SUBSET (DOMAIN p) /\ D \cap E = {} /\ D \cup E = DOMAIN p OBVIOUS
<1>2. SumIn(p, D \cup E) = SumIn(p, D) + SumIn(p, E)
  <2> HIDE DEF E
  <2>1. QED BY <1>1, OverJoined
<1>3. SumIn(p, E) = 0
  <2>1. \A k \in E : p[k] = 0 OBVIOUS
  <2> HIDE DEF E
  <2>2. QED BY <1>1, <2>1, OverZero
<1>4. SumIn(p, D) = SumIn(q, D)
  <2>1. Moves(f, p, D, q, D)
    <3>1. \A k \in D : f[k] = k /\ q[k] = p[k] OBVIOUS
    <3> HIDE DEF f
    <3>2. QED BY <3>1 DEF Moves, Carries
  <2> HIDE DEF f
  <2>2. QED BY <1>1, <2>1, OverMoved
<1>5. SumIn(p, DOMAIN p) = SumOf(p) /\ SumIn(p, D) \in Int BY <1>1, OverPlaces
<1> HIDE DEF E
<1>6. QED BY <1>1, <1>2, <1>3, <1>4, <1>5

LEMMA SumOfMoved ==
  ASSUME NEW p \in Seq(Int), NEW q \in Seq(Int), NEW f, Moves(f, p, DOMAIN p, q, DOMAIN q)
  PROVE  SumOf(p) = SumOf(q)
<1>1. SumIn(p, DOMAIN p) = SumIn(q, DOMAIN q) BY OverMoved
<1>2. QED BY <1>1, OverPlaces

\* The numbers that were taken from q.
LEMMA SumOfTaken ==
  ASSUME NEW p \in Seq(Int), NEW q \in Seq(Int), NEW D \in SUBSET (DOMAIN q), NEW f, Takes(f, p, q, D)
  PROVE  SumOf(p) = SumIn(q, D)
<1>1. DOMAIN p = 1 .. Len(p) /\ Len(p) \in Nat /\ D \subseteq Int
  <2>1. DOMAIN q = 1 .. Len(q) OBVIOUS
  <2>2. QED BY <2>1
<1>2. /\ \A k \in DOMAIN p : f[k] \in D /\ p[k] = q[f[k]]
      /\ \A a \in D : \E k \in DOMAIN p : f[k] = a
      /\ \A j, k \in DOMAIN p : j < k => f[j] < f[k]
  BY <1>1 DEF Takes
<1>3. \A j, k \in DOMAIN p : f[j] = f[k] => j = k
  <2> TAKE j, k \in DOMAIN p
  <2>1. HAVE f[j] = f[k]
  <2>2. f[j] \in Int /\ f[k] \in Int /\ j \in Int /\ k \in Int BY <1>1, <1>2
  <2>3. ~(j < k) /\ ~(k < j) BY <1>2, <2>1, <2>2
  <2>4. QED BY <2>2, <2>3
<1>4. Moves(f, p, DOMAIN p, q, D) BY <1>2, <1>3 DEF Moves, Carries
<1>5. SumIn(p, DOMAIN p) = SumIn(q, D) BY <1>4, OverMoved
<1>6. QED BY <1>5, OverPlaces

LEMMA SumOfJoined ==
  ASSUME NEW p \in Seq(Int), NEW q \in Seq(Int)
  PROVE  SumOf(p \o q) = SumOf(p) + SumOf(q)
<1> DEFINE n == Len(p)
           m == Len(q)
           r == p \o q
           D == 1 .. n
           E == n + 1 .. n + m
           f == [k \in D |-> k]
           g == [k \in 1 .. m |-> n + k]
<1>1. /\ n \in Nat /\ m \in Nat /\ DOMAIN p = 1 .. n /\ DOMAIN q = 1 .. m
      /\ r \in Seq(Int) /\ DOMAIN r = 1 .. n + m
      /\ (\A k \in 1 .. n : r[k] = p[k]) /\ \A k \in 1 .. m : r[n + k] = q[k]
  OBVIOUS
<1> HIDE DEF n, m, r
<1>2. D \in SUBSET (DOMAIN r) /\ E \in SUBSET (DOMAIN r) /\ D \cap E = {} /\ D \cup E = DOMAIN r BY <1>1
<1>3. SumIn(p, DOMAIN p) = SumIn(r, D)
  <2>1. Moves(f, p, DOMAIN p, r, D)
    <3>1. \A k \in D : f[k] = k /\ r[k] = p[k] BY <1>1
    <3>2. DOMAIN p = D BY <1>1
    <3> HIDE DEF f, D
    <3>3. QED BY <3>1, <3>2 DEF Moves, Carries
  <2> HIDE DEF f, D, E
  <2>2. r \in Seq(Int) /\ D \in SUBSET (DOMAIN r) /\ DOMAIN p \in SUBSET (DOMAIN p) BY <1>1, <1>2
  <2>3. QED BY <2>1, <2>2, OverMoved
<1>4. SumIn(q, DOMAIN q) = SumIn(r, E)
  <2>1. Moves(g, q, DOMAIN q, r, E)
    <3>1. \A k \in 1 .. m : g[k] = n + k /\ r[n + k] = q[k] /\ n + k \in E BY <1>1
    <3>2. \A e \in E : \E k \in 1 .. m : n + k = e
      <4> TAKE e \in E
      <4>1. e - n \in 1 .. m /\ n + (e - n) = e BY <1>1
      <4>2. QED BY <4>1
    <3>3. \A j, k \in 1 .. m : n + j = n + k => j = k BY <1>1
    <3> HIDE DEF g, E
    <3>4. Carries(g, DOMAIN q, E)
      <4>1. \A k \in DOMAIN q : g[k] \in E BY <1>1, <3>1
      <4>2. \A e \in E : \E k \in DOMAIN q : g[k] = e
        <5> TAKE e \in E
        <5>1. PICK k \in 1 .. m : n + k = e BY <3>2
        <5>2. QED BY <1>1, <3>1, <5>1
      <4>3. QED BY <4>1, <4>2 DEF Carries
    <3>5. DOMAIN q = 1 .. m BY <1>1
    <3>6. \A j, k \in 1 .. m : g[j] = g[k] => j = k
      <4> TAKE j, k \in 1 .. m
      <4> HAVE g[j] = g[k]
      <4>1. n + j = n + k BY <3>1
      <4>2. QED BY <4>1, <3>3
    <3>7. \A k \in 1 .. m : r[g[k]] = q[k]
      <4> TAKE k \in 1 .. m
      <4>1. g[k] = n + k /\ r[n + k] = q[k] BY <3>1
      <4>2. QED BY <4>1
    <3>8. QED BY <3>4, <3>5, <3>6, <3>7 DEF Moves
  <2> HIDE DEF g, D, E
  <2>2. r \in Seq(Int) /\ E \in SUBSET (DOMAIN r) /\ q \in Seq(Int) /\ DOMAIN q \in SUBSET (DOMAIN q) BY <1>1, <1>2
  <2>3. QED BY ONLY <2>1, <2>2, OverMoved
<1> HIDE DEF D, E
<1>5. SumIn(r, D \cup E) = SumIn(r, D) + SumIn(r, E) BY <1>1, <1>2, OverJoined
<1>6. SumIn(r, DOMAIN r) = SumOf(r) /\ SumIn(p, DOMAIN p) = SumOf(p) /\ SumIn(q, DOMAIN q) = SumOf(q)
  BY <1>1, OverPlaces
<1>7. QED BY <1>2, <1>3, <1>4, <1>5, <1>6 DEF r

LEMMA SumOfOnes ==
  ASSUME NEW q \in Seq(Int), \A k \in DOMAIN q : q[k] = 1
  PROVE  SumOf(q) = Len(q)
<1>1. PICK t : SumRun(t, q) BY SumRuns
<1> DEFINE n == Len(q)
           P == {k \in 0 .. n : t[k] = k}
<1>2. n \in Nat /\ DOMAIN q = 1 .. n OBVIOUS
<1>3. t[0] = 0 /\ t[n] = SumOf(q) /\ \A k \in 1 .. n : t[k] = t[k - 1] + q[k] BY <1>1 DEF SumRun
<1> HIDE DEF n
<1>4. 0 \in P BY <1>2, <1>3
<1>5. ASSUME NEW k \in 1 .. n, k - 1 \in P PROVE k \in P
  <2>1. q[k] = 1 /\ t[k - 1] = k - 1 /\ t[k] = t[k - 1] + q[k] BY <1>2, <1>3, <1>5
  <2>2. QED BY <1>2, <2>1
<1>6. \A k \in 0 .. n : k \in P
  <2> HIDE DEF P
  <2>1. QED BY <1>2, <1>4, <1>5, UpTo
<1>7. n \in P
  <2> HIDE DEF P
  <2>1. n \in 0 .. n BY <1>2
  <2>2. QED BY <1>6, <2>1
<1>8. QED BY <1>3, <1>7 DEF n

\* The keys K tell the groups of c apart, and leave none out.
Groups(K, c) ==
  /\ K \in Seq(Range(K)) /\ \A g, h \in DOMAIN K : K[g] = K[h] => g = h
  /\ \A k \in DOMAIN c : \E g \in DOMAIN K : K[g] = c[k]

\* A sum, group by group.
LEMMA SumOfGroups ==
  ASSUME NEW q \in Seq(Int), NEW K, NEW c, DOMAIN c = DOMAIN q, Groups(K, c),
         NEW x \in Seq(Int), DOMAIN x = DOMAIN K,
         \A g \in DOMAIN K : x[g] = SumIn(q, {k \in DOMAIN q : c[k] = K[g]})
  PROVE  SumOf(x) = SumOf(q)
<1> DEFINE m == Len(K)
           U(g) == {k \in DOMAIN q : \E h \in 1 .. g : c[k] = K[h]}
           P == {g \in 0 .. m : SumIn(x, 1 .. g) = SumIn(q, U(g))}
<1>1. m \in Nat /\ DOMAIN K = 1 .. m BY DEF Groups
<1> HIDE DEF m
<1>2. /\ \A g, h \in 1 .. m : K[g] = K[h] => g = h
      /\ \A k \in DOMAIN q : \E g \in 1 .. m : K[g] = c[k]
  BY <1>1 DEF Groups
<1>3. 0 \in P
  <2>1. U(0) = {} /\ 1 .. 0 = {} /\ 0 \in 0 .. m BY <1>1
  <2>2. SumIn(x, {}) = 0 /\ SumIn(q, {}) = 0 BY OverPlaces
  <2> HIDE DEF U
  <2>3. QED BY <2>1, <2>2
<1>4. ASSUME NEW g \in 1 .. m, g - 1 \in P PROVE g \in P
  <2> DEFINE A == U(g - 1)
             G == {k \in DOMAIN q : c[k] = K[g]}
             H == 1 .. g - 1
  <2>1. SumIn(x, H) = SumIn(q, A) /\ g \in 0 .. m BY <1>1, <1>4
  <2>2. 1 .. g = H \cup {g} /\ g \notin H /\ H \in SUBSET (DOMAIN x) /\ g \in DOMAIN x BY <1>1
  <2>3. U(g) = A \cup G
    <3>1. \A h \in 1 .. g : h \in 1 .. g - 1 \/ h = g OBVIOUS
    <3>2. g \in 1 .. g /\ \A h \in 1 .. g - 1 : h \in 1 .. g OBVIOUS
    <3>3. QED BY <3>1, <3>2
  <2>4. A \cap G = {}
    <3>1. ASSUME NEW k \in A, k \in G PROVE FALSE
      <4>1. PICK h \in 1 .. g - 1 : c[k] = K[h] OBVIOUS
      <4>2. K[h] = K[g] /\ h \in 1 .. m /\ h # g BY <1>1, <3>1, <4>1
      <4>3. QED BY <1>2, <4>2
    <3> HIDE DEF A, G
    <3>2. QED BY <3>1
  <2>5. A \in SUBSET (DOMAIN q) /\ G \in SUBSET (DOMAIN q) OBVIOUS
  <2>6. x[g] = SumIn(q, G) BY <1>1
  <2> HIDE DEF A, G, H
  <2>7. SumIn(q, A \cup G) = SumIn(q, A) + SumIn(q, G) BY <2>4, <2>5, OverJoined
  <2>8. SumIn(x, H \cup {g}) = SumIn(x, H) + x[g] BY <2>2, OverPlaces
  <2>9. SumIn(x, 1 .. g) = SumIn(q, U(g))
    <3> HIDE DEF U
    <3>1. QED BY <2>1, <2>2, <2>3, <2>6, <2>7, <2>8
  <2>10. QED BY <2>1, <2>9
<1>5. \A g \in 0 .. m : g \in P
  <2> HIDE DEF P
  <2>1. QED BY <1>1, <1>3, <1>4, UpTo
<1>6. m \in P
  <2> HIDE DEF P
  <2>1. m \in 0 .. m BY <1>1
  <2>2. QED BY <1>5, <2>1
<1>7. U(m) = DOMAIN q
  <2>1. \A k \in DOMAIN q : \E h \in 1 .. m : c[k] = K[h] BY <1>2
  <2>2. QED BY <2>1
<1>8. SumIn(x, DOMAIN x) = SumIn(q, DOMAIN q)
  <2> HIDE DEF U
  <2>1. SumIn(x, 1 .. m) = SumIn(q, U(m)) BY <1>6
  <2>2. QED BY <1>1, <1>7, <2>1
<1>9. QED BY <1>8, OverPlaces

\* The members of s by their weights.
Weigh(v, s) == [k \in DOMAIN s |-> v[s[k]]]
Sums(v, s) == SumOf(Weigh(v, s))

LEMMA Weights ==
  ASSUME NEW S, NEW v \in [S -> Int], NEW s \in Seq(S)
  PROVE  /\ Weigh(v, s) \in Seq(Int) /\ DOMAIN Weigh(v, s) = DOMAIN s /\ Len(Weigh(v, s)) = Len(s)
         /\ \A k \in DOMAIN s : Weigh(v, s)[k] = v[s[k]] /\ v[s[k]] \in Int
<1>1. DOMAIN s = 1 .. Len(s) /\ Len(s) \in Nat /\ \A k \in DOMAIN s : v[s[k]] \in Int OBVIOUS
<1>2. Weigh(v, s) \in [1 .. Len(s) -> Int] BY <1>1 DEF Weigh
<1>3. Weigh(v, s) \in Seq(Int) /\ Len(Weigh(v, s)) = Len(s) BY <1>1, <1>2
<1>4. DOMAIN Weigh(v, s) = DOMAIN s /\ \A k \in DOMAIN s : Weigh(v, s)[k] = v[s[k]] BY DEF Weigh
<1>5. QED BY <1>1, <1>3, <1>4

LEMMA SumsJoined ==
  ASSUME NEW S, NEW v \in [S -> Int], NEW s \in Seq(S), NEW t \in Seq(S)
  PROVE  Sums(v, s \o t) = Sums(v, s) + Sums(v, t)
<1> DEFINE p == Weigh(v, s)
           q == Weigh(v, t)
           r == Weigh(v, s \o t)
           u == s \o t
<1>1. /\ u \in Seq(S) /\ Len(u) = Len(s) + Len(t) /\ Len(s) \in Nat /\ Len(t) \in Nat
      /\ DOMAIN s = 1 .. Len(s) /\ DOMAIN t = 1 .. Len(t) /\ DOMAIN u = 1 .. Len(s) + Len(t)
      /\ \A k \in 1 .. Len(s) + Len(t) : u[k] = IF k <= Len(s) THEN s[k] ELSE t[k - Len(s)]
  OBVIOUS
<1>2. /\ p \in Seq(Int) /\ Len(p) = Len(s) /\ \A k \in DOMAIN s : p[k] = v[s[k]]
      /\ q \in Seq(Int) /\ Len(q) = Len(t) /\ \A k \in DOMAIN t : q[k] = v[t[k]]
  BY Weights
<1>3. r = Weigh(v, u) OBVIOUS
<1> HIDE DEF p, q, r, u
<1>4. r \in Seq(Int) /\ Len(r) = Len(u) /\ \A k \in DOMAIN u : r[k] = v[u[k]]
  <2>1. u \in Seq(S) BY <1>1
  <2>2. Weigh(v, u) \in Seq(Int) /\ Len(Weigh(v, u)) = Len(u) BY <2>1, Weights
  <2>3. \A k \in DOMAIN u : Weigh(v, u)[k] = v[u[k]] BY DEF Weigh
  <2>4. QED BY <1>3, <2>2, <2>3
<1>5. ASSUME NEW k \in 1 .. Len(s) + Len(t) PROVE r[k] = (p \o q)[k]
  <2>1. (p \o q)[k] = IF k <= Len(s) THEN p[k] ELSE q[k - Len(s)]
    <3>1. p \in Seq(Int) /\ q \in Seq(Int) /\ k \in 1 .. Len(p) + Len(q) BY <1>2
    <3>2. (p \o q)[k] = IF k <= Len(p) THEN p[k] ELSE q[k - Len(p)] BY ONLY <3>1
    <3>3. QED BY <1>2, <3>2
  <2>2. r[k] = v[u[k]] /\ u[k] = IF k <= Len(s) THEN s[k] ELSE t[k - Len(s)] BY <1>1, <1>4
  <2>3. CASE k <= Len(s)
    <3>1. k \in DOMAIN s BY <1>1, <2>3
    <3>2. QED BY <1>2, <2>1, <2>2, <2>3, <3>1
  <2>4. CASE ~(k <= Len(s))
    <3>1. k - Len(s) \in DOMAIN t BY <1>1, <2>4
    <3>2. QED BY <1>2, <2>1, <2>2, <2>4, <3>1
  <2>5. QED BY <2>3, <2>4
<1>6. r = p \o q
  <2>a. p \in Seq(Int) /\ q \in Seq(Int) /\ Len(p) = Len(s) /\ Len(q) = Len(t) BY <1>2
  <2>1. p \o q \in Seq(Int) /\ Len(p \o q) = Len(s) + Len(t) BY <2>a
  <2> DEFINE w == p \o q
  <2> HIDE DEF w
  <2>2. /\ w \in Seq(Int) /\ Len(w) = Len(s) + Len(t) /\ r \in Seq(Int) /\ Len(r) = Len(s) + Len(t)
        /\ \A k \in 1 .. Len(s) + Len(t) : r[k] = w[k]
    BY <1>1, <1>4, <1>5, <2>1 DEF w
  <2>3. r = w BY <2>2
  <2>4. QED BY <2>3 DEF w
<1>7. SumOf(r) = SumOf(p) + SumOf(q) BY <1>2, <1>6, SumOfJoined
<1>8. QED BY <1>7 DEF Sums, p, q, r

LEMMA SumsOfFew ==
  ASSUME NEW S, NEW v \in [S -> Int]
  PROVE  /\ Sums(v, <<>>) = 0
         /\ \A x \in S : Sums(v, <<x>>) = v[x]
         /\ \A x, y \in S : Sums(v, <<x, y>>) = v[x] + v[y]
<1>1. Sums(v, <<>>) = 0
  <2>1. <<>> \in Seq(S) /\ <<>> \in Seq(Int) /\ DOMAIN <<>> = {} OBVIOUS
  <2>2. Weigh(v, <<>>) = <<>> BY <2>1 DEF Weigh
  <2> DEFINE q == <<>>
  <2>3. q \in Seq(Int) /\ DOMAIN q = {} BY <2>1
  <2>6. Sums(v, <<>>) = SumOf(q) BY <2>2 DEF Sums
  <2> HIDE DEF q
  <2>4. SumIn(q, {}) = 0 /\ SumIn(q, DOMAIN q) = SumOf(q) BY <2>3, OverPlaces
  <2>5. SumOf(q) = 0 BY <2>3, <2>4
  <2>7. QED BY <2>5, <2>6
<1>2. ASSUME NEW x \in S PROVE Sums(v, <<x>>) = v[x]
  <2> DEFINE q == Weigh(v, <<x>>)
  <2>1. <<x>> \in Seq(S) /\ DOMAIN <<x>> = {1} /\ <<x>>[1] = x OBVIOUS
  <2> DEFINE e == <<x>>
  <2>a. e \in Seq(S) /\ DOMAIN e = {1} /\ e[1] = x /\ q = Weigh(v, e) BY <2>1
  <2> HIDE DEF e, q
  <2>b. Weigh(v, e) \in Seq(Int) /\ DOMAIN Weigh(v, e) = DOMAIN e /\ \A k \in DOMAIN e : Weigh(v, e)[k] = v[e[k]] /\ v[e[k]] \in Int
    BY <2>a, Weights
  <2>2. q \in Seq(Int) /\ DOMAIN q = {1} /\ q[1] = v[x] /\ v[x] \in Int BY <2>a, <2>b
  <2>3. {} \in SUBSET (DOMAIN q) /\ 1 \in DOMAIN q /\ 1 \notin {} /\ {} \cup {1} = DOMAIN q BY <2>2
  <2>4. SumIn(q, {} \cup {1}) = SumIn(q, {}) + q[1] /\ SumIn(q, {}) = 0 /\ SumIn(q, DOMAIN q) = SumOf(q)
    BY <2>2, <2>3, OverPlaces
  <2>5. SumOf(q) = v[x] BY <2>2, <2>3, <2>4
  <2>6. QED BY <2>5 DEF Sums, q
<1>3. ASSUME NEW x \in S, NEW y \in S PROVE Sums(v, <<x, y>>) = v[x] + v[y]
  <2>a. <<x>> \in Seq(S) /\ <<y>> \in Seq(S) /\ <<x, y>> \in Seq(S) OBVIOUS
  <2> DEFINE z == <<x>> \o <<y>>
             e == <<x, y>>
  <2>b. z \in Seq(S) /\ Len(z) = 2 /\ z[1] = x /\ z[2] = y BY <2>a
  <2>c. e \in Seq(S) /\ Len(e) = 2 /\ e[1] = x /\ e[2] = y BY <2>a
  <2> HIDE DEF z, e
  <2>d. \A k \in 1 .. 2 : k = 1 \/ k = 2 OBVIOUS
  <2>e. \A k \in 1 .. 2 : e[k] = z[k] BY <2>b, <2>c, <2>d
  <2>f. e = z BY <2>b, <2>c, <2>e
  <2>1. <<x>> \in Seq(S) /\ <<y>> \in Seq(S) /\ <<x, y>> = <<x>> \o <<y>> BY <2>a, <2>f DEF e, z
  <2>2. Sums(v, <<x>> \o <<y>>) = Sums(v, <<x>>) + Sums(v, <<y>>) BY <2>1, SumsJoined
  <2>3. QED BY <1>2, <2>1, <2>2
<1>4. QED BY <1>1, <1>2, <1>3

\* What is kept, by its weights, and how much that is.
LEMMA SumsTaken ==
  ASSUME NEW S, NEW v \in [S -> Int], NEW s \in Seq(S), NEW D \in SUBSET (DOMAIN s)
  PROVE  Sums(v, Arranged(s, D, InPlace(D))) = SumIn(Weigh(v, s), D)
<1> DEFINE r == Arranged(s, D, InPlace(D))
           q == Weigh(v, s)
           p == Weigh(v, r)
<1>1. r \in Seq(S) /\ \E f : Takes(f, r, s, D) BY ArrangedInPlace
<1>2. PICK f : Takes(f, r, s, D) BY <1>1
<1> HIDE DEF r
<1>3. /\ q \in Seq(Int) /\ DOMAIN q = DOMAIN s /\ \A k \in DOMAIN s : q[k] = v[s[k]] /\ v[s[k]] \in Int
      /\ p \in Seq(Int) /\ Len(p) = Len(r) /\ DOMAIN r = 1 .. Len(r) /\ \A k \in DOMAIN r : p[k] = v[r[k]]
  BY <1>1, Weights
<1> HIDE DEF p, q
<1>4. Takes(f, p, q, D)
  <2>1. /\ f \in [1 .. Len(r) -> D] /\ (\A a \in D : \E k \in 1 .. Len(r) : f[k] = a)
        /\ (\A j, k \in 1 .. Len(r) : j < k => f[j] < f[k]) /\ \A k \in 1 .. Len(r) : r[k] = s[f[k]]
    BY <1>2 DEF Takes
  <2>2. \A k \in 1 .. Len(r) : p[k] = q[f[k]]
    <3> TAKE k \in 1 .. Len(r)
    <3>1. f[k] \in DOMAIN s /\ r[k] = s[f[k]] /\ p[k] = v[r[k]] BY <1>3, <2>1
    <3>2. QED BY <1>3, <3>1
  <2>3. QED BY <1>3, <2>1, <2>2 DEF Takes
<1>5. SumOf(p) = SumIn(q, D) BY <1>3, <1>4, SumOfTaken
<1>6. QED BY <1>5 DEF Sums, p, q, r

\* The weights of what D takes of s, and 0 elsewhere.
Chosen(v, s, D) == [k \in DOMAIN s |-> IF k \in D THEN v[s[k]] ELSE 0]

LEMMA SumsKept ==
  ASSUME NEW S, NEW v \in [S -> Int], NEW s \in Seq(S), NEW D \in SUBSET (DOMAIN s)
  PROVE  Sums(v, Arranged(s, D, InPlace(D))) = SumOf(Chosen(v, s, D))
<1> DEFINE q == Weigh(v, s)
           z == [k \in DOMAIN s |-> IF k \in D THEN v[s[k]] ELSE 0]
<1>3. q \in Seq(Int) /\ DOMAIN q = DOMAIN s /\ \A k \in DOMAIN s : q[k] = v[s[k]] /\ v[s[k]] \in Int BY Weights
<1>5. Sums(v, Arranged(s, D, InPlace(D))) = SumIn(q, D) BY SumsTaken
<1> HIDE DEF q
<1>6. SumOf(z) = SumIn(q, D)
  <2>1. DOMAIN s = 1 .. Len(s) /\ Len(s) \in Nat OBVIOUS
  <2>2. z \in [1 .. Len(s) -> Int] BY <1>3, <2>1
  <2>3. z \in Seq(Int) /\ DOMAIN z = DOMAIN q BY <1>3, <2>1, <2>2
  <2>4. \A k \in DOMAIN q : z[k] = IF k \in D THEN q[k] ELSE 0 BY <1>3
  <2> HIDE DEF z
  <2>5. D \in SUBSET (DOMAIN q) BY <1>3
  <2>6. QED BY <1>3, <2>3, <2>4, <2>5, OverSelected
<1>7. QED BY <1>5, <1>6 DEF Chosen

\* The joined lists as the run over them.
FlatRun(t, S, ss) ==
  /\ t \in [0 .. Len(ss) -> Seq(S)] /\ t[0] = <<>> /\ t[Len(ss)] = FlattenSeq(ss)
  /\ \A k \in 1 .. Len(ss) : t[k] = t[k - 1] \o ss[k]

LEMMA FlatRuns ==
  ASSUME NEW S, NEW ss \in Seq(Seq(S))
  PROVE  \E t : FlatRun(t, S, ss)
<1> DEFINE n == Len(ss)
           A == Seq(S)
           F == [p \in A \X (1 .. n) |-> p[1] \o ss[p[2]]]
           Step(h) == h = [k \in 1 .. n |-> IF k = 1 THEN ss[k] ELSE h[k - 1] \o ss[k]]
           it == CHOOSE h : Step(h)
<1>1. n \in Nat /\ DOMAIN ss = 1 .. n /\ (\A k \in 1 .. n : ss[k] \in A) /\ <<>> \in A OBVIOUS
<1>2. F \in [A \X (1 .. n) -> A]
  <2>1. \A r \in A, k \in 1 .. n : r \o ss[k] \in A
    <3> TAKE r \in A, k \in 1 .. n
    <3>1. ss[k] \in Seq(S) BY <1>1
    <3>2. QED BY <3>1
  <2> HIDE DEF A
  <2>2. QED BY <2>1
<1>3. PICK h \in [SUBSET (1 .. n) -> A] : Computed(h, n, <<>>, F)
  <2> HIDE DEF A, n, F
  <2>1. QED BY <1>1, <1>2, SubsetRecursion
<1>4. StepsIn(A, h, n, <<>>, F)
  <2> HIDE DEF A, n, F
  <2>1. h[{}] = <<>> BY <1>3 DEF Computed
  <2>2. \A s \in SUBSET (1 .. n) : s # {} => h[s] = F[<<h[s \ {Max(s)}], Max(s)>>] BY <1>3 DEF Computed
  <2>3. QED BY <2>1, <2>2 DEF StepsIn
<1>5. PICK t : IsRun(t, A, n, <<>>, F, h[1 .. n])
  <2> HIDE DEF A, n, F
  <2>1. QED BY <1>1, <1>2, <1>4, RunOfSubsets
<1>6. t \in [0 .. n -> A] /\ t[0] = <<>> /\ \A k \in 1 .. n : t[k] = t[k - 1] \o ss[k]
  <2>1. t \in [0 .. n -> A] /\ t[0] = <<>> /\ \A k \in 1 .. n : t[k] = F[<<t[k - 1], k>>] BY <1>5 DEF IsRun
  <2>2. ASSUME NEW k \in 1 .. n PROVE t[k] = t[k - 1] \o ss[k]
    <3>1. k - 1 \in 0 .. n BY <1>1
    <3>2. t[k - 1] \in A /\ t[k] = F[<<t[k - 1], k>>] BY <2>1, <3>1
    <3> HIDE DEF A
    <3>3. QED BY <3>2
  <2>3. QED BY <2>1, <2>2
<1> HIDE DEF F
<1>7. t[n] = FlattenSeq(ss)
  <2>1. CASE n = 0
    <3>1. ss = <<>> BY <1>1, <2>1
    <3>2. FlattenSeq(ss) = ss BY <2>1 DEF FlattenSeq
    <3>3. QED BY <1>6, <2>1, <3>1, <3>2
  <2>2. CASE n # 0
    <3> DEFINE g == [k \in 1 .. n |-> t[k]]
               P == {k \in 0 .. n : k = 0 \/ it[k] = t[k]}
    <3>a. FlattenSeq(ss) = it[n] BY <2>2 DEF FlattenSeq
    <3>1. ss[1] = <<>> \o ss[1] /\ 1 \in 1 .. n BY <1>1, <2>2
    <3>2. ASSUME NEW k \in 1 .. n PROVE g[k] = IF k = 1 THEN ss[k] ELSE g[k - 1] \o ss[k]
      <4>1. CASE k = 1
        <5>1. t[1] = t[1 - 1] \o ss[1] BY <1>6, <3>1
        <5>2. t[1 - 1] = <<>> BY <1>6
        <5>3. t[1] = ss[1] BY <3>1, <5>1, <5>2
        <5>4. QED BY <4>1, <5>3
      <4>2. CASE k # 1
        <5>1. k - 1 \in 1 .. n BY <1>1, <4>2
        <5>2. QED BY <1>6, <4>2, <5>1
      <4>3. QED BY <4>1, <4>2
    <3>3. Step(g) BY <3>2
    <3>4. Step(it) BY <3>3
    <3> HIDE DEF it
    <3>5. \A k \in 1 .. n : it[k] = IF k = 1 THEN ss[k] ELSE it[k - 1] \o ss[k] BY <3>4
    <3> HIDE DEF n, g, A
    <3>6. 0 \in P BY <1>1
    <3>7. ASSUME NEW k \in 1 .. n, k - 1 \in P PROVE k \in P
      <4>1. CASE k = 1
        <5>1. it[1] = ss[1] BY <3>1, <3>5
        <5>2. g[1] = ss[1] BY <3>1, <3>2
        <5>3. g[1] = t[1] BY <3>1 DEF g
        <5>4. k \in 0 .. n /\ it[k] = t[k] BY <1>1, <4>1, <5>1, <5>2, <5>3
        <5>5. QED BY <5>4
      <4>2. CASE k # 1
        <5>1. it[k - 1] = t[k - 1] /\ k \in 0 .. n BY <1>1, <3>7, <4>2
        <5>2. QED BY <1>6, <3>5, <4>2, <5>1
      <4>3. QED BY <4>1, <4>2
    <3>8. \A k \in 0 .. n : k \in P
      <4> HIDE DEF P
      <4>1. QED BY <1>1, <3>6, <3>7, UpTo
    <3>9. n \in P
      <4> HIDE DEF P
      <4>1. n \in 0 .. n BY <1>1
      <4>2. QED BY <3>8, <4>1
    <3>10. QED BY <2>2, <3>9, <3>a
  <2>3. QED BY <2>1, <2>2
<1>8. FlatRun(t, S, ss) BY <1>6, <1>7 DEF FlatRun
<1>9. QED BY <1>8

LEMMA FlatList ==
  ASSUME NEW S, NEW ss \in Seq(Seq(S))
  PROVE  FlattenSeq(ss) \in Seq(S)
<1>1. PICK t : FlatRun(t, S, ss) BY FlatRuns
<1>2. Len(ss) \in 0 .. Len(ss)
  <2>1. Len(ss) \in Nat OBVIOUS
  <2>2. QED BY <2>1
<1>3. QED BY <1>1, <1>2 DEF FlatRun

\* A sum over joined lists is that of their sums.
LEMMA SumsFlattened ==
  ASSUME NEW S, NEW v \in [S -> Int], NEW ss \in Seq(Seq(S))
  PROVE  Sums(v, FlattenSeq(ss)) = SumOf([k \in DOMAIN ss |-> Sums(v, ss[k])])
<1> DEFINE n == Len(ss)
           x == [k \in DOMAIN ss |-> Sums(v, ss[k])]
<1>1. n \in Nat /\ DOMAIN ss = 1 .. n /\ \A k \in 1 .. n : ss[k] \in Seq(S) OBVIOUS
<1>2. \A s \in Seq(S) : Sums(v, s) \in Int
  <2> TAKE s \in Seq(S)
  <2>1. Weigh(v, s) \in Seq(Int) BY Weights
  <2>2. SumIn(Weigh(v, s), DOMAIN Weigh(v, s)) \in Int /\ SumIn(Weigh(v, s), DOMAIN Weigh(v, s)) = SumOf(Weigh(v, s))
    BY <2>1, OverPlaces
  <2>3. QED BY <2>2 DEF Sums
<1>3. x \in [1 .. n -> Int] /\ \A k \in 1 .. n : x[k] = Sums(v, ss[k]) BY <1>1, <1>2
<1> HIDE DEF x, n
<1>4. x \in Seq(Int) /\ Len(x) = n BY <1>1, <1>3
<1>5. PICK t : FlatRun(t, S, ss) BY FlatRuns
<1>6. PICK w : SumRun(w, x) BY <1>4, SumRuns
<1> USE DEF n
<1>7. /\ t \in [0 .. n -> Seq(S)] /\ t[0] = <<>> /\ t[n] = FlattenSeq(ss)
      /\ \A k \in 1 .. n : t[k] = t[k - 1] \o ss[k]
  BY <1>5 DEF FlatRun
<1>8. w[0] = 0 /\ w[n] = SumOf(x) /\ \A k \in 1 .. n : w[k] = w[k - 1] + x[k] BY <1>4, <1>6 DEF SumRun
<1> DEFINE P == {k \in 0 .. n : Sums(v, t[k]) = w[k]}
<1> HIDE DEF n
<1>9. 0 \in P
  <2>1. Sums(v, <<>>) = 0 BY SumsOfFew
  <2>2. QED BY <1>1, <1>7, <1>8, <2>1
<1>10. ASSUME NEW k \in 1 .. n, k - 1 \in P PROVE k \in P
  <2>1. k - 1 \in 0 .. n /\ k \in 0 .. n BY <1>1
  <2>2. t[k - 1] \in Seq(S) /\ ss[k] \in Seq(S) BY <1>1, <1>7, <2>1
  <2>3. Sums(v, t[k - 1] \o ss[k]) = Sums(v, t[k - 1]) + Sums(v, ss[k]) BY <2>2, SumsJoined
  <2>4. Sums(v, t[k]) = w[k] BY <1>3, <1>7, <1>8, <1>10, <2>3
  <2>5. QED BY <2>1, <2>4
<1>11. \A k \in 0 .. n : k \in P
  <2> HIDE DEF P
  <2>1. QED BY <1>1, <1>9, <1>10, UpTo
<1>12. n \in P
  <2> HIDE DEF P
  <2>1. n \in 0 .. n BY <1>1
  <2>2. QED BY <1>11, <2>1
<1>13. Sums(v, FlattenSeq(ss)) = SumOf(x) BY <1>7, <1>8, <1>12
<1>14. QED BY <1>13 DEF x

LEMMA SumOfZeros ==
  ASSUME NEW q \in Seq(Int), \A k \in DOMAIN q : q[k] = 0
  PROVE  SumOf(q) = 0
<1>1. SumIn(q, DOMAIN q) = SumOf(q) BY OverPlaces
<1>2. SumIn(q, DOMAIN q) = 0 BY OverZero
<1>3. QED BY <1>1, <1>2

\* All of a sum in one place.
LEMMA SumOfSingle ==
  ASSUME NEW q \in Seq(Int), NEW k \in DOMAIN q, \A j \in DOMAIN q : j # k => q[j] = 0
  PROVE  SumOf(q) = q[k]
<1> DEFINE D == (DOMAIN q) \ {k}
<1>1. D \in SUBSET (DOMAIN q) /\ k \notin D /\ D \cup {k} = DOMAIN q /\ \A d \in D : q[d] = 0 OBVIOUS
<1> HIDE DEF D
<1>2. SumIn(q, D \cup {k}) = SumIn(q, D) + q[k] /\ SumIn(q, DOMAIN q) = SumOf(q) BY <1>1, OverPlaces
<1>3. SumIn(q, D) = 0 BY <1>1, OverZero
<1>4. q[k] \in Int OBVIOUS
<1>5. QED BY <1>1, <1>2, <1>3, <1>4

LEMMA SumOfNats ==
  ASSUME NEW q \in Seq(Nat)
  PROVE  q \in Seq(Int) /\ SumOf(q) \in Nat
<1> DEFINE n == Len(q)
           D == DOMAIN q
           P == {k \in 0 .. n : SumIn(q, Upto(D, k)) \in Nat}
<1>1. n \in Nat /\ D = 1 .. n /\ q \in Seq(Int) /\ \A k \in 1 .. n : q[k] \in Nat OBVIOUS
<1> HIDE DEF n, D
<1>0. n \in Nat /\ D \in SUBSET (1 .. n) BY <1>1
<1>2. /\ Upto(D, 0) = {} /\ Upto(D, n) = D
      /\ \A k \in 1 .. n : /\ k \notin Upto(D, k - 1) /\ Upto(D, k) \in SUBSET D /\ Upto(D, k - 1) \in SUBSET D
                           /\ Upto(D, k) = IF k \in D THEN Upto(D, k - 1) \cup {k} ELSE Upto(D, k - 1)
  BY <1>0, UptoSteps
<1>3. /\ SumIn(q, {}) = 0 /\ SumIn(q, D) = SumOf(q)
      /\ \A E \in SUBSET D, a \in D : a \notin E => SumIn(q, E \cup {a}) = SumIn(q, E) + q[a]
  BY <1>1, OverPlaces DEF D
<1>4. 0 \in P
  <2>1. SumIn(q, Upto(D, 0)) = 0
    <3>1. Upto(D, 0) = {} /\ SumIn(q, {}) = 0 BY <1>2, <1>3
    <3>2. QED BY <3>1
  <2>2. 0 \in 0 .. n BY <1>1
  <2>3. QED BY <2>1, <2>2
<1>5. ASSUME NEW k \in 1 .. n, k - 1 \in P PROVE k \in P
  <2>1. SumIn(q, Upto(D, k - 1)) \in Nat /\ q[k] \in Nat /\ k \in 0 .. n /\ k \in D BY <1>1, <1>5
  <2>2. Upto(D, k - 1) \in SUBSET D /\ k \notin Upto(D, k - 1) /\ Upto(D, k) = Upto(D, k - 1) \cup {k} BY <1>2, <2>1
  <2>3. SumIn(q, Upto(D, k)) = SumIn(q, Upto(D, k - 1)) + q[k] BY <1>3, <2>1, <2>2
  <2>4. QED BY <2>1, <2>3
<1> HIDE DEF P
<1>6. \A k \in 0 .. n : k \in P BY <1>1, <1>4, <1>5, UpTo
<1>7. n \in 0 .. n BY <1>1
<1>8. SumIn(q, Upto(D, n)) \in Nat BY <1>6, <1>7 DEF P
<1>9. QED BY <1>1, <1>2, <1>3, <1>8

\* In the list s over S, u is v at the places D that a comprehension takes, and 0 elsewhere.
Chooses(u, v, s, D, S) ==
  /\ u \in [S -> Int] /\ v \in [S -> Int] /\ s \in Seq(S) /\ D \in SUBSET (DOMAIN s)
  /\ \A k \in DOMAIN s : u[s[k]] = IF k \in D THEN v[s[k]] ELSE 0

\* What a comprehension over s sums to.
LEMMA SumsChosen ==
  ASSUME NEW S, NEW v, NEW u, NEW s, NEW D, Chooses(u, v, s, D, S)
  PROVE  Sums(v, Arranged(s, D, InPlace(D))) = Sums(u, s)
<1>1. v \in [S -> Int] /\ s \in Seq(S) /\ D \in SUBSET (DOMAIN s) BY DEF Chooses
<1>2. Sums(v, Arranged(s, D, InPlace(D))) = SumOf(Chosen(v, s, D)) BY <1>1, SumsKept
<1>3. Weigh(u, s) = Chosen(v, s, D) BY DEF Weigh, Chooses, Chosen
<1>4. Sums(u, s) = SumOf(Weigh(u, s)) BY DEF Sums
<1>5. QED BY ONLY <1>2, <1>3, <1>4

\* A list of members that all count as 0, or all as 1.
LEMMA SumsOfSame ==
  ASSUME NEW S, NEW v \in [S -> Int], NEW s \in Seq(S)
  PROVE  /\ (\A j \in DOMAIN s : v[s[j]] = 0) => Sums(v, s) = 0
         /\ (\A j \in DOMAIN s : v[s[j]] = 1) => Sums(v, s) = Len(s)
<1> DEFINE w == Weigh(v, s)
<1>1. w \in Seq(Int) /\ DOMAIN w = DOMAIN s /\ Len(w) = Len(s) /\ \A j \in DOMAIN s : w[j] = v[s[j]] BY Weights
<1> HIDE DEF w
<1>2. ASSUME \A j \in DOMAIN s : v[s[j]] = 0 PROVE SumOf(w) = 0
  <2>1. \A j \in DOMAIN w : w[j] = 0 BY <1>1, <1>2
  <2>2. QED BY <1>1, <2>1, SumOfZeros
<1>3. ASSUME \A j \in DOMAIN s : v[s[j]] = 1 PROVE SumOf(w) = Len(s)
  <2>1. \A j \in DOMAIN w : w[j] = 1 BY <1>1, <1>3
  <2>2. SumOf(w) = Len(w) BY <1>1, <2>1, SumOfOnes
  <2>3. QED BY <1>1, <2>2
<1>4. QED BY <1>2, <1>3 DEF w, Sums

\* How many it takes: u is 1 there.
LEMMA CountsChosen ==
  ASSUME NEW S, NEW u, NEW s, NEW D, Chooses(u, [x \in S |-> 1], s, D, S)
  PROVE  Len(Arranged(s, D, InPlace(D))) = Sums(u, s)
<1> DEFINE v == [x \in S |-> 1]
           r == Arranged(s, D, InPlace(D))
<1>1. v \in [S -> Int] /\ \A x \in S : v[x] = 1 OBVIOUS
<1> HIDE DEF v
<1>2. s \in Seq(S) /\ D \in SUBSET (DOMAIN s) BY DEF Chooses
<1>3. r \in Seq(S) BY <1>2, ArrangedInPlace
<1>4. Sums(v, r) = Sums(u, s) BY SumsChosen DEF v
<1> HIDE DEF r
<1>5. \A j \in DOMAIN r : v[r[j]] = 1 BY <1>1, <1>3
<1>6. Sums(v, r) = Len(r) BY <1>1, <1>3, <1>5, SumsOfSame
<1>7. QED BY <1>4, <1>6 DEF r

-----------------------------------------------------------------------------
(* What an agent is made of: references, routes, pages, prompts and tools. *)

LEMMA SignedOnce ==
  ASSUME NEW provider, NEW model, NEW key, NEW new, provider.copilot \in BOOLEAN
  PROVE  CallsAreSignedOnce(provider, model, key, new)
<1> DEFINE llm == AdkModel(provider, model, key)
<1>1. "Authorization" \notin llm.headers BY DEF AdkModel, Bare
<1>2. ASSUME Rotates(provider) PROVE CallKey(llm, new) = IF new = None THEN key ELSE new
  <2>1. provider.kind \in Prefixed BY <1>2 DEF Rotates, Prefixed
  <2>2. llm.key = key /\ llm.refresh BY <1>2, <2>1 DEF AdkModel
  <2> HIDE DEF llm
  <2>3. QED BY <2>2 DEF CallKey
<1>3. ASSUME ~Rotates(provider), llm.via = "litellm" PROVE CallKey(llm, new) = key
  <2>1. ~(provider.kind \notin Prefixed /\ ~(provider.kind = "google_gemini" /\ key # None))
    BY <1>3 DEF AdkModel, Bare
  <2>2. llm.key = key /\ llm.refresh = FALSE BY <1>3, <2>1 DEF AdkModel
  <2> HIDE DEF llm
  <2>3. QED BY <2>2 DEF CallKey
<1>4. QED BY <1>1, <1>2, <1>3 DEF CallsAreSignedOnce

LEMMA RouterHasEndpoints ==
  ASSUME NEW settings, settings.nemotron \in BOOLEAN, settings.openrouter \in BOOLEAN, NEW agent, NEW providers, NEW models
  PROVE  RulesHaveEndpoints(settings, agent, providers, models)
<1> DEFINE r == RouterOf(settings)
           c == CatalogRouter(providers, models)
<1>1. \A p \in DOMAIN r.rules : r.rules[p] \in r.endpoints BY DEF RouterOf
<1>2. Routed(r, agent) = "gemma" => settings.gemma = "served"
  <2>1. "gemma" \in r.endpoints => settings.gemma = "served" BY DEF RouterOf
  <2>2. Routed(r, agent) = "gemma" => "gemma" \in r.endpoints
    <3> HIDE DEF r
    <3>1. QED BY DEF Routed
  <2>3. QED BY <2>1, <2>2
<1>3. Routed(c, agent) = "default"
  <2>1. DOMAIN c.rules = {} BY DEF CatalogRouter
  <2> HIDE DEF c
  <2>2. QED BY <2>1 DEF Routed
<1>4. QED BY <1>1, <1>2, <1>3 DEF RulesHaveEndpoints

LEMMA PagesAreTrue ==
  ASSUME NEW file, NEW doc, doc # None => doc.heartbeat # Fails
  PROVE  PagesShowWhatIsBuilt(file, doc)
<1> DEFINE e == Effective(file, doc)
           l == Listed(file, doc)
<1> DEFINE model == IF file = None \/ LoadedModel(file, doc) = Fails THEN None ELSE LoadedModel(file, doc)
           hb == IF file = None \/ LoadedHeartbeat(file, doc) = Fails THEN None ELSE LoadedHeartbeat(file, doc)
           loaded == IF file = None THEN None ELSE LoadedBody(file, doc)
           body == IF doc # None /\ doc.body # None THEN doc.body ELSE loaded
<1> SUFFICES ASSUME file # None \/ doc # None
             PROVE  e.model = l.model /\ PagesShowWhatIsBuilt(file, doc)
  BY DEF PagesShowWhatIsBuilt
<1>1. /\ e.model = (IF doc # None /\ doc.primary \notin {None, ""} THEN doc.primary ELSE model)
      /\ e.prompt = (IF doc # None /\ doc.prompt # None THEN doc.prompt ELSE body)
      /\ e.heartbeat = (IF doc # None THEN doc.heartbeat ELSE hb)
  BY DEF Effective
<1>2. /\ l.model = (IF doc # None /\ doc.primary \notin {None, ""} THEN doc.primary ELSE model)
      /\ l.beats = (IF doc # None /\ doc.heartbeat # None THEN doc.heartbeat = "on" ELSE hb = "on")
  BY DEF Listed
<1> HIDE DEF e, l
<1>3. LoadedModel(file, doc) # Fails => e.model = LoadedModel(file, doc) BY <1>1 DEF LoadedModel
<1>4. (doc = None \/ doc.prompt # "") /\ (file # None \/ doc.body # None) => e.prompt = LoadedBody(file, doc)
  BY <1>1 DEF LoadedBody
<1>5. (doc = None \/ doc.heartbeat # None) /\ LoadedHeartbeat(file, doc) # Fails => e.heartbeat = LoadedHeartbeat(file, doc)
  BY <1>1 DEF LoadedHeartbeat
<1>6. ASSUME file # None PROVE l.beats <=> Beats(FALSE, file, doc) = "on"
  <2> DEFINE own == LoadedHeartbeat(file, doc)
  <2>1. CASE doc # None /\ doc.heartbeat # None
    <3>1. l.beats <=> doc.heartbeat = "on" BY <1>2, <2>1
    <3>2. Beats(FALSE, file, doc) = doc.heartbeat BY <1>6, <2>1 DEF Beats, LoadedHeartbeat
    <3>3. QED BY <3>1, <3>2
  <2>2. CASE ~(doc # None /\ doc.heartbeat # None)
    <3>1. l.beats <=> hb = "on" BY <1>2, <2>2
    <3>2. Beats(FALSE, file, doc) = hb BY <1>6 DEF Beats
    <3> HIDE DEF hb
    <3>3. QED BY <3>1, <3>2
  <2>3. QED BY <2>1, <2>2
<1>7. QED BY <1>1, <1>2, <1>3, <1>4, <1>5, <1>6 DEF PagesShowWhatIsBuilt, e, l

LEMMA RangeOfBoth ==
  ASSUME NEW S, NEW s \in Seq(S), NEW t \in Seq(S)
  PROVE  s \o t \in Seq(S) /\ Range(s \o t) = Range(s) \cup Range(t)
<1> DEFINE r == s \o t
<1>1. /\ r \in Seq(S) /\ Len(r) = Len(s) + Len(t)
      /\ \A k \in 1 .. Len(s) + Len(t) : r[k] = IF k <= Len(s) THEN s[k] ELSE t[k - Len(s)]
  OBVIOUS
<1>2. /\ Len(s) \in Nat /\ Len(t) \in Nat
      /\ DOMAIN s = 1 .. Len(s) /\ DOMAIN t = 1 .. Len(t) /\ DOMAIN r = 1 .. Len(s) + Len(t)
  BY <1>1
<1> HIDE DEF r
<1>3. \A k \in DOMAIN r : r[k] \in Range(s) \cup Range(t)
  <2>1. TAKE k \in DOMAIN r
  <2>2. CASE k <= Len(s) BY <1>1, <1>2, <2>2 DEF Range
  <2>3. CASE k > Len(s)
    <3>1. k - Len(s) \in 1 .. Len(t) /\ r[k] = t[k - Len(s)] BY <1>1, <1>2, <2>3
    <3>2. QED BY <1>2, <3>1 DEF Range
  <2>4. QED BY <1>2, <2>2, <2>3
<1>4. \A k \in DOMAIN s : s[k] \in Range(r) BY <1>1, <1>2 DEF Range
<1>5. \A k \in DOMAIN t : t[k] \in Range(r)
  <2>1. TAKE k \in DOMAIN t
  <2>2. k + Len(s) \in DOMAIN r /\ r[k + Len(s)] = t[k] BY <1>1, <1>2
  <2>3. QED BY <2>2 DEF Range
<1>6. QED BY <1>1, <1>3, <1>4, <1>5 DEF Range, r

LEMMA RangeOfFew ==
  ASSUME NEW a, NEW b
  PROVE  Range(<<>>) = {} /\ Range(<<a>>) = {a} /\ Range(<<a, b>>) = {a, b}
<1>1. Range(<<>>) = {} BY DEF Range
<1>2. DOMAIN <<a>> = {1} /\ <<a>>[1] = a OBVIOUS
<1>3. DOMAIN <<a, b>> = {1, 2} /\ <<a, b>>[1] = a /\ <<a, b>>[2] = b OBVIOUS
<1>4. QED BY <1>1, <1>2, <1>3 DEF Range

LEMMA FewAreList ==
  ASSUME NEW S, NEW a \in S, NEW b \in S
  PROVE  <<>> \in Seq(S) /\ <<a>> \in Seq(S) /\ <<a, b>> \in Seq(S)
<1>1. <<>> \in Seq(S) /\ <<a>> \in Seq(S) OBVIOUS
<1>2. <<a, b>> \in Seq(S) OBVIOUS
<1>3. QED BY <1>1, <1>2

LEMMA ProfileIsPrivate ==
  ASSUME NEW isFront \in BOOLEAN, NEW file, NEW doc,
         file # None => file.knowledge = None \/ file.knowledge \in BOOLEAN,
         doc # None => doc.knowledge = None \/ doc.knowledge \in BOOLEAN
  PROVE  ProfileStaysPrivate(isFront, file, doc)
<1> DEFINE U == UserKnowledge(isFront, file, doc)
           parts == PromptParts(isFront, file, doc, TRUE, TRUE)
           shown == "user" \in Range(parts)
<1>1. U \in BOOLEAN BY DEF UserKnowledge
<1>2. shown <=> U
  <2> DEFINE S == {"role", "time", "user", "personality", "memories", "skills"}
             start == <<"role", "time">>
             who == IF U THEN <<"user">> ELSE <<>>
             p == <<"personality">>
             m == <<"memories">>
             s == <<"skills">>
             a == start \o who
             b == a \o p
             c == b \o m
  <2>1. who \in Seq(S) /\ Range(who) = IF U THEN {"user"} ELSE {}
    <3>1. <<"user">> \in Seq(S) /\ <<>> \in Seq(S) BY FewAreList
    <3>2. Range(<<"user">>) = {"user"} /\ Range(<<>>) = {} BY RangeOfFew
    <3>3. QED BY <3>1, <3>2
  <2>2. parts = c \o s BY DEF PromptParts
  <2>3. start \in Seq(S) /\ Range(start) = {"role", "time"}
    <3>1. "role" \in S /\ "time" \in S OBVIOUS
    <3> HIDE DEF S
    <3>2. QED BY <3>1, FewAreList, RangeOfFew
  <2>a. \A x \in S : <<x>> \in Seq(S) /\ Range(<<x>>) = {x}
    <3> HIDE DEF S
    <3>1. QED BY FewAreList, RangeOfFew
  <2>b. /\ p \in Seq(S) /\ Range(p) = {"personality"}
        /\ m \in Seq(S) /\ Range(m) = {"memories"}
        /\ s \in Seq(S) /\ Range(s) = {"skills"}
    BY <2>a
  <2> HIDE DEF who, U, parts, start, S, p, m, s
  <2>4. a \in Seq(S) /\ Range(a) = Range(start) \cup Range(who) BY <2>1, <2>3, RangeOfBoth
  <2> HIDE DEF a
  <2>5. b \in Seq(S) /\ Range(b) = Range(a) \cup Range(p) BY <2>b, <2>4, RangeOfBoth
  <2> HIDE DEF b
  <2>6. c \in Seq(S) /\ Range(c) = Range(b) \cup Range(m) BY <2>b, <2>5, RangeOfBoth
  <2> HIDE DEF c
  <2>7. Range(parts) = Range(c) \cup Range(s) BY <2>b, <2>2, <2>6, RangeOfBoth
  <2>8. Range(parts) = {"role", "time"} \cup (IF U THEN {"user"} ELSE {}) \cup {"personality", "memories", "skills"}
    BY <2>1, <2>3, <2>b, <2>4, <2>5, <2>6, <2>7
  <2>9. QED BY <2>8
<1>3. {"user", "memories", "skills"} \cap Range(DraftParts(TRUE)) = {}
  <2> DEFINE S == {"role", "time", "personality"}
             a == <<"role", "time">>
             b == <<"personality">>
  <2>1. DraftParts(TRUE) = a \o b BY DEF DraftParts
  <2>2. a \in Seq(S) /\ Range(a) = {"role", "time"} BY FewAreList, RangeOfFew
  <2>3. b \in Seq(S) /\ Range(b) = {"personality"} BY FewAreList, RangeOfFew
  <2>4. Range(a \o b) = Range(a) \cup Range(b)
    <3> HIDE DEF S, a, b
    <3>1. QED BY <2>2, <2>3, RangeOfBoth
  <2>5. QED BY <2>1, <2>2, <2>3, <2>4
<1>4. shown => isFront \/ (file # None /\ file.knowledge = TRUE) \/ (doc # None /\ doc.knowledge = TRUE)
  BY <1>2 DEF UserKnowledge
<1>5. ASSUME doc # None, doc.knowledge # None PROVE shown = doc.knowledge
  <2>1. U = doc.knowledge BY <1>5 DEF UserKnowledge
  <2>2. shown \in BOOLEAN OBVIOUS
  <2> HIDE DEF shown, U
  <2>3. QED BY <1>1, <1>2, <2>1, <2>2
<1> HIDE DEF shown
<1>6. QED BY <1>3, <1>4, <1>5 DEF ProfileStaysPrivate, shown

\* p is one of a list's providers, in use.
IsInUse(p, providers) == \E k \in DOMAIN providers : p = providers[k] /\ p.enabled

LEMMA ProvidersInUse ==
  ASSUME NEW providers, IsList(providers)
  PROVE  InUse(providers) \in Seq(Range(providers)) /\ \A k \in DOMAIN InUse(providers) : IsInUse(InUse(providers)[k], providers)
<1> DEFINE D == {k \in DOMAIN providers : providers[k].enabled}
<1>1. InUse(providers) = Arranged(providers, D, InPlace(D)) BY DEF InUse, Kept
<1>2. D \in SUBSET (DOMAIN providers) /\ \A a \in D : providers[a].enabled OBVIOUS
<1> HIDE DEF D
<1>3. /\ InUse(providers) \in Seq(Range(providers))
      /\ \A k \in DOMAIN InUse(providers) : \E a \in D : InUse(providers)[k] = providers[a]
  BY <1>1, <1>2, ArrangedMembers DEF IsList
<1>4. QED BY <1>2, <1>3 DEF IsInUse

LEMMA LastFound ==
  ASSUME NEW S, NEW s \in Seq(S), NEW D \in SUBSET (DOMAIN s), LastOr(Arranged(s, D, InPlace(D))) # None
  PROVE  \E a \in D : LastOr(Arranged(s, D, InPlace(D))) = s[a]
<1> DEFINE r == Arranged(s, D, InPlace(D))
<1>1. r \in Seq(S) /\ \A k \in DOMAIN r : \E a \in D : r[k] = s[a]
  <2> HIDE DEF r
  <2>1. QED BY ArrangedMembers DEF r
<1> HIDE DEF r
<1>2. r # <<>> /\ LastOr(r) = r[Len(r)] BY DEF LastOr, r
<1>3. Len(r) \in DOMAIN r BY <1>1, <1>2
<1>4. QED BY <1>1, <1>2, <1>3 DEF r

LEMMA NamedIsInUse ==
  ASSUME NEW providers, IsList(providers), NEW name, ProviderNamed(providers, name) # None
  PROVE  IsInUse(ProviderNamed(providers, name), providers) /\ ProviderNamed(providers, name).name = name
<1> DEFINE s == InUse(providers)
           D == {k \in DOMAIN s : s[k].name = name}
<1>1. ProviderNamed(providers, name) = LastOr(Arranged(s, D, InPlace(D))) BY DEF ProviderNamed, Kept
<1>2. D \in SUBSET (DOMAIN s) /\ \A a \in D : s[a].name = name OBVIOUS
<1>3. s \in Seq(Range(providers)) /\ \A k \in DOMAIN s : IsInUse(s[k], providers) BY ProvidersInUse
<1> HIDE DEF s, D
<1>4. PICK a \in D : ProviderNamed(providers, name) = s[a] BY <1>1, <1>2, <1>3, LastFound
<1>5. QED BY <1>2, <1>3, <1>4

LEMMA WithIdIsInUse ==
  ASSUME NEW providers, IsList(providers), NEW id, ProviderWithId(providers, id) # None
  PROVE  IsInUse(ProviderWithId(providers, id), providers) /\ ProviderWithId(providers, id).id = id
<1> DEFINE s == InUse(providers)
           D == {k \in DOMAIN s : s[k].id = id}
<1>1. ProviderWithId(providers, id) = LastOr(Arranged(s, D, InPlace(D))) BY DEF ProviderWithId, Kept
<1>2. D \in SUBSET (DOMAIN s) /\ \A a \in D : s[a].id = id OBVIOUS
<1>3. s \in Seq(Range(providers)) /\ \A k \in DOMAIN s : IsInUse(s[k], providers) BY ProvidersInUse
<1> HIDE DEF s, D
<1>4. PICK a \in D : ProviderWithId(providers, id) = s[a] BY <1>1, <1>2, <1>3, LastFound
<1>5. QED BY <1>2, <1>3, <1>4

LEMMA FirstFound ==
  ASSUME NEW S, NEW s \in Seq(S), NEW D \in SUBSET (DOMAIN s), Arranged(s, D, InPlace(D)) # <<>>
  PROVE  \E a \in D : Arranged(s, D, InPlace(D))[1] = s[a]
<1> DEFINE r == Arranged(s, D, InPlace(D))
<1>1. r \in Seq(S) /\ \A k \in DOMAIN r : \E a \in D : r[k] = s[a]
  <2> HIDE DEF r
  <2>1. QED BY ArrangedMembers DEF r
<1> HIDE DEF r
<1>2. 1 \in DOMAIN r BY <1>1 DEF r
<1>3. QED BY <1>1, <1>2 DEF r

\* The resolved model is one of the list's, in use, of a provider in use, and is
\* named as the reference says.
Fits(name, r) ==
  /\ r.provider.enabled /\ r.model.enabled /\ r.model.provider = r.provider.id
  /\ name \in {r.model.id, r.provider.name \o r.model.id}
  /\ Len(r.model.id) > 1 => name # r.model.id

LEMMA QualifiedFits ==
  ASSUME NEW name, IsList(name), Len(name) > 1, NEW providers, IsList(providers), NEW models, IsList(models),
         \A k \in DOMAIN models : IsList(models[k].id),
         QualifiedMatch(name, providers, models) # None
  PROVE  Fits(name, QualifiedMatch(name, providers, models))
<1> DEFINE p == ProviderNamed(providers, <<name[1]>>)
           D == {k \in DOMAIN models : models[k].provider = p.id /\ models[k].enabled /\ models[k].id = Tail(name)}
           hits == Arranged(models, D, InPlace(D))
<1>1. QualifiedMatch(name, providers, models) =
        IF p = None THEN None ELSE IF hits = <<>> THEN None ELSE [provider |-> p, model |-> hits[1]]
  BY DEF QualifiedMatch, Kept
<1>2. D \in SUBSET (DOMAIN models) /\ \A a \in D : models[a].provider = p.id /\ models[a].enabled /\ models[a].id = Tail(name)
  OBVIOUS
<1>3. name = <<name[1]>> \o Tail(name) /\ Tail(name) # name
  <2>1. name \in Seq(Range(name)) /\ Len(name) > 1 BY DEF IsList
  <2>2. Len(Tail(name)) # Len(name) BY <2>1
  <2>3. name = <<name[1]>> \o Tail(name) BY <2>1
  <2>4. QED BY <2>2, <2>3
<1> HIDE DEF p, D
<1>4. p # None /\ hits # <<>> BY <1>1
<1>5. PICK a \in D : hits[1] = models[a]
  <2>1. models \in Seq(Range(models)) BY DEF IsList
  <2>2. QED BY <1>2, <1>4, <2>1, FirstFound
<1>6. p.enabled /\ p.name = <<name[1]>> BY <1>4, NamedIsInUse DEF p, IsInUse
<1> DEFINE r == [provider |-> p, model |-> hits[1]]
<1>7. r.provider = p /\ r.model = models[a] BY <1>5
<1> HIDE DEF r
<1>8. Fits(name, r) BY <1>2, <1>3, <1>6, <1>7 DEF Fits
<1>9. QED BY <1>1, <1>4, <1>8 DEF r

LEMMA BareFits ==
  ASSUME NEW name, IsList(name), Len(name) = 1, NEW providers, IsList(providers), NEW models, IsList(models),
         BareMatch(name, providers, models) # None
  PROVE  Fits(name, BareMatch(name, providers, models))
<1> DEFINE D == {k \in DOMAIN models : models[k].enabled /\ models[k].id = name /\ ProviderWithId(providers, models[k].provider) # None}
           hits == Arranged(models, D, InPlace(D))
           p == ProviderWithId(providers, hits[1].provider)
<1>1. BareMatch(name, providers, models) = IF hits = <<>> THEN None ELSE [provider |-> p, model |-> hits[1]]
  BY DEF BareMatch, Kept
<1>2. D \in SUBSET (DOMAIN models) /\ \A a \in D : models[a].enabled /\ models[a].id = name /\ ProviderWithId(providers, models[a].provider) # None
  OBVIOUS
<1> HIDE DEF D
<1>3. hits # <<>> BY <1>1
<1>4. PICK a \in D : hits[1] = models[a]
  <2>1. models \in Seq(Range(models)) BY DEF IsList
  <2>2. QED BY <1>2, <1>3, <2>1, FirstFound
<1>5. p.enabled /\ p.id = models[a].provider BY <1>2, <1>4, WithIdIsInUse DEF IsInUse
<1> HIDE DEF p
<1> DEFINE r == [provider |-> p, model |-> hits[1]]
<1>6. r.provider = p /\ r.model = models[a] BY <1>4
<1> HIDE DEF r
<1>a. r.provider.enabled /\ r.model.enabled /\ r.model.provider = r.provider.id BY <1>2, <1>5, <1>6
<1>b. r.model.id = name BY <1>2, <1>6
<1>c. name \in {r.model.id, r.provider.name \o r.model.id} BY <1>b
<1>d. ~(Len(r.model.id) > 1)
  <2>1. ~(Len(name) > 1) OBVIOUS
  <2>2. QED BY <1>b, <2>1
<1>7. Fits(name, r) BY <1>a, <1>c, <1>d DEF Fits
<1>8. QED BY <1>1, <1>3, <1>7 DEF r

LEMMA ReferencesResolve ==
  ASSUME NEW name, IsList(name), NEW providers, IsList(providers), NEW models, IsList(models),
         \A k \in DOMAIN models : IsList(models[k].id)
  PROVE  ResolvesToWhatIsInUse(name, providers, models)
<1> DEFINE r == Resolved(name, providers, models)
<1>1. ASSUME r # None PROVE Fits(name, r)
  <2>1. Len(name) \in Nat /\ name # <<>> BY <1>1 DEF Resolved, IsList
  <2>2. CASE Len(name) > 1
    <3>1. r = QualifiedMatch(name, providers, models) BY <2>1, <2>2 DEF Resolved
    <3>2. QED BY <1>1, <2>2, <3>1, QualifiedFits
  <2>3. CASE ~(Len(name) > 1)
    <3>1. r = BareMatch(name, providers, models) BY <2>1, <2>3 DEF Resolved
    <3>2. Len(name) = 1
      <4>1. name \in Seq(Range(name)) /\ name # <<>> BY <2>1 DEF IsList
      <4>2. Len(name) # 0 BY <4>1
      <4>3. QED BY <2>1, <2>3, <4>2
    <3>3. QED BY <1>1, <3>1, <3>2, BareFits
  <2>4. QED BY <2>2, <2>3
<1> HIDE DEF r
<1>2. QED BY <1>1 DEF ResolvesToWhatIsInUse, r, Fits

LEMMA FallbacksTried ==
  ASSUME NEW file, NEW doc, doc # None => IsList(doc.fallbacks), NEW usable, AreModels(usable)
  PROVE  FallbacksAreTried(file, doc, usable)
<1> DEFINE built == BuiltModel(None, file, doc, usable)
           chain == ModelChain(doc, usable)
           attempts == Attempts(built, chain)
           rest == IF chain = <<>> THEN <<>> ELSE Tail(chain)
           S == usable \cup {"routed"}
<1>1. built \in S BY DEF BuiltModel
<1>2. chain \in Seq(S)
  <2>1. CASE doc # None /\ doc.primary \notin {None, ""}
    <3> DEFINE s == <<doc.primary>> \o doc.fallbacks
               D == {k \in DOMAIN s : s[k] \in usable}
               T == Range(doc.fallbacks) \cup {doc.primary}
    <3>1. chain = Arranged(s, D, InPlace(D)) BY <2>1 DEF ModelChain, Kept
    <3>2. s \in Seq(T) /\ D \in SUBSET (DOMAIN s)
      <4>1. doc.fallbacks \in Seq(Range(doc.fallbacks)) BY <2>1 DEF IsList
      <4>2. <<doc.primary>> \in Seq(T) /\ doc.fallbacks \in Seq(T) BY <4>1
      <4>3. QED BY <4>2
    <3>3. \A a \in D : s[a] \in S OBVIOUS
    <3> HIDE DEF D, s, T
    <3>4. Arranged(s, D, InPlace(D)) \in Seq(T) /\ \A k \in DOMAIN Arranged(s, D, InPlace(D)) : \E a \in D : Arranged(s, D, InPlace(D))[k] = s[a]
      BY <3>2, ArrangedMembers
    <3> HIDE DEF chain, S
    <3>5. chain \in Seq(T) /\ \A k \in DOMAIN chain : chain[k] \in S BY <3>1, <3>3, <3>4
    <3>6. QED BY <3>5
  <2>2. CASE ~(doc # None /\ doc.primary \notin {None, ""})
    <3>1. chain = <<"routed">> BY <2>2 DEF ModelChain
    <3>2. QED BY <3>1
  <2>3. QED BY <2>1, <2>2
<1>3. rest \in Seq(S) /\ attempts = <<built>> \o rest
  <2>1. attempts = <<built>> \o rest BY DEF Attempts
  <2> HIDE DEF chain, S, built
  <2>2. CASE chain = <<>> BY <2>1, <2>2
  <2>3. CASE chain # <<>>
    <3>1. Tail(chain) \in Seq(S) BY <1>2, <2>3
    <3>2. QED BY <2>1, <2>3, <3>1
  <2>4. QED BY <2>2, <2>3
<1>4. attempts \in Seq(S) /\ Len(attempts) >= 1
  <2> HIDE DEF rest, S, built, attempts
  <2>1. <<built>> \in Seq(S) /\ Len(<<built>>) = 1 BY <1>1
  <2>2. QED BY <1>3, <2>1
<1>5. Range(attempts) \subseteq S
  <2> HIDE DEF attempts, S
  <2>1. QED BY <1>4 DEF Range
<1>6. ASSUME doc # None, doc.primary \in usable
      PROVE  attempts = <<doc.primary>> \o Kept(doc.fallbacks, LAMBDA r : r \in usable)
  <2> DEFINE t == doc.fallbacks
             one == <<doc.primary>>
             E == {k \in DOMAIN t : t[k] \in usable}
             s == one \o t
             D == {k \in DOMAIN s : s[k] \in usable}
             q == Arranged(t, E, InPlace(E))
             T == Range(t) \cup {doc.primary}
             A == {1}
             f == [k \in 1 .. 1 |-> 1]
  <2>1. doc.primary \notin {None, ""} BY <1>6 DEF AreModels
  <2>2. built = doc.primary BY <1>6, <2>1 DEF BuiltModel, LoadedModel
  <2>3. chain = Arranged(s, D, InPlace(D)) BY <1>6, <2>1 DEF ModelChain, Kept
  <2>4. t \in Seq(T) /\ one \in Seq(T) /\ s \in Seq(T) /\ Len(one) = 1
    <3>1. t \in Seq(Range(t)) BY <1>6 DEF IsList
    <3>2. t \in Seq(T) /\ one \in Seq(T) /\ Len(one) = 1 BY <3>1
    <3>3. QED BY <3>2
  <2>5. D = A \cup {Len(one) + e : e \in E}
    <3>1. Len(t) \in Nat /\ DOMAIN t = 1 .. Len(t) /\ DOMAIN s = 1 .. 1 + Len(t) BY <2>4
    <3>2. \A k \in 1 .. 1 + Len(t) : s[k] = IF k = 1 THEN doc.primary ELSE t[k - 1] BY <2>4
    <3> HIDE DEF t, one, s, T
    <3>3. 1 \in D BY <1>6, <3>1, <3>2
    <3>4. ASSUME NEW k \in D, k # 1 PROVE \E e \in E : k = 1 + e
      <4>1. k - 1 \in DOMAIN t /\ t[k - 1] \in usable /\ k = 1 + (k - 1) BY <3>1, <3>2, <3>4
      <4>2. QED BY <4>1
    <3>5. ASSUME NEW e \in E PROVE 1 + e \in D
      <4>1. 1 + e \in DOMAIN s /\ 1 + e # 1 /\ (1 + e) - 1 = e BY <3>1
      <4>2. QED BY <3>1, <3>2, <4>1
    <3> HIDE DEF D, E
    <3>6. QED BY <2>4, <3>3, <3>4, <3>5
  <2>6. Takes(f, one, one, A)
    <3>1. f \in [1 .. 1 -> A] /\ f[1] = 1 OBVIOUS
    <3> HIDE DEF f
    <3>2. QED BY <2>4, <3>1 DEF Takes
  <2>7. q \in Seq(T) /\ \E g : Takes(g, q, t, E)
    <3> HIDE DEF q, T, t
    <3>1. E \in SUBSET (DOMAIN t) OBVIOUS
    <3> HIDE DEF E
    <3>2. QED BY <2>4, <3>1, ArrangedInPlace DEF q
  <2>8. D \in SUBSET (DOMAIN s) /\ A \in SUBSET (DOMAIN one) /\ E \in SUBSET (DOMAIN t) /\ D \in SUBSET Int
    <3>1. DOMAIN s \in SUBSET Int BY <2>4
    <3>2. A \in SUBSET (DOMAIN one) OBVIOUS
    <3>3. QED BY <3>1, <3>2
  <2>9. chain \in Seq(T) /\ \E g : Takes(g, chain, s, D)
    <3> HIDE DEF D, T, s, chain
    <3>1. QED BY <2>3, <2>4, <2>8, ArrangedInPlace
  <2>10. one \o q \in Seq(T) /\ \E g : Takes(g, one \o q, s, D)
    <3>1. PICK g : Takes(g, q, t, E) BY <2>7
    <3> HIDE DEF D, E, T, q, t, one, f, A
    <3>2. \E h : Takes(h, one \o q, one \o t, A \cup {Len(one) + e : e \in E})
      BY <2>4, <2>6, <2>7, <2>8, <3>1, TakesBoth
    <3>3. one \o q \in Seq(T) BY <2>4, <2>7
    <3>4. \E h : Takes(h, one \o q, s, D) BY <2>5, <3>2
    <3>5. QED BY <3>3, <3>4
  <2>11. chain = one \o q
    <3>1. PICK g : Takes(g, chain, s, D) BY <2>9
    <3>2. PICK h : Takes(h, one \o q, s, D) BY <2>10
    <3> DEFINE both == one \o q
    <3>3. both \in Seq(T) /\ Takes(h, both, s, D) /\ chain \in Seq(T) /\ D \in SUBSET Int BY <2>8, <2>9, <2>10, <3>2
    <3> HIDE DEF D, E, T, q, t, one, f, A, s, chain, both
    <3>4. chain = both BY <3>1, <3>3, TakesOnce
    <3>5. QED BY <3>4 DEF both
  <2>12. rest = q
    <3> HIDE DEF q, chain
    <3>1. chain # <<>> /\ Tail(chain) = q BY <2>7, <2>11
    <3>2. QED BY <3>1
  <2>13. q = Kept(doc.fallbacks, LAMBDA r : r \in usable) BY DEF Kept
  <2> HIDE DEF q, rest, built, attempts
  <2>14. QED BY <1>3, <2>2, <2>12, <2>13
<1>7. attempts = Attempts(BuiltModel(None, file, doc, usable), ModelChain(doc, usable)) OBVIOUS
<1> HIDE DEF attempts
<1>8. QED BY <1>4, <1>5, <1>6, <1>7 DEF FallbacksAreTried

\* The tool t of the catalog, after those of acc.
Joined(acc, t) ==
  IF t \in Range(acc) \/ (~t.mcp /\ t.name \in Names(acc)) THEN acc ELSE Append(acc, t)

\* The merged list as the run over the tools of the catalog.
MergeRun(t, S, tools, chosen) ==
  /\ t \in [0 .. Len(chosen) -> Seq(S)] /\ t[0] = tools /\ t[Len(chosen)] = MergedTools(tools, chosen)
  /\ \A k \in 1 .. Len(chosen) : t[k] = Joined(t[k - 1], chosen[k])

LEMMA MergeRuns ==
  ASSUME NEW S, NEW tools \in Seq(S), NEW chosen \in Seq(S)
  PROVE  \E t : MergeRun(t, S, tools, chosen)
<1> DEFINE n == Len(chosen)
           A == Seq(S)
           F == [p \in A \X (1 .. n) |-> Joined(p[1], chosen[p[2]])]
           Step(h) == h = [s \in SUBSET (1 .. n) |->
                             IF s = {} THEN tools ELSE Joined(h[s \ {Max(s)}], chosen[Max(s)])]
           it == CHOOSE h : Step(h)
<1>1. n \in Nat /\ DOMAIN chosen = 1 .. n /\ tools \in A /\ F \in [A \X (1 .. n) -> A]
  <2>1. ASSUME NEW acc \in A, NEW k \in 1 .. n PROVE Joined(acc, chosen[k]) \in A
    <3>1. chosen[k] \in S OBVIOUS
    <3>2. Append(acc, chosen[k]) \in A BY <3>1
    <3>3. QED BY <3>2 DEF Joined
  <2>2. F \in [A \X (1 .. n) -> A] BY <2>1
  <2>3. QED BY <2>2
<1>2. \E h : Step(h)
  <2>1. PICK h \in [SUBSET (1 .. n) -> A] : Computed(h, n, tools, F)
    <3> HIDE DEF F, n, A
    <3>1. QED BY <1>1, SubsetRecursion
  <2>2. ASSUME NEW s \in SUBSET (1 .. n), s # {} PROVE h[s] = Joined(h[s \ {Max(s)}], chosen[Max(s)])
    <3>1. Max(s) \in 1 .. n /\ h[s \ {Max(s)}] \in A BY <1>1, <2>2, LargestMember
    <3>2. h[s] = F[<<h[s \ {Max(s)}], Max(s)>>] BY <2>1, <2>2 DEF Computed
    <3>3. QED BY <3>1, <3>2
  <2>3. Step(h) BY <2>1, <2>2 DEF Computed
  <2>4. QED BY <2>3
<1>3. Step(it) BY <1>2
<1>4. MergedTools(tools, chosen) = it[1 .. n] BY <1>1 DEF MergedTools, FoldLeft, MapThenFoldSet, Joined
<1> HIDE DEF it
<1>5. it[{}] = tools BY <1>3
<1>6. ASSUME NEW s \in SUBSET (1 .. n), s # {}, it[s \ {Max(s)}] \in A
      PROVE  it[s] = F[<<it[s \ {Max(s)}], Max(s)>>]
  <2>1. Max(s) \in 1 .. n BY <1>1, <1>6, LargestMember
  <2>2. it[s] = Joined(it[s \ {Max(s)}], chosen[Max(s)]) BY <1>3, <1>6
  <2>3. QED BY <1>6, <2>1, <2>2
<1>7. StepsIn(A, it, n, tools, F)
  <2> HIDE DEF A, F, n
  <2>1. QED BY <1>5, <1>6 DEF StepsIn
<1>8. PICK t : IsRun(t, A, n, tools, F, it[1 .. n])
  <2> HIDE DEF F, n, A
  <2>1. QED BY <1>1, <1>7, RunOfSubsets
<1>9. ASSUME NEW k \in 1 .. n PROVE t[k] = Joined(t[k - 1], chosen[k])
  <2>1. k - 1 \in 0 .. n BY <1>1
  <2>2. t[k - 1] \in A /\ t[k] = F[<<t[k - 1], k>>] BY <1>8, <2>1 DEF IsRun
  <2>3. QED BY <2>2
<1>10. MergeRun(t, S, tools, chosen) BY <1>4, <1>8, <1>9 DEF MergeRun, IsRun
<1>11. QED BY <1>10

\* No two tools, but for sets of them, have one name.
NamedOnce(acc) == \A j, k \in DOMAIN acc : (~acc[j].mcp /\ acc[j].name = acc[k].name) => j = k \/ acc[k].mcp

\* acc has the tool t, or one of its name.
Offers(acc, t) == \E k \in DOMAIN acc : acc[k] = t \/ (acc[k].name = t.name /\ ~t.mcp)

LEMMA JoinedKeeps ==
  ASSUME NEW S, NEW acc \in Seq(S), NEW t \in S, \A x \in S : x.mcp \in BOOLEAN
  PROVE  /\ Joined(acc, t) \in Seq(S)
         /\ Len(acc) <= Len(Joined(acc, t)) /\ \A k \in DOMAIN acc : Joined(acc, t)[k] = acc[k]
         /\ NamedOnce(acc) => NamedOnce(Joined(acc, t))
         /\ Offers(Joined(acc, t), t)
<1>1. Len(acc) \in Nat /\ DOMAIN acc = 1 .. Len(acc) /\ \A k \in DOMAIN acc : acc[k] \in S OBVIOUS
<1>2. CASE t \in Range(acc) \/ (~t.mcp /\ t.name \in Names(acc))
  <2>1. Joined(acc, t) = acc BY <1>2 DEF Joined
  <2>2. Offers(acc, t)
    <3>1. CASE t \in Range(acc)
      <4>1. PICK k \in DOMAIN acc : acc[k] = t BY <3>1 DEF Range
      <4>2. QED BY <4>1 DEF Offers
    <3>2. CASE ~t.mcp /\ t.name \in Names(acc)
      <4>1. PICK u \in Range(acc) : u.name = t.name BY <3>2 DEF Names
      <4>2. PICK k \in DOMAIN acc : acc[k] = u BY DEF Range
      <4>3. acc[k].name = t.name BY <4>1, <4>2
      <4>4. QED BY <3>2, <4>3 DEF Offers
    <3>3. QED BY <1>2, <3>1, <3>2
  <2>3. QED BY <1>1, <2>1, <2>2
<1>3. CASE ~(t \in Range(acc) \/ (~t.mcp /\ t.name \in Names(acc)))
  <2> DEFINE r == Joined(acc, t)
             n == Len(acc)
  <2>1. r = Append(acc, t) BY <1>3 DEF Joined
  <2>2. r \in Seq(S) /\ Len(r) = n + 1 /\ DOMAIN r = 1 .. n + 1 /\ r[n + 1] = t /\ \A k \in 1 .. n : r[k] = acc[k]
    BY <1>1, <2>1
  <2> HIDE DEF r, n
  <2>3. n \in Nat /\ DOMAIN acc = 1 .. n BY <1>1 DEF n
  <2>4. Offers(r, t)
    <3>1. n + 1 \in DOMAIN r /\ r[n + 1] = t BY <2>2, <2>3
    <3>2. QED BY <3>1 DEF Offers
  <2>5. ASSUME NamedOnce(acc) PROVE NamedOnce(r)
    <3>1. ASSUME ~t.mcp, NEW j \in 1 .. n, ~acc[j].mcp PROVE acc[j].name # t.name
      <4>1. acc[j] \in Range(acc) BY <2>3 DEF Range
      <4>2. t.name \notin Names(acc) BY <1>3, <3>1
      <4>3. QED BY <3>1, <4>1, <4>2 DEF Names
    <3>2. ASSUME NEW j \in DOMAIN r, NEW k \in DOMAIN r, ~r[j].mcp, r[j].name = r[k].name, j # k PROVE r[k].mcp
      <4>1. \A x \in DOMAIN r : x \in 1 .. n \/ x = n + 1 BY <2>2, <2>3
      <4>2. CASE j \in 1 .. n /\ k \in 1 .. n BY <2>2, <2>3, <2>5, <3>2, <4>2 DEF NamedOnce
      <4>3. CASE j \in 1 .. n /\ k = n + 1
        <5>1. r[j] = acc[j] /\ r[k] = t BY <2>2, <4>3
        <5>2. QED BY <3>1, <3>2, <4>3, <5>1
      <4>4. CASE j = n + 1 /\ k \in 1 .. n
        <5>1. r[k] = acc[k] /\ r[j] = t BY <2>2, <4>4
        <5>2. QED BY <3>1, <3>2, <4>4, <5>1
      <4>5. QED BY <3>2, <4>1, <4>2, <4>3, <4>4
    <3>3. QED BY <3>2 DEF NamedOnce
  <2>6. n <= n + 1 BY <2>3
  <2>7. QED BY <2>2, <2>3, <2>4, <2>5, <2>6 DEF r, n
<1>4. QED BY <1>2, <1>3

\* What the merged list has: the tools that were there, in their places, and an
\* offer for each of the catalog.
MergesAll(r, tools, chosen) ==
  /\ Len(tools) <= Len(r) /\ \A k \in DOMAIN tools : r[k] = tools[k]
  /\ NamedOnce(tools) => NamedOnce(r)
  /\ \A k \in DOMAIN chosen : Offers(r, chosen[k])

LEMMA MergedToolsMergeAll ==
  ASSUME NEW S, NEW tools \in Seq(S), NEW chosen \in Seq(S), \A x \in S : x.mcp \in BOOLEAN
  PROVE  MergedTools(tools, chosen) \in Seq(S) /\ MergesAll(MergedTools(tools, chosen), tools, chosen)
<1> DEFINE n == Len(chosen)
<1>1. PICK t : MergeRun(t, S, tools, chosen) BY MergeRuns
<1>2. n \in Nat /\ DOMAIN chosen = 1 .. n /\ \A k \in 1 .. n : chosen[k] \in S OBVIOUS
<1>3. /\ t \in [0 .. n -> Seq(S)] /\ t[0] = tools /\ t[n] = MergedTools(tools, chosen)
      /\ \A k \in 1 .. n : t[k] = Joined(t[k - 1], chosen[k])
  BY <1>1 DEF MergeRun
<1>4. DOMAIN tools = 1 .. Len(tools) /\ Len(tools) \in Nat OBVIOUS
<1> DEFINE Good(k) == /\ Len(tools) <= Len(t[k]) /\ \A e \in DOMAIN tools : t[k][e] = tools[e]
                      /\ NamedOnce(tools) => NamedOnce(t[k])
                      /\ \A e \in 1 .. k : Offers(t[k], chosen[e])
           P == {k \in 0 .. n : Good(k)}
<1> HIDE DEF n
<1>5. 0 \in P BY <1>2, <1>3, <1>4
<1>6. ASSUME NEW k \in 1 .. n, k - 1 \in P PROVE k \in P
  <2> DEFINE q == t[k - 1]
             r == t[k]
             x == chosen[k]
  <2>1. q \in Seq(S) /\ r \in Seq(S) /\ r = Joined(q, x) /\ x \in S /\ k - 1 \in 0 .. n /\ k \in 0 .. n BY <1>2, <1>3
  <2>2. Good(k - 1) BY <1>6
  <2>3. Len(q) \in Nat /\ Len(r) \in Nat /\ DOMAIN q = 1 .. Len(q) /\ DOMAIN r = 1 .. Len(r) BY <2>1
  <2> HIDE DEF q, r, x
  <2>4. Len(q) <= Len(r) /\ (\A e \in DOMAIN q : r[e] = q[e]) /\ (NamedOnce(q) => NamedOnce(r)) /\ Offers(r, x)
    BY <2>1, JoinedKeeps
  <2>5. Len(tools) <= Len(r) /\ \A e \in DOMAIN tools : r[e] = tools[e]
    <3>1. Len(tools) <= Len(q) /\ \A e \in DOMAIN tools : q[e] = tools[e] BY <2>2 DEF q
    <3>2. QED BY <1>4, <2>3, <2>4, <3>1
  <2>6. NamedOnce(tools) => NamedOnce(r) BY <2>2, <2>4 DEF q
  <2>7. ASSUME NEW e \in 1 .. k PROVE Offers(r, chosen[e])
    <3>1. CASE e = k BY <2>4, <3>1 DEF x
    <3>2. CASE e # k
      <4>1. e \in 1 .. k - 1 BY <3>2
      <4>2. Offers(q, chosen[e]) BY <2>2, <4>1 DEF q
      <4>3. PICK j \in DOMAIN q : q[j] = chosen[e] \/ (q[j].name = chosen[e].name /\ ~chosen[e].mcp)
        BY <4>2 DEF Offers
      <4>4. j \in DOMAIN r /\ r[j] = q[j] BY <2>3, <2>4
      <4>5. QED BY <4>3, <4>4 DEF Offers
    <3>3. QED BY <3>1, <3>2
  <2>8. Good(k) BY <2>5, <2>6, <2>7 DEF r
  <2> HIDE DEF Good
  <2>9. QED BY <2>1, <2>8
<1>7. \A k \in 0 .. n : k \in P
  <2> HIDE DEF P
  <2>1. QED BY <1>2, <1>5, <1>6, UpTo
<1>8. Good(n)
  <2> HIDE DEF Good
  <2>1. n \in 0 .. n BY <1>2
  <2>2. QED BY <1>7, <2>1
<1>9. MergesAll(t[n], tools, chosen) BY <1>2, <1>8 DEF MergesAll
<1>10. t[n] \in Seq(S) BY <1>2, <1>3
<1>11. QED BY <1>3, <1>9, <1>10

\* The override lets the tool t through.
Passing(doc, t) == doc = None \/ (t.name \notin doc.deny /\ (doc.allow # {} => t.name \in doc.allow))

LEMMA AppliedToolsPass ==
  ASSUME NEW S, NEW m \in Seq(S), NEW doc
  PROVE  AppliedTools(m, doc) \in Seq(S) /\ \E f : Takes(f, AppliedTools(m, doc), m, {k \in DOMAIN m : Passing(doc, m[k])})
<1> DEFINE D == {k \in DOMAIN m : Passing(doc, m[k])}
           f == [k \in 1 .. Len(m) |-> k]
<1>1. D \in SUBSET (DOMAIN m) /\ DOMAIN m = 1 .. Len(m) /\ Len(m) \in Nat OBVIOUS
<1>2. CASE doc = None
  <2>1. AppliedTools(m, doc) = m BY <1>2 DEF AppliedTools
  <2>2. D = 1 .. Len(m) BY <1>1, <1>2 DEF Passing
  <2>3. f \in [1 .. Len(m) -> D] /\ \A k \in 1 .. Len(m) : f[k] = k BY <2>2
  <2> HIDE DEF f, D
  <2>4. Takes(f, m, m, D) BY <1>1, <2>2, <2>3 DEF Takes
  <2>5. \E g : Takes(g, m, m, D) BY <2>4
  <2>6. QED BY <2>1, <2>5 DEF D
<1>3. CASE doc # None
  <2> DEFINE E == {k \in DOMAIN m : m[k].name \notin doc.deny /\ (doc.allow # {} => m[k].name \in doc.allow)}
  <2>1. AppliedTools(m, doc) = Arranged(m, E, InPlace(E)) BY <1>3 DEF AppliedTools, Kept
  <2>2. D = E BY <1>3 DEF Passing
  <2> HIDE DEF D, E
  <2>3. Arranged(m, D, InPlace(D)) \in Seq(S) /\ \E g : Takes(g, Arranged(m, D, InPlace(D)), m, D)
    BY <1>1, ArrangedInPlace
  <2>4. QED BY <2>1, <2>2, <2>3 DEF D
<1>4. QED BY <1>2, <1>3

\* What is said of the tools of an agent, clause by clause.
Filtered(built, tools, chosen, doc) ==
  /\ \A k \in DOMAIN built : Passing(doc, built[k])
  /\ NamedOnce(tools) => NamedOnce(built)
  /\ \A k \in DOMAIN tools : Passing(doc, tools[k]) => Offers(built, tools[k])
  /\ \A k \in DOMAIN chosen : Passing(doc, chosen[k]) => Offers(built, chosen[k])
  /\ \A k \in DOMAIN tools : Passing(doc, tools[k]) => tools[k] \in Range(built)

LEMMA BuiltToolsFiltered ==
  ASSUME NEW S, NEW tools \in Seq(S), NEW chosen \in Seq(S), \A x \in S : x.mcp \in BOOLEAN, NEW doc
  PROVE  Filtered(AppliedTools(MergedTools(tools, chosen), doc), tools, chosen, doc)
<1> DEFINE m == MergedTools(tools, chosen)
           r == AppliedTools(m, doc)
           D == {k \in DOMAIN m : Passing(doc, m[k])}
<1>1. m \in Seq(S) /\ MergesAll(m, tools, chosen) BY MergedToolsMergeAll
<1> HIDE DEF m
<1>2. r \in Seq(S) /\ \E f : Takes(f, r, m, D) BY <1>1, AppliedToolsPass
<1>3. PICK f : Takes(f, r, m, D) BY <1>2
<1> HIDE DEF r
<1>4. /\ DOMAIN r = 1 .. Len(r) /\ Len(r) \in Nat /\ DOMAIN m = 1 .. Len(m) /\ Len(m) \in Nat
      /\ DOMAIN tools = 1 .. Len(tools) /\ Len(tools) \in Nat
  BY <1>1, <1>2
<1>5. /\ \A k \in DOMAIN r : f[k] \in D /\ r[k] = m[f[k]]
      /\ \A a \in D : \E k \in DOMAIN r : f[k] = a
      /\ \A j, k \in DOMAIN r : j < k => f[j] < f[k]
  BY <1>3, <1>4 DEF Takes
<1>6. \A k \in DOMAIN r : f[k] \in DOMAIN m /\ Passing(doc, m[f[k]]) BY <1>5
<1>7. \A a \in DOMAIN m : Passing(doc, m[a]) => \E k \in DOMAIN r : r[k] = m[a]
  <2>1. TAKE a \in DOMAIN m
  <2>2. HAVE Passing(doc, m[a])
  <2>3. a \in D BY <2>2
  <2>4. QED BY <1>5, <2>3
<1> HIDE DEF D
<1>8. \A k \in DOMAIN r : Passing(doc, r[k]) BY <1>5, <1>6
<1>9. ASSUME NamedOnce(m), NEW j \in DOMAIN r, NEW k \in DOMAIN r, ~r[j].mcp, r[j].name = r[k].name, j # k PROVE r[k].mcp
  <2>1. f[j] # f[k]
    <3>1. f[j] \in Int /\ f[k] \in Int BY <1>4, <1>6
    <3>2. j < k \/ k < j BY <1>4, <1>9
    <3>3. QED BY <1>5, <3>1, <3>2
  <2>2. r[j] = m[f[j]] /\ r[k] = m[f[k]] /\ f[j] \in DOMAIN m /\ f[k] \in DOMAIN m BY <1>5, <1>6
  <2>3. QED BY <1>9, <2>1, <2>2 DEF NamedOnce
<1>10. NamedOnce(m) => NamedOnce(r) BY <1>9 DEF NamedOnce
<1>11. ASSUME NEW t, Offers(m, t), Passing(doc, t) PROVE Offers(r, t)
  <2>1. PICK a \in DOMAIN m : m[a] = t \/ (m[a].name = t.name /\ ~t.mcp) BY <1>11 DEF Offers
  <2>2. Passing(doc, m[a]) BY <1>11, <2>1 DEF Passing
  <2>3. PICK k \in DOMAIN r : r[k] = m[a] BY <1>7, <2>2
  <2>4. QED BY <2>1, <2>3 DEF Offers
<1>12. ASSUME NEW e \in DOMAIN tools, Passing(doc, tools[e]) PROVE \E k \in DOMAIN r : r[k] = tools[e]
  <2>1. e \in DOMAIN m /\ m[e] = tools[e] BY <1>1, <1>4 DEF MergesAll
  <2>2. QED BY <1>7, <1>12, <2>1
<1>13. \A e \in DOMAIN tools : Passing(doc, tools[e]) => tools[e] \in Range(r) /\ Offers(r, tools[e])
  BY <1>12 DEF Range, Offers
<1>14. \A k \in DOMAIN chosen : Passing(doc, chosen[k]) => Offers(r, chosen[k]) BY <1>1, <1>11 DEF MergesAll
<1>15. NamedOnce(tools) => NamedOnce(r) BY <1>1, <1>10 DEF MergesAll
<1>16. Filtered(r, tools, chosen, doc) BY <1>8, <1>13, <1>14, <1>15 DEF Filtered
<1>17. QED BY <1>16 DEF r, m

LEMMA ToolsFiltered ==
  ASSUME NEW tools, IsList(tools), NEW chosen, IsList(chosen), \A t \in Range(tools \o chosen) : t.mcp \in BOOLEAN, NEW doc
  PROVE  ToolsAreFiltered(tools, chosen, doc)
<1> DEFINE S == Range(tools) \cup Range(chosen)
           r == AppliedTools(MergedTools(tools, chosen), doc)
           Passes(t) == doc = None \/ (t.name \notin doc.deny /\ (doc.allow = {} \/ t.name \in doc.allow))
<1>1. tools \in Seq(Range(tools)) /\ chosen \in Seq(Range(chosen)) BY DEF IsList
<1>2. tools \in Seq(S) /\ chosen \in Seq(S) /\ \A x \in Range(tools) \cup Range(chosen) : x \in S BY <1>1
<1>3. Range(tools \o chosen) = S BY <1>2, RangeOfBoth
<1>4. \A x \in S : x.mcp \in BOOLEAN BY <1>3
<1> HIDE DEF S
<1>5. Filtered(r, tools, chosen, doc) BY <1>2, <1>4, BuiltToolsFiltered
<1> HIDE DEF r
<1>6. \A t : Passing(doc, t) <=> Passes(t) BY DEF Passing
<1> HIDE DEF Passes
<1>7. \A t \in Range(r) : Passes(t) BY <1>5, <1>6 DEF Filtered, Range
<1>8. IsInjective([k \in DOMAIN tools |-> tools[k].name]) => \A j, k \in DOMAIN r :
           (~r[j].mcp /\ r[j].name = r[k].name) => j = k \/ r[k].mcp
  <2>1. IsInjective([k \in DOMAIN tools |-> tools[k].name]) => NamedOnce(tools) BY DEF IsInjective, NamedOnce
  <2>2. QED BY <1>5, <2>1 DEF Filtered, NamedOnce
<1>9. \A t \in Range(tools \o chosen) : Passes(t) => \E b \in Range(r) : b = t \/ (b.name = t.name /\ ~t.mcp)
  <2>1. TAKE t \in Range(tools \o chosen)
  <2>2. HAVE Passes(t)
  <2>3. t \in Range(tools) \cup Range(chosen) BY <1>3 DEF S
  <2>4. Offers(r, t) BY <1>5, <1>6, <2>2, <2>3 DEF Filtered, Range
  <2>5. QED BY <2>4 DEF Offers, Range
<1>10. \A t \in Range(tools) : Passes(t) => t \in Range(r) BY <1>5, <1>6 DEF Filtered, Range
<1>11. QED BY <1>7, <1>8, <1>9, <1>10 DEF ToolsAreFiltered, r, Passes

\* A question that was asked has the shape that the program's inputs have.
LEMMA QuestionsKeepShape == AllSpec => [](query = NoQuestion \/ QuestionOK(query))
<1> DEFINE Asked == query = NoQuestion \/ QuestionOK(query)
<1>1. AllInit => Asked BY DEF AllInit
<1>2. Asked /\ [AllNext]_<<part, loopVars, connVars, boardVars, cronVars, memVars, query>> => Asked'
  <2> SUFFICES ASSUME Asked, [AllNext]_<<part, loopVars, connVars, boardVars, cronVars, memVars, query>>
               PROVE  Asked'
    OBVIOUS
  <2>1. query' = query \/ query' \in Questions BY DEF AllNext, Ask
  <2>2. CASE query' = query BY <2>2 DEF NoQuestion, QuestionOK
  <2>3. CASE query' \in Questions BY <2>3, QuestionsAssumption DEF QuestionOK
  <2>4. QED BY <2>1, <2>2, <2>3
<1>3. QED BY <1>1, <1>2, PTL DEF AllSpec

LEMMA AnyQuestionOfAgents ==
  ASSUME NEW q, QuestionOK(q)
  PROVE  /\ q.of = "resolve" => ResolvesToWhatIsInUse(q.name, q.ps, q.ms)
         /\ q.of = "sign" => CallsAreSignedOnce(q.p, OneModel, q.key, q.new)
         /\ q.of = "rules" => RulesHaveEndpoints(q.s, q.agent, <<OneProvider>>, q.ms)
         /\ q.of = "pages" => PagesShowWhatIsBuilt(q.file, q.doc)
         /\ q.of = "tools" => ToolsAreFiltered(q.wired, q.chosen, q.doc)
         /\ q.of = "fallbacks" => FallbacksAreTried(q.file, q.doc, q.usable)
         /\ q.of = "profile" => ProfileStaysPrivate(q.front, q.file, q.doc)
<1>1. ASSUME q.of = "resolve" PROVE ResolvesToWhatIsInUse(q.name, q.ps, q.ms)
  <2>1. IsList(q.name) /\ IsList(q.ps) /\ IsList(q.ms) /\ \A k \in DOMAIN q.ms : IsList(q.ms[k].id)
    BY <1>1 DEF QuestionOK
  <2>2. QED BY <2>1, ReferencesResolve
<1>2. ASSUME q.of = "sign" PROVE CallsAreSignedOnce(q.p, OneModel, q.key, q.new)
  <2>1. q.p.copilot \in BOOLEAN BY <1>2 DEF QuestionOK
  <2>2. QED BY <2>1, SignedOnce
<1>3. ASSUME q.of = "rules" PROVE RulesHaveEndpoints(q.s, q.agent, <<OneProvider>>, q.ms)
  <2>1. q.s.nemotron \in BOOLEAN /\ q.s.openrouter \in BOOLEAN BY <1>3 DEF QuestionOK
  <2>2. QED BY <2>1, RouterHasEndpoints
<1>4. ASSUME q.of = "pages" PROVE PagesShowWhatIsBuilt(q.file, q.doc)
  <2>1. q.doc # None => q.doc.heartbeat # Fails BY <1>4 DEF QuestionOK
  <2>2. QED BY <2>1, PagesAreTrue
<1>5. ASSUME q.of = "tools" PROVE ToolsAreFiltered(q.wired, q.chosen, q.doc)
  <2>1. IsList(q.wired) /\ IsList(q.chosen) /\ \A t \in Range(q.wired \o q.chosen) : t.mcp \in BOOLEAN
    BY <1>5 DEF QuestionOK
  <2>2. QED BY <2>1, ToolsFiltered
<1>6. ASSUME q.of = "fallbacks" PROVE FallbacksAreTried(q.file, q.doc, q.usable)
  <2>1. (q.doc # None => IsList(q.doc.fallbacks)) /\ AreModels(q.usable) BY <1>6 DEF QuestionOK
  <2>2. QED BY <2>1, FallbacksTried
<1>7. ASSUME q.of = "profile" PROVE ProfileStaysPrivate(q.front, q.file, q.doc)
  <2>1. /\ q.front \in BOOLEAN
        /\ q.file # None => q.file.knowledge = None \/ q.file.knowledge \in BOOLEAN
        /\ q.doc # None => q.doc.knowledge = None \/ q.doc.knowledge \in BOOLEAN
    BY <1>7 DEF QuestionOK, Grants
  <2>2. QED BY <2>1, ProfileIsPrivate
<1>8. QED BY <1>1, <1>2, <1>3, <1>4, <1>5, <1>6, <1>7

\* The agent that runs is the one the configuration describes, and its calls go to
\* a model in use: for any file, override, catalog, settings and tools.
THEOREM AgentsAreAlwaysAsConfigured == AllSpec => []AgentsAreAsConfigured
<1>1. ASSUME query = NoQuestion \/ QuestionOK(query) PROVE AgentsAreAsConfigured
  <2>1. CASE query = NoQuestion
    <3>1. query.of = "nothing" BY <2>1 DEF NoQuestion
    <3>2. QED BY <3>1 DEF AgentsAreAsConfigured
  <2>2. CASE QuestionOK(query) BY <2>2, AnyQuestionOfAgents DEF AgentsAreAsConfigured
  <2>3. QED BY <1>1, <2>1, <2>2
<1>2. QED BY <1>1, QuestionsKeepShape, PTL

-----------------------------------------------------------------------------
(* Scrubbing: one pattern after another.                                   *)

\* The nine patterns are different names, and neither mark is one of them.
LEMMA PatternsDiffer ==
  /\ Len(Patterns) = 9 /\ DOMAIN Patterns = 1 .. 9
  /\ \A j, k \in 1 .. 9 : Patterns[j] = Patterns[k] => j = k
  /\ "redacted" \notin Range(Patterns) /\ "blank" \notin Range(Patterns)
<1>1. Len(Patterns) = 9 /\ DOMAIN Patterns = 1 .. 9 BY DEF Patterns
<1>2. \A k \in 1 .. 9 : k = 1 \/ k = 2 \/ k = 3 \/ k = 4 \/ k = 5 \/ k = 6 \/ k = 7 \/ k = 8 \/ k = 9 OBVIOUS
<1>3. /\ Patterns[1] = "api_key" /\ Patterns[2] = "aws_key" /\ Patterns[3] = "google_token"
      /\ Patterns[4] = "jwt" /\ Patterns[5] = "private_key" /\ Patterns[6] = "credit_card"
      /\ Patterns[7] = "ssn" /\ Patterns[8] = "phone" /\ Patterns[9] = "email"
  BY DEF Patterns
<1>4. \A j, k \in 1 .. 9 : Patterns[j] = Patterns[k] => j = k BY <1>2, <1>3
<1>5. \A k \in 1 .. 9 : Patterns[k] # "redacted" /\ Patterns[k] # "blank" BY <1>2, <1>3
<1>6. QED BY <1>1, <1>4, <1>5 DEF Range

Counts == UNION {[K -> Nat] : K \in SUBSET Range(Patterns)}

\* What scrubbing a text of n lines goes through.
Scrubs(n) == [text : [1 .. n -> ScrubbedLine], report : Counts]

LEMMA RedactedLine ==
  ASSUME NEW l \in ScrubbedLine
  PROVE  [l EXCEPT !.token = Redacted] = [speaker |-> l.speaker, token |-> Redacted]
<1>1. PICK a, b : l = [speaker |-> a, token |-> b] BY DEF ScrubbedLine, Line
<1>2. [[speaker |-> a, token |-> b] EXCEPT !.token = Redacted] = [speaker |-> a, token |-> Redacted] OBVIOUS
<1>3. l.speaker = a BY <1>1
<1>4. QED BY <1>1, <1>2, <1>3

\* new is acc once more scrubbed, of category c.
Redacts(new, acc, n, c) ==
  LET hit == {k \in 1 .. n : c \in acc.text[k].token}
  IN  /\ IsFiniteSet(hit)
      /\ \A k \in 1 .. n : new.text[k] =
           IF c \in acc.text[k].token THEN [speaker |-> acc.text[k].speaker, token |-> Redacted] ELSE acc.text[k]
      /\ \A d : Reported(new.report, d) = IF d = c /\ hit # {} THEN Cardinality(hit) ELSE Reported(acc.report, d)
      /\ hit = {} => new = acc

\* What one pattern does to the text and the report.
LEMMA AppliedScrubs ==
  ASSUME NEW n \in Nat, NEW acc \in Scrubs(n), NEW c \in Range(Patterns)
  PROVE  Applied(acc, c) \in Scrubs(n) /\ Redacts(Applied(acc, c), acc, n, c)
<1> DEFINE hit == {k \in 1 .. n : c \in acc.text[k].token}
           new == Applied(acc, c)
           lines == [k \in 1 .. n |-> IF k \in hit THEN [acc.text[k] EXCEPT !.token = Redacted] ELSE acc.text[k]]
           more == [d \in DOMAIN acc.report \cup {c} |-> IF d = c THEN Cardinality(hit) ELSE acc.report[d]]
<1>1. /\ acc = [text |-> acc.text, report |-> acc.report]
      /\ acc.text \in [1 .. n -> ScrubbedLine] /\ DOMAIN acc.text = 1 .. n /\ acc.report \in Counts
  BY DEF Scrubs
<1>2. IsFiniteSet(hit) /\ Cardinality(hit) \in Nat
  <2>1. 1 \in Int /\ n \in Int OBVIOUS
  <2>2. IsFiniteSet(1 .. n) BY <2>1, FS_Interval
  <2>3. hit \in SUBSET (1 .. n) OBVIOUS
  <2> HIDE DEF hit
  <2>4. IsFiniteSet(hit) BY <2>2, <2>3, FS_Subset
  <2>5. QED BY <2>4, FS_CardinalityType
<1>3. new = [text |-> lines, report |-> IF hit = {} THEN acc.report ELSE more] BY <1>1 DEF Applied, Matches
<1> HIDE DEF new
<1>4. \A k \in 1 .. n : acc.text[k] = [speaker |-> acc.text[k].speaker, token |-> acc.text[k].token]
                        /\ acc.text[k].speaker \in {"User", "Agent", ""} /\ acc.text[k] \in ScrubbedLine
  BY <1>1 DEF ScrubbedLine, Line
<1>5. \A k \in 1 .. n : lines[k] = IF k \in hit THEN [speaker |-> acc.text[k].speaker, token |-> Redacted] ELSE acc.text[k]
  <2>1. TAKE k \in 1 .. n
  <2>2. lines[k] = IF k \in hit THEN [acc.text[k] EXCEPT !.token = Redacted] ELSE acc.text[k] OBVIOUS
  <2> HIDE DEF lines, hit
  <2>3. [acc.text[k] EXCEPT !.token = Redacted] = [speaker |-> acc.text[k].speaker, token |-> Redacted]
    BY <1>4, RedactedLine
  <2>4. QED BY <2>2, <2>3
<1>6. lines \in [1 .. n -> ScrubbedLine]
  <2>1. \A k \in 1 .. n : lines[k] \in ScrubbedLine
    <3>1. TAKE k \in 1 .. n
    <3>2. CASE k \in hit
      <4>1. lines[k] = [speaker |-> acc.text[k].speaker, token |-> Redacted] BY <1>5, <3>2
      <4>2. QED BY <1>4, <4>1 DEF ScrubbedLine, Line
    <3>3. CASE k \notin hit BY <1>4, <3>3
    <3>4. QED BY <3>2, <3>3
  <2>2. QED BY <2>1
<1>7. more \in Counts
  <2>1. PICK K \in SUBSET Range(Patterns) : acc.report \in [K -> Nat] BY <1>1 DEF Counts
  <2> HIDE DEF hit
  <2>2. more \in [K \cup {c} -> Nat] BY <1>2, <2>1
  <2>3. K \cup {c} \in SUBSET Range(Patterns) OBVIOUS
  <2> HIDE DEF more
  <2>4. QED BY <2>2, <2>3 DEF Counts
<1>8. new \in Scrubs(n)
  <2> HIDE DEF lines, more, hit
  <2>1. QED BY <1>1, <1>3, <1>6, <1>7 DEF Scrubs
<1>9. \A k \in 1 .. n : new.text[k] = IF c \in acc.text[k].token THEN [speaker |-> acc.text[k].speaker, token |-> Redacted] ELSE acc.text[k]
  BY <1>3, <1>5
<1>10. ASSUME NEW d
       PROVE  Reported(new.report, d) = IF d = c /\ hit # {} THEN Cardinality(hit) ELSE Reported(acc.report, d)
  <2> HIDE DEF hit
  <2>1. CASE hit = {} BY <1>3, <2>1
  <2>2. CASE hit # {}
    <3>1. new.report = more BY <1>3, <2>2
    <3>2. DOMAIN more = DOMAIN acc.report \cup {c} OBVIOUS
    <3>3. QED BY <2>2, <3>1, <3>2 DEF Reported
  <2>3. QED BY <2>1, <2>2
<1>11. ASSUME hit = {} PROVE new = acc
  <2>1. \A k \in 1 .. n : lines[k] = acc.text[k] BY <1>5, <1>11
  <2>2. lines = acc.text
    <3> HIDE DEF lines
    <3>1. QED BY <1>1, <1>6, <2>1
  <2>3. QED BY <1>1, <1>3, <1>11, <2>2
<1>12. QED BY <1>2, <1>8, <1>9, <1>10, <1>11 DEF new, Redacts

\* Scrubbing as the run over the patterns.
ScrubRun(t, text) ==
  /\ t \in [0 .. 9 -> Scrubs(Len(text))] /\ t[0] = Unscrubbed(text) /\ t[9] = Scrubbed(text)
  /\ \A k \in 1 .. 9 : t[k] = Applied(t[k - 1], Patterns[k])

\* Scrubbed is the last value of a run over the patterns.
LEMMA ScrubRuns ==
  ASSUME NEW text \in Seq(ScrubbedLine)
  PROVE  \E t : ScrubRun(t, text)
<1> DEFINE n == 9
           A == Scrubs(Len(text))
           b == Unscrubbed(text)
           F == [p \in A \X (1 .. n) |-> Applied(p[1], Patterns[p[2]])]
           Step(h) == h = [s \in SUBSET (1 .. n) |->
                             IF s = {} THEN b ELSE Applied(h[s \ {Max(s)}], Patterns[Max(s)])]
           it == CHOOSE h : Step(h)
<1>a. n \in Nat /\ DOMAIN Patterns = 1 .. n /\ \A k \in 1 .. n : Patterns[k] \in Range(Patterns)
  BY PatternsDiffer DEF Range
<1>b. b \in A
  <2>1. text \in [1 .. Len(text) -> ScrubbedLine] OBVIOUS
  <2>2. [c \in {} |-> 0] \in Counts
    <3>1. [c \in {} |-> 0] \in [{} -> Nat] /\ {} \in SUBSET Range(Patterns) OBVIOUS
    <3>2. QED BY <3>1 DEF Counts
  <2>3. QED BY <2>1, <2>2 DEF Unscrubbed, Scrubs
<1>c. F \in [A \X (1 .. n) -> A]
  <2>1. Len(text) \in Nat OBVIOUS
  <2>2. ASSUME NEW acc \in A, NEW k \in 1 .. n PROVE Applied(acc, Patterns[k]) \in A BY <1>a, <2>1, AppliedScrubs
  <2> HIDE DEF A
  <2>3. QED BY <2>2
<1>1. n \in Nat /\ DOMAIN Patterns = 1 .. n /\ b \in A /\ F \in [A \X (1 .. n) -> A] BY <1>a, <1>b, <1>c
<1>2. \E h : Step(h)
  <2>1. PICK h \in [SUBSET (1 .. n) -> A] : Computed(h, n, b, F)
    <3> HIDE DEF F, n, A, b
    <3>1. QED BY <1>1, SubsetRecursion
  <2>2. ASSUME NEW s \in SUBSET (1 .. n), s # {} PROVE h[s] = Applied(h[s \ {Max(s)}], Patterns[Max(s)])
    <3>1. Max(s) \in 1 .. n /\ h[s \ {Max(s)}] \in A BY <1>1, <2>2, LargestMember
    <3>2. h[s] = F[<<h[s \ {Max(s)}], Max(s)>>] BY <2>1, <2>2 DEF Computed
    <3>3. QED BY <3>1, <3>2
  <2>3. Step(h) BY <2>1, <2>2 DEF Computed
  <2>4. QED BY <2>3
<1>3. Step(it) BY <1>2
<1>4. Scrubbed(text) = it[1 .. n] BY <1>1 DEF Scrubbed, FoldLeft, MapThenFoldSet
<1> HIDE DEF it
<1>5. it[{}] = b BY <1>3
<1>6. ASSUME NEW s \in SUBSET (1 .. n), s # {}, it[s \ {Max(s)}] \in A
      PROVE  it[s] = F[<<it[s \ {Max(s)}], Max(s)>>]
  <2>1. Max(s) \in 1 .. n BY <1>1, <1>6, LargestMember
  <2>2. it[s] = Applied(it[s \ {Max(s)}], Patterns[Max(s)]) BY <1>3, <1>6
  <2>3. QED BY <1>6, <2>1, <2>2
<1>7. StepsIn(A, it, n, b, F)
  <2> HIDE DEF A, F, n, b
  <2>1. QED BY <1>5, <1>6 DEF StepsIn
<1>8. PICK t : IsRun(t, A, n, b, F, it[1 .. n])
  <2> HIDE DEF F, n, A, b
  <2>1. QED BY <1>1, <1>7, RunOfSubsets
<1>9. ASSUME NEW k \in 1 .. n PROVE t[k] = Applied(t[k - 1], Patterns[k])
  <2>1. k - 1 \in 0 .. n BY <1>1
  <2>2. t[k - 1] \in A /\ t[k] = F[<<t[k - 1], k>>] BY <1>8, <2>1 DEF IsRun
  <2>3. QED BY <2>2
<1>10. ScrubRun(t, text) BY <1>4, <1>8, <1>9 DEF ScrubRun, IsRun
<1>11. QED BY <1>10

\* The lines of a text that one of the first k patterns matches, and those that the
\* p-th matches and none before.
HitBy(text, k) == {j \in DOMAIN text : \E p \in 1 .. k : Patterns[p] \in text[j].token}
FirstHit(text, p) == {j \in DOMAIN text : Patterns[p] \in text[j].token /\ \A q \in 1 .. p - 1 : Patterns[q] \notin text[j].token}

RedLine(l) == [speaker |-> l.speaker, token |-> Redacted]

\* What has become of a text after k patterns.
After9(acc, text, k) ==
  /\ \A j \in DOMAIN text : acc.text[j] = IF j \in HitBy(text, k) THEN RedLine(text[j]) ELSE text[j]
  /\ \A p \in 1 .. 9 : Reported(acc.report, Patterns[p]) = IF p <= k THEN Cardinality(FirstHit(text, p)) ELSE 0

\* After k patterns, a line that any of them matches is redacted, and each has
\* counted the lines that it was the first to match.
LEMMA ScrubSteps ==
  ASSUME NEW text \in Seq(ScrubbedLine), NEW t, ScrubRun(t, text)
  PROVE  \A k \in 0 .. 9 : After9(t[k], text, k)
<1> DEFINE n == Len(text)
           P == {k \in 0 .. 9 : After9(t[k], text, k)}
<1>1. n \in Nat /\ DOMAIN text = 1 .. n OBVIOUS
<1>2. /\ \A k \in 0 .. 9 : t[k] \in Scrubs(n)
      /\ \A k \in 1 .. 9 : t[k] = Applied(t[k - 1], Patterns[k]) /\ Patterns[k] \in Range(Patterns)
  BY PatternsDiffer DEF ScrubRun, Range
<1> HIDE DEF n
<1>3. 0 \in P
  <2>1. HitBy(text, 0) = {} BY DEF HitBy
  <2>2. t[0].text = text /\ t[0].report = [c \in {} |-> 0] BY DEF ScrubRun, Unscrubbed
  <2>3. \A p \in 1 .. 9 : Reported(t[0].report, Patterns[p]) = 0 BY <2>2 DEF Reported
  <2>4. After9(t[0], text, 0) BY <2>1, <2>2, <2>3 DEF After9
  <2>5. QED BY <2>4
<1>4. ASSUME NEW k \in 1 .. 9, k - 1 \in P PROVE k \in P
  <2> DEFINE a == t[k - 1]
             b == t[k]
             c == Patterns[k]
             hit == {j \in 1 .. n : c \in a.text[j].token}
  <2>1. a \in Scrubs(n) /\ b = Applied(a, c) /\ c \in Range(Patterns) /\ After9(a, text, k - 1)
    <3>1. k - 1 \in 0 .. 9 OBVIOUS
    <3>2. QED BY <1>2, <1>4, <3>1
  <2>2. hit = FirstHit(text, k)
    <3>1. ASSUME NEW j \in 1 .. n
          PROVE  c \in a.text[j].token <=> (c \in text[j].token /\ \A q \in 1 .. k - 1 : Patterns[q] \notin text[j].token)
      <4>1. a.text[j] = IF j \in HitBy(text, k - 1) THEN RedLine(text[j]) ELSE text[j] BY <1>1, <2>1 DEF After9
      <4>2. j \in HitBy(text, k - 1) <=> \E q \in 1 .. k - 1 : Patterns[q] \in text[j].token BY <1>1 DEF HitBy
      <4>3. c \notin RedLine(text[j]).token BY <2>1, PatternsDiffer DEF RedLine, Redacted
      <4> HIDE DEF a, c
      <4>4. QED BY <4>1, <4>2, <4>3
    <3>2. QED BY <1>1, <3>1 DEF FirstHit
  <2> HIDE DEF a, c
  <2>3. /\ \A j \in 1 .. n : b.text[j] = IF c \in a.text[j].token THEN [speaker |-> a.text[j].speaker, token |-> Redacted] ELSE a.text[j]
        /\ IsFiniteSet(hit)
        /\ \A d : Reported(b.report, d) = IF d = c /\ hit # {} THEN Cardinality(hit) ELSE Reported(a.report, d)
    <3>1. n \in Nat /\ a \in Scrubs(n) /\ c \in Range(Patterns) /\ b = Applied(a, c) BY <1>1, <2>1
    <3> HIDE DEF b
    <3>2. Redacts(b, a, n, c) BY <3>1, AppliedScrubs
    <3>3. QED BY <3>2 DEF Redacts
  <2>4. ASSUME NEW j \in DOMAIN text PROVE b.text[j] = IF j \in HitBy(text, k) THEN RedLine(text[j]) ELSE text[j]
    <3>0. j \in 1 .. n BY <1>1
    <3>1. a.text[j] = IF j \in HitBy(text, k - 1) THEN RedLine(text[j]) ELSE text[j] BY <2>1 DEF After9
    <3>2. j \in HitBy(text, k) <=> (j \in HitBy(text, k - 1) \/ c \in text[j].token)
      <4>1. \A p \in 1 .. k : p \in 1 .. k - 1 \/ p = k OBVIOUS
      <4>2. j \in HitBy(text, k) <=> \E p \in 1 .. k : Patterns[p] \in text[j].token BY DEF HitBy
      <4>3. j \in HitBy(text, k - 1) <=> \E p \in 1 .. k - 1 : Patterns[p] \in text[j].token BY DEF HitBy
      <4>4. k \in 1 .. k /\ \A p \in 1 .. k - 1 : p \in 1 .. k OBVIOUS
      <4>5. QED BY <4>1, <4>2, <4>3, <4>4 DEF c
    <3>3. c \in a.text[j].token <=> j \in hit BY <3>0
    <3>4. j \in hit <=> (c \in text[j].token /\ j \notin HitBy(text, k - 1)) BY <2>2 DEF FirstHit, HitBy, c
    <3>5. CASE j \in hit
      <4>1. b.text[j] = [speaker |-> a.text[j].speaker, token |-> Redacted] BY <2>3, <3>0, <3>3, <3>5
      <4>2. a.text[j] = text[j] /\ j \in HitBy(text, k) BY <3>1, <3>2, <3>4, <3>5
      <4>3. QED BY <4>1, <4>2 DEF RedLine
    <3>6. CASE j \notin hit
      <4>1. b.text[j] = a.text[j] BY <2>3, <3>0, <3>3, <3>6
      <4>2. j \in HitBy(text, k) <=> j \in HitBy(text, k - 1) BY <3>2, <3>4, <3>6
      <4>3. QED BY <3>1, <4>1, <4>2
    <3>7. QED BY <3>5, <3>6
  <2>5. ASSUME NEW p \in 1 .. 9
        PROVE  Reported(b.report, Patterns[p]) = IF p <= k THEN Cardinality(FirstHit(text, p)) ELSE 0
    <3>1. Reported(a.report, Patterns[p]) = IF p <= k - 1 THEN Cardinality(FirstHit(text, p)) ELSE 0
      BY <2>1 DEF After9
    <3>2. Patterns[p] = c <=> p = k BY PatternsDiffer DEF c
    <3>3. CASE p = k
      <4>1. hit = {} => Cardinality(FirstHit(text, k)) = 0 BY <2>2, FS_EmptySet
      <4>2. Reported(b.report, Patterns[p]) = IF hit # {} THEN Cardinality(FirstHit(text, k)) ELSE Reported(a.report, Patterns[p])
        BY <2>2, <2>3, <3>2, <3>3
      <4> HIDE DEF hit, b
      <4>3. QED BY <3>1, <3>3, <4>1, <4>2
    <3>4. CASE p # k
      <4>1. Reported(b.report, Patterns[p]) = Reported(a.report, Patterns[p]) BY <2>3, <3>2, <3>4
      <4>2. p <= k - 1 <=> p <= k BY <3>4
      <4>3. QED BY <3>1, <4>1, <4>2
    <3>5. QED BY <3>3, <3>4
  <2>6. After9(b, text, k) BY <2>4, <2>5 DEF After9
  <2>7. QED BY <2>6
<1>5. QED
  <2> HIDE DEF P
  <2>1. \A k \in 0 .. 9 : k \in P BY <1>3, <1>4, UpTo
  <2>2. QED BY <2>1 DEF P

\* What scrubbing makes of a text: each line that a pattern matches is redacted,
\* whichever matches it, and the others are as they were.
LEMMA ScrubEffect ==
  ASSUME NEW text \in Seq(ScrubbedLine)
  PROVE  /\ Scrubbed(text).text \in Seq(ScrubbedLine) /\ Len(Scrubbed(text).text) = Len(text)
         /\ After9(Scrubbed(text), text, 9)
         /\ \A j \in 1 .. Len(text) : j \in HitBy(text, 9) <=> text[j].token \cap Range(Patterns) # {}
<1>1. PICK t : ScrubRun(t, text) BY ScrubRuns
<1>2. t[9] = Scrubbed(text) /\ t[9] \in Scrubs(Len(text)) /\ Len(text) \in Nat BY <1>1 DEF ScrubRun
<1>3. After9(t[9], text, 9) BY <1>1, ScrubSteps
<1>4. t[9].text \in Seq(ScrubbedLine) /\ Len(t[9].text) = Len(text)
  <2>1. t[9].text \in [1 .. Len(text) -> ScrubbedLine] BY <1>2 DEF Scrubs
  <2>2. QED BY <1>2, <2>1
<1>5. ASSUME NEW j \in 1 .. Len(text) PROVE j \in HitBy(text, 9) <=> text[j].token \cap Range(Patterns) # {}
  <2>1. j \in DOMAIN text OBVIOUS
  <2>2. \A c : c \in Range(Patterns) <=> \E p \in 1 .. 9 : Patterns[p] = c BY PatternsDiffer DEF Range
  <2>3. QED BY <2>1, <2>2 DEF HitBy
<1>6. QED BY <1>2, <1>3, <1>4, <1>5

-----------------------------------------------------------------------------
(* Scrubbing is complete, and both backends send the same events.          *)

\* A scrub of what no pattern matches changes nothing and reports nothing.
LEMMA ScrubsOnce ==
  ASSUME NEW text \in Seq(ScrubbedLine), \A j \in 1 .. Len(text) : text[j].token \cap Range(Patterns) = {}
  PROVE  Scrubbed(text) = Unscrubbed(text)
<1> DEFINE n == Len(text)
           u == Unscrubbed(text)
<1>1. PICK t : ScrubRun(t, text) BY ScrubRuns
<1> DEFINE P == {k \in 0 .. 9 : t[k] = u}
<1>2. /\ \A k \in 0 .. 9 : t[k] \in Scrubs(n)
      /\ \A k \in 1 .. 9 : t[k] = Applied(t[k - 1], Patterns[k]) /\ Patterns[k] \in Range(Patterns)
      /\ t[0] = u /\ t[9] = Scrubbed(text) /\ n \in Nat
  BY <1>1, PatternsDiffer DEF ScrubRun, Range
<1>3. u.text = text BY DEF Unscrubbed
<1>4. \A c \in Range(Patterns) : {k \in 1 .. n : c \in u.text[k].token} = {} BY <1>3
<1>5. 0 \in P BY <1>2
<1>6. ASSUME NEW k \in 1 .. 9, k - 1 \in P PROVE k \in P
  <2>1. t[k] = Applied(u, Patterns[k]) /\ Patterns[k] \in Range(Patterns) BY <1>2, <1>6
  <2>2. u \in Scrubs(n)
    <3>1. 0 \in 0 .. 9 OBVIOUS
    <3>2. QED BY <1>2, <3>1
  <2> HIDE DEF u, n
  <2>3. Redacts(t[k], u, n, Patterns[k]) BY <1>2, <2>1, <2>2, AppliedScrubs
  <2>4. t[k] = u BY <1>4, <2>1, <2>3 DEF Redacts
  <2>5. QED BY <2>4
<1>7. \A k \in 0 .. 9 : k \in P
  <2> HIDE DEF P
  <2>1. QED BY <1>5, <1>6, UpTo
<1>8. 9 \in 0 .. 9 OBVIOUS
<1>9. QED BY <1>2, <1>7, <1>8

\* The first k patterns match the lines that each of them is the first to match.
LEMMA HitsAddUp ==
  ASSUME NEW text \in Seq(ScrubbedLine), NEW q \in Seq(Int), Len(q) = 9,
         \A p \in 1 .. 9 : q[p] = Cardinality(FirstHit(text, p))
  PROVE  SumOf(q) = Cardinality(HitBy(text, 9))
<1>1. PICK t : SumRun(t, q) BY SumRuns
<1> DEFINE P == {k \in 0 .. 9 : t[k] = Cardinality(HitBy(text, k))}
<1>2. t[0] = 0 /\ t[9] = SumOf(q) /\ \A k \in 1 .. 9 : t[k] = t[k - 1] + q[k] BY <1>1 DEF SumRun
<1>3. 0 \in P
  <2>1. HitBy(text, 0) = {} BY DEF HitBy
  <2>2. Cardinality(HitBy(text, 0)) = 0 BY <2>1, FS_EmptySet
  <2>3. 0 \in 0 .. 9 /\ t[0] = Cardinality(HitBy(text, 0)) BY <1>2, <2>2
  <2>4. QED BY <2>3
<1>4. \A k \in 0 .. 9 : IsFiniteSet(HitBy(text, k)) /\ Cardinality(HitBy(text, k)) \in Nat
  <2>1. Len(text) \in Nat /\ DOMAIN text = 1 .. Len(text) /\ 1 \in Int /\ Len(text) \in Int OBVIOUS
  <2>2. IsFiniteSet(DOMAIN text) BY <2>1, FS_Interval
  <2>3. \A k \in 0 .. 9 : HitBy(text, k) \in SUBSET (DOMAIN text) BY DEF HitBy
  <2>4. QED BY <2>2, <2>3, FS_Subset, FS_CardinalityType
<1>5. ASSUME NEW k \in 1 .. 9, k - 1 \in P PROVE k \in P
  <2> DEFINE A == HitBy(text, k - 1)
             G == FirstHit(text, k)
  <2>1. \A p \in 1 .. k : p \in 1 .. k - 1 \/ p = k OBVIOUS
  <2>2. k \in 1 .. k /\ \A p \in 1 .. k - 1 : p \in 1 .. k OBVIOUS
  <2>3. HitBy(text, k) = A \cup G /\ A \cap G = {}
    <3>1. ASSUME NEW j \in DOMAIN text
          PROVE  (j \in HitBy(text, k) <=> (j \in A \/ j \in G)) /\ ~(j \in A /\ j \in G)
      <4>1. j \in HitBy(text, k) <=> \E p \in 1 .. k : Patterns[p] \in text[j].token BY DEF HitBy
      <4>2. j \in A <=> \E p \in 1 .. k - 1 : Patterns[p] \in text[j].token BY DEF HitBy
      <4>3. j \in G <=> (Patterns[k] \in text[j].token /\ \A p \in 1 .. k - 1 : Patterns[p] \notin text[j].token)
        BY DEF FirstHit
      <4> HIDE DEF A, G
      <4>4. QED BY <2>1, <2>2, <4>1, <4>2, <4>3
    <3>2. HitBy(text, k) \subseteq DOMAIN text /\ A \subseteq DOMAIN text /\ G \subseteq DOMAIN text
      BY DEF HitBy, FirstHit
    <3> HIDE DEF A, G
    <3>3. QED BY <3>1, <3>2
  <2>4. IsFiniteSet(A) /\ IsFiniteSet(G)
    <3>1. k - 1 \in 0 .. 9 /\ k \in 0 .. 9 OBVIOUS
    <3>2. IsFiniteSet(A) /\ IsFiniteSet(HitBy(text, k)) BY <1>4, <3>1
    <3>3. G \in SUBSET HitBy(text, k) BY <2>3
    <3>4. QED BY <3>2, <3>3, FS_Subset
  <2> HIDE DEF A, G
  <2>5. Cardinality(A \cup G) = Cardinality(A) + Cardinality(G)
    <3>1. Cardinality(A \cup G) = Cardinality(A) + Cardinality(G) - Cardinality(A \cap G) BY <2>4, FS_Union
    <3>2. Cardinality(A \cap G) = 0 BY <2>3, FS_EmptySet
    <3>3. Cardinality(A) \in Nat /\ Cardinality(G) \in Nat BY <2>4, FS_CardinalityType
    <3>4. QED BY <3>1, <3>2, <3>3
  <2>6. t[k - 1] = Cardinality(A) BY <1>5 DEF A
  <2>7. t[k] = Cardinality(HitBy(text, k)) BY <1>2, <2>3, <2>5, <2>6 DEF G
  <2>8. QED BY <2>7
<1>6. \A k \in 0 .. 9 : k \in P
  <2> HIDE DEF P
  <2>1. QED BY <1>3, <1>5, UpTo
<1>7. 9 \in 0 .. 9 OBVIOUS
<1>8. QED BY <1>2, <1>6, <1>7

\* After a scrub no pattern matches, and a line is as it was or redacted.
LEMMA ScrubLeavesNothing ==
  ASSUME NEW text \in Seq(ScrubbedLine)
  PROVE  \A j \in 1 .. Len(text) : /\ Scrubbed(text).text[j].token \cap Range(Patterns) = {}
                                   /\ Scrubbed(text).text[j].token \in {text[j].token, Redacted}
<1>1. After9(Scrubbed(text), text, 9) BY ScrubEffect
<1>2. \A j \in 1 .. Len(text) : j \in HitBy(text, 9) <=> text[j].token \cap Range(Patterns) # {} BY ScrubEffect
<1>3. TAKE j \in 1 .. Len(text)
<1>4. Scrubbed(text).text[j] = IF j \in HitBy(text, 9) THEN RedLine(text[j]) ELSE text[j]
  <2>1. j \in DOMAIN text OBVIOUS
  <2>2. QED BY <1>1, <2>1 DEF After9
<1>5. RedLine(text[j]).token = Redacted /\ Redacted \cap Range(Patterns) = {} BY PatternsDiffer DEF RedLine, Redacted
<1>6. QED BY <1>2, <1>4, <1>5

\* scrub_pii, of any conversation.
LEMMA ScrubAlwaysComplete ==
  ASSUME NEW text \in Seq(RawLine)
  PROVE  ScrubIsComplete(text)
<1> DEFINE s == Scrubbed(text)
           q == [p \in DOMAIN Patterns |-> Reported(s.report, Patterns[p])]
<1>1. text \in Seq(ScrubbedLine)
  <2>1. RawLine \in SUBSET ScrubbedLine BY DEF RawLine, ScrubbedLine, Line
  <2> HIDE DEF q, s
  <2>2. QED BY <2>1
<1>2. s.text \in Seq(ScrubbedLine) /\ Len(s.text) = Len(text) BY <1>1, ScrubEffect
<1>3. After9(s, text, 9) BY <1>1, ScrubEffect
<1>4. \A j \in 1 .. Len(text) : s.text[j].token \cap Range(Patterns) = {} /\ s.text[j].token \in {text[j].token, Redacted}
  BY <1>1, ScrubLeavesNothing
<1> HIDE DEF s
<1>6. Scrubbed(s.text) = Unscrubbed(s.text) BY <1>2, <1>4, ScrubsOnce
<1>7. q \in Seq(Int) /\ Len(q) = 9 /\ \A p \in 1 .. 9 : q[p] = Cardinality(FirstHit(text, p))
  <2>1. \A p \in 1 .. 9 : Reported(s.report, Patterns[p]) = Cardinality(FirstHit(text, p)) BY <1>3 DEF After9
  <2>2. \A p \in 1 .. 9 : Cardinality(FirstHit(text, p)) \in Nat
    <3>1. Len(text) \in Nat /\ DOMAIN text = 1 .. Len(text) /\ 1 \in Int /\ Len(text) \in Int BY <1>1
    <3>2. IsFiniteSet(DOMAIN text) BY <3>1, FS_Interval
    <3>3. \A p \in 1 .. 9 : FirstHit(text, p) \in SUBSET (DOMAIN text) BY DEF FirstHit
    <3>4. QED BY <3>2, <3>3, FS_Subset, FS_CardinalityType
  <2>3. DOMAIN Patterns = 1 .. 9 BY PatternsDiffer
  <2>4. q \in [1 .. 9 -> Int] BY <2>1, <2>2, <2>3
  <2>5. QED BY <2>1, <2>3, <2>4
<1>8. SumOf(q) = Cardinality(HitBy(text, 9))
  <2> HIDE DEF q
  <2>1. QED BY <1>1, <1>7, HitsAddUp
<1>9. HitBy(text, 9) = {k \in DOMAIN s.text : s.text[k].token = Redacted}
  <2>1. DOMAIN s.text = 1 .. Len(text) /\ DOMAIN text = 1 .. Len(text) BY <1>1, <1>2
  <2>2. HitBy(text, 9) \in SUBSET (1 .. Len(text)) BY <2>1 DEF HitBy
  <2>3. ASSUME NEW j \in 1 .. Len(text) PROVE j \in HitBy(text, 9) <=> s.text[j].token = Redacted
    <3>1. s.text[j] = IF j \in HitBy(text, 9) THEN RedLine(text[j]) ELSE text[j] BY <1>3, <2>1 DEF After9
    <3>2. text[j].token # Redacted
      <4>1. text[j] \in RawLine OBVIOUS
      <4>2. text[j].token \in Tokens BY <4>1 DEF RawLine, Line
      <4>3. QED BY <4>2, PatternsDiffer DEF Tokens, Redacted, Blank
    <3>3. RedLine(text[j]).token = Redacted BY DEF RedLine
    <3>4. QED BY <3>1, <3>2, <3>3
  <2>4. QED BY <2>1, <2>2, <2>3
<1>10. \A k \in DOMAIN s.text : \A c \in Range(Patterns) : ~Matches(s.text[k].token, c)
  <2>1. DOMAIN s.text = 1 .. Len(text) BY <1>2
  <2>2. QED BY <1>4, <2>1 DEF Matches
<1>11. QED BY <1>6, <1>8, <1>9, <1>10 DEF ScrubIsComplete, s

\* The events of the two services differ by those without words.
LEMMA BackendsAlwaysSendAlike ==
  ASSUME NEW text, NEW S, text \in Seq(S)
  PROVE  BackendsSendAlike(text)
<1> DEFINE Ev(l) == [role |-> Role(l), token |-> l.token]
           T == {Ev(l) : l \in S}
           all == [k \in DOMAIN text |-> Ev(text[k])]
           D == {k \in DOMAIN text : ~(text[k].speaker = "" /\ text[k].token = Blank)}
           E == {k \in DOMAIN text : text[k].token # Blank}
           lines == Arranged(text, D, InPlace(D))
           words == Arranged(text, E, InPlace(E))
           client == ClientEvents(text)
           native == NativeEvents(text)
           W == {k \in DOMAIN client : client[k].token # Blank}
           r == Arranged(client, W, InPlace(W))
<1>1. client = [k \in DOMAIN lines |-> Ev(lines[k])] BY DEF ClientEvents, Kept
<1>2. native = [k \in DOMAIN words |-> Ev(words[k])] BY DEF NativeEvents, Kept
<1>3. Kept(client, LAMBDA e : e.token # Blank) = r BY DEF Kept
<1>4. D \in SUBSET (DOMAIN text) /\ E \in SUBSET D /\ DOMAIN text \in SUBSET Int
  <2>1. D \in SUBSET (DOMAIN text) /\ E \in SUBSET D OBVIOUS
  <2>2. DOMAIN text \in SUBSET Int OBVIOUS
  <2>3. QED BY <2>1, <2>2
<1>5. lines \in Seq(S) /\ \E f : Takes(f, lines, text, D)
  <2> HIDE DEF D
  <2>1. QED BY <1>4, ArrangedInPlace
<1>6. words \in Seq(S) /\ \E f : Takes(f, words, text, E)
  <2>1. E \in SUBSET (DOMAIN text) OBVIOUS
  <2> HIDE DEF E
  <2>2. QED BY <2>1, ArrangedInPlace
<1>7. PICK f : Takes(f, lines, text, D) BY <1>5
<1>8. PICK g : Takes(g, words, text, E) BY <1>6
<1>17. lines \in Seq(S) /\ words \in Seq(S) BY <1>5, <1>6
<1> HIDE DEF lines, words, client, native
<1>18. DOMAIN lines = 1 .. Len(lines) /\ DOMAIN words = 1 .. Len(words) /\ Len(lines) \in Nat /\ Len(words) \in Nat
  <2> HIDE DEF all, T, D, E, W, r, Ev
  <2>1. QED BY <1>17
<1>9. client \in Seq(T) /\ Len(client) = Len(lines) /\ native \in Seq(T) /\ Len(native) = Len(words)
  <2>1. \A l \in S : Ev(l) \in T OBVIOUS
  <2> HIDE DEF Ev, T, all, D, E, W, r
  <2>2. client \in [1 .. Len(lines) -> T]
    <3>1. \A k \in 1 .. Len(lines) : lines[k] \in S BY <1>17
    <3>2. QED BY <1>1, <1>18, <2>1, <3>1
  <2>3. native \in [1 .. Len(words) -> T]
    <3>1. \A k \in 1 .. Len(words) : words[k] \in S BY <1>17
    <3>2. QED BY <1>2, <1>18, <2>1, <3>1
  <2>4. QED BY <1>18, <2>2, <2>3
<1>10. Takes(f, client, all, D)
  <2>1. \A k \in 1 .. Len(lines) : f[k] \in D /\ lines[k] = text[f[k]] BY <1>7 DEF Takes
  <2>2. ASSUME NEW k \in 1 .. Len(lines) PROVE client[k] = all[f[k]]
    <3>1. k \in DOMAIN lines BY <1>18
    <3>2. f[k] \in DOMAIN text BY <1>4, <2>1
    <3> HIDE DEF Ev, D
    <3>3. client[k] = Ev(lines[k]) /\ all[f[k]] = Ev(text[f[k]]) BY <1>1, <3>1, <3>2
    <3>4. QED BY <2>1, <3>3
  <2>3. D \in SUBSET (DOMAIN text) BY <1>4
  <2> HIDE DEF D, all
  <2>4. QED BY <1>7, <1>9, <2>2, <2>3, TakesReplaced
<1>11. Takes(g, native, all, E)
  <2>1. \A k \in 1 .. Len(words) : g[k] \in E /\ words[k] = text[g[k]] BY <1>8 DEF Takes
  <2>2. ASSUME NEW k \in 1 .. Len(words) PROVE native[k] = all[g[k]]
    <3>1. k \in DOMAIN words BY <1>18
    <3>2. g[k] \in DOMAIN text BY <2>1
    <3> HIDE DEF Ev, E
    <3>3. native[k] = Ev(words[k]) /\ all[g[k]] = Ev(text[g[k]]) BY <1>2, <3>1, <3>2
    <3>4. QED BY <2>1, <3>3
  <2>3. E \in SUBSET (DOMAIN text) BY <1>4
  <2> HIDE DEF E, all
  <2>4. QED BY <1>8, <1>9, <2>2, <2>3, TakesReplaced
<1>12. r \in Seq(T) /\ \E h : Takes(h, r, client, W)
  <2>1. W \in SUBSET (DOMAIN client) OBVIOUS
  <2> HIDE DEF W, T
  <2>2. QED BY <1>9, <2>1, ArrangedInPlace
<1>13. (\A e \in W : f[e] \in E) /\ \A a \in E : \E e \in W : f[e] = a
  <2>1. DOMAIN client = 1 .. Len(client) BY <1>9
  <2>2. \A k \in DOMAIN client : f[k] \in D /\ f[k] \in DOMAIN text /\ client[k] = all[f[k]]
    BY <1>4, <1>10, <2>1 DEF Takes
  <2>3. \A a \in D : \E k \in DOMAIN client : f[k] = a BY <1>10, <2>1 DEF Takes
  <2>4. \A k \in DOMAIN client : client[k].token = text[f[k]].token
    <3>1. \A a \in DOMAIN text : all[a].token = text[a].token OBVIOUS
    <3> HIDE DEF all
    <3>2. QED BY <2>2, <3>1
  <2>5. \A k \in W : f[k] \in E BY <2>2, <2>4
  <2>6. \A a \in E : \E k \in W : f[k] = a BY <1>4, <2>3, <2>4
  <2> HIDE DEF W, E
  <2>7. QED BY <2>5, <2>6
<1>14. \E h : Takes(h, r, all, E)
  <2>1. PICK h : Takes(h, r, client, W) BY <1>12
  <2>2. D \in SUBSET Int /\ W \in SUBSET (DOMAIN client) BY <1>4
  <2>3. Carries(f, W, E) BY <1>13 DEF Carries
  <2>5. r \in Seq(T) /\ client \in Seq(T) BY <1>9, <1>12
  <2>6. Takes(f, client, all, D) BY <1>10
  <2> HIDE DEF D, W, E, T, all, r, Ev
  <2>7. QED BY <2>1, <2>2, <2>3, <2>5, <2>6, TakesOfTakes
<1>15. native = r
  <2>1. PICK h : Takes(h, r, all, E) BY <1>14
  <2>2. E \in SUBSET Int BY <1>4
  <2>3. r \in Seq(T) /\ native \in Seq(T) BY <1>9, <1>12
  <2>4. Takes(g, native, all, E) BY <1>11
  <2> HIDE DEF D, W, E, T, all, r, Ev
  <2>5. QED BY <2>1, <2>2, <2>3, <2>4, TakesOnce
<1> HIDE DEF r
<1>16. QED BY <1>3, <1>15 DEF BackendsSendAlike, client, native

-----------------------------------------------------------------------------
(* Sorting: what is pruned.                                                *)

\* The order of two keys, both descending, which leaves equal ones in their places.
ByKeys(D, u, v) ==
  {p \in D \X D : \/ u[p[1]] > u[p[2]]
                  \/ u[p[1]] = u[p[2]] /\ v[p[1]] > v[p[2]]
                  \/ u[p[1]] = u[p[2]] /\ v[p[1]] = v[p[2]] /\ p[1] <= p[2]}

LEMMA KeysOrder ==
  ASSUME NEW D \in SUBSET Int, NEW u \in [D -> Int], NEW v \in [D -> Int]
  PROVE  Orders(D, ByKeys(D, u, v))
<1>1. \A a \in D : a \in Int /\ u[a] \in Int /\ v[a] \in Int OBVIOUS
<1>2. \A a, b \in D : <<a, b>> \in ByKeys(D, u, v) <=>
        (\/ u[a] > u[b]
         \/ u[a] = u[b] /\ v[a] > v[b]
         \/ u[a] = u[b] /\ v[a] = v[b] /\ a <= b)
  BY DEF ByKeys
<1>3. \A a \in D : <<a, a>> \in ByKeys(D, u, v) BY <1>1, <1>2
<1>4. \A a, b \in D : <<a, b>> \in ByKeys(D, u, v) \/ <<b, a>> \in ByKeys(D, u, v)
  <2> TAKE a, b \in D
  <2>1. a \in Int /\ b \in Int /\ u[a] \in Int /\ u[b] \in Int /\ v[a] \in Int /\ v[b] \in Int BY <1>1
  <2>2. QED BY <1>2, <2>1
<1>5. \A a, b \in D : <<a, b>> \in ByKeys(D, u, v) /\ <<b, a>> \in ByKeys(D, u, v) => a = b BY <1>1, <1>2
<1>6. \A a, b, c \in D : <<a, b>> \in ByKeys(D, u, v) /\ <<b, c>> \in ByKeys(D, u, v) => <<a, c>> \in ByKeys(D, u, v)
  <2> TAKE a, b, c \in D
  <2>1. /\ a \in Int /\ b \in Int /\ c \in Int /\ u[a] \in Int /\ u[b] \in Int /\ u[c] \in Int
        /\ v[a] \in Int /\ v[b] \in Int /\ v[c] \in Int
    BY <1>1
  <2>2. QED BY <1>2, <2>1
<1>7. QED BY <1>3, <1>4, <1>5, <1>6 DEF Orders

\* r is s sorted by the keys u and v; f tells the place of each.
SortsBy(f, r, s, u, v) ==
  /\ f \in [1 .. Len(s) -> 1 .. Len(s)] /\ Len(r) = Len(s)
  /\ \A a \in 1 .. Len(s) : \E k \in 1 .. Len(s) : f[k] = a
  /\ \A k \in 1 .. Len(s) : r[k] = s[f[k]]
  /\ \A j, k \in 1 .. Len(s) : j < k =>
       /\ f[j] # f[k]
       /\ \/ u[f[j]] > u[f[k]]
          \/ u[f[j]] = u[f[k]] /\ v[f[j]] > v[f[k]]
          \/ u[f[j]] = u[f[k]] /\ v[f[j]] = v[f[k]] /\ f[j] < f[k]

LEMMA SortedByKeys ==
  ASSUME NEW S, NEW s \in Seq(S), NEW u \in [DOMAIN s -> Int], NEW v \in [DOMAIN s -> Int]
  PROVE  /\ Arranged(s, DOMAIN s, ByKeys(DOMAIN s, u, v)) \in Seq(S)
         /\ \E f : SortsBy(f, Arranged(s, DOMAIN s, ByKeys(DOMAIN s, u, v)), s, u, v)
<1> DEFINE D == DOMAIN s
           R == ByKeys(D, u, v)
           r == Arranged(s, D, R)
<1>1. D \in SUBSET Int /\ D = 1 .. Len(s) /\ Len(s) \in Nat OBVIOUS
<1>2. Orders(D, R) BY <1>1, KeysOrder
<1>3. \A a, b \in D : <<a, b>> \in R <=>
        (\/ u[a] > u[b]
         \/ u[a] = u[b] /\ v[a] > v[b]
         \/ u[a] = u[b] /\ v[a] = v[b] /\ a <= b)
  BY DEF ByKeys
<1> HIDE DEF R
<1>4. /\ r \in Seq(S) /\ Len(r) = Len(s)
      /\ \E f : Enumerates(f, D, R) /\ Cardinality(D) = Len(s) /\ \A k \in 1 .. Len(s) : r[k] = s[f[k]]
  BY <1>2, ArrangedAll
<1>5. PICK f : Enumerates(f, D, R) /\ Cardinality(D) = Len(s) /\ \A k \in 1 .. Len(s) : r[k] = s[f[k]] BY <1>4
<1> HIDE DEF r
<1>6. /\ f \in [1 .. Len(s) -> D]
      /\ \A a \in D : \E k \in 1 .. Len(s) : f[k] = a
      /\ \A j, k \in 1 .. Len(s) : j < k => f[j] # f[k] /\ <<f[j], f[k]>> \in R
  BY <1>5 DEF Enumerates
<1>7. ASSUME NEW j \in 1 .. Len(s), NEW k \in 1 .. Len(s), j < k
      PROVE  /\ f[j] # f[k]
             /\ \/ u[f[j]] > u[f[k]]
                \/ u[f[j]] = u[f[k]] /\ v[f[j]] > v[f[k]]
                \/ u[f[j]] = u[f[k]] /\ v[f[j]] = v[f[k]] /\ f[j] < f[k]
  <2>1. f[j] \in D /\ f[k] \in D /\ f[j] # f[k] /\ <<f[j], f[k]>> \in R BY <1>6, <1>7
  <2>2. f[j] \in Int /\ f[k] \in Int BY <1>1, <2>1
  <2>3. \/ u[f[j]] > u[f[k]]
        \/ u[f[j]] = u[f[k]] /\ v[f[j]] > v[f[k]]
        \/ u[f[j]] = u[f[k]] /\ v[f[j]] = v[f[k]] /\ f[j] <= f[k]
    BY <1>3, <2>1
  <2> HIDE DEF D
  <2>4. f[j] <= f[k] => f[j] < f[k] BY <2>1, <2>2
  <2>5. QED BY <2>1, <2>3, <2>4
<1>8. SortsBy(f, r, s, u, v) BY <1>1, <1>4, <1>5, <1>6, <1>7 DEF SortsBy
<1>9. QED BY <1>4, <1>8 DEF r, R

Importance(ms) == [k \in DOMAIN ms |-> ms[k].importance]
Score(ms) == [k \in DOMAIN ms |-> ms[k].score]

LEMMA MemoriesHaveKeys ==
  ASSUME NEW ms, AreMemories(ms)
  PROVE  /\ ms \in Seq(Range(ms)) /\ DOMAIN ms = 1 .. Len(ms) /\ Len(ms) \in Nat
         /\ Importance(ms) \in [DOMAIN ms -> Int] /\ Score(ms) \in [DOMAIN ms -> Int]
         /\ \A k \in DOMAIN ms : ms[k].importance \in Int /\ ms[k].score \in Int /\ IsList(ms[k].topics)
<1>1. ms \in Seq(Range(ms)) BY DEF AreMemories, IsList
<1>2. \A k \in DOMAIN ms : ms[k].importance \in Int /\ ms[k].score \in Int /\ IsList(ms[k].topics) BY DEF AreMemories
<1>3. DOMAIN ms = 1 .. Len(ms) /\ Len(ms) \in Nat BY <1>1
<1>4. QED BY <1>1, <1>2, <1>3 DEF Importance, Score

\* prune sorts by importance and score.
LEMMA RankedIsSorted ==
  ASSUME NEW ms, AreMemories(ms)
  PROVE  Sorted(ms, KeepBefore) = Arranged(ms, DOMAIN ms, ByKeys(DOMAIN ms, Importance(ms), Score(ms)))
<1> DEFINE D == DOMAIN ms
           R == {p \in D \X D : KeepBefore(ms[p[1]], ms[p[2]]) \/ (~KeepBefore(ms[p[2]], ms[p[1]]) /\ p[1] <= p[2])}
           Q == ByKeys(D, Importance(ms), Score(ms))
<1>1. \A k \in D : ms[k].importance \in Int /\ ms[k].score \in Int /\ k \in Int BY MemoriesHaveKeys
<1>2. ASSUME NEW p \in D \X D PROVE p \in R <=> p \in Q
  <2>1. p[1] \in D /\ p[2] \in D OBVIOUS
  <2>2. /\ ms[p[1]].importance \in Int /\ ms[p[1]].score \in Int /\ p[1] \in Int
        /\ ms[p[2]].importance \in Int /\ ms[p[2]].score \in Int /\ p[2] \in Int
    BY <1>1, <2>1
  <2>3. /\ Importance(ms)[p[1]] = ms[p[1]].importance /\ Importance(ms)[p[2]] = ms[p[2]].importance
        /\ Score(ms)[p[1]] = ms[p[1]].score /\ Score(ms)[p[2]] = ms[p[2]].score
    BY <2>1 DEF Importance, Score
  <2>4. QED BY <2>2, <2>3 DEF ByKeys, KeepBefore
<1>3. R \subseteq D \X D /\ Q \subseteq D \X D BY DEF ByKeys
<1>4. Sorted(ms, KeepBefore) = Arranged(ms, D, R) BY DEF Sorted
<1> HIDE DEF R, Q
<1>5. R = Q BY <1>2, <1>3
<1>6. QED BY <1>4, <1>5 DEF Q

\* The prompt sorts by importance alone.
LEMMA ImportantIsSorted ==
  ASSUME NEW ms, AreMemories(ms)
  PROVE  SortByImportance(ms) = Arranged(ms, DOMAIN ms, ByKeys(DOMAIN ms, Importance(ms), [k \in DOMAIN ms |-> 0]))
<1> DEFINE D == DOMAIN ms
           R == {p \in D \X D : MoreImportant(ms[p[1]], ms[p[2]]) \/ (~MoreImportant(ms[p[2]], ms[p[1]]) /\ p[1] <= p[2])}
           Q == ByKeys(D, Importance(ms), [k \in D |-> 0])
<1>1. \A k \in D : ms[k].importance \in Int /\ k \in Int BY MemoriesHaveKeys
<1>2. ASSUME NEW p \in D \X D PROVE p \in R <=> p \in Q
  <2>1. p[1] \in D /\ p[2] \in D OBVIOUS
  <2>2. ms[p[1]].importance \in Int /\ p[1] \in Int /\ ms[p[2]].importance \in Int /\ p[2] \in Int BY <1>1, <2>1
  <2>3. Importance(ms)[p[1]] = ms[p[1]].importance /\ Importance(ms)[p[2]] = ms[p[2]].importance
    BY <2>1 DEF Importance
  <2>4. QED BY <2>2, <2>3 DEF ByKeys, MoreImportant
<1>3. R \subseteq D \X D /\ Q \subseteq D \X D BY DEF ByKeys
<1>4. SortByImportance(ms) = Arranged(ms, D, R) BY DEF SortByImportance, Sorted
<1> HIDE DEF R, Q
<1>5. R = Q BY <1>2, <1>3
<1>6. QED BY <1>4, <1>5 DEF Q

LEMMA MaxOfTwo == ASSUME NEW a \in Int, NEW b \in Int PROVE Max({a, b}) = IF b >= a THEN b ELSE a
<1>1. \E m \in {a, b} : \A k \in {a, b} : m >= k OBVIOUS
<1>2. Max({a, b}) \in {a, b} /\ \A k \in {a, b} : Max({a, b}) >= k
  <2>1. Max({a, b}) = CHOOSE m \in {a, b} : \A k \in {a, b} : m >= k BY DEF Max
  <2>2. QED BY <1>1, <2>1
<1>3. QED BY <1>2

LEMMA CutTakes ==
  ASSUME NEW S, NEW s \in Seq(S), NEW n \in Nat
  PROVE  /\ Cut(s, n) \in Seq(S) /\ Len(Cut(s, n)) = (IF n <= Len(s) THEN n ELSE Len(s))
         /\ \A k \in 1 .. Len(Cut(s, n)) : k \in 1 .. Len(s) /\ Cut(s, n)[k] = s[k]
         /\ Len(s) <= n => Cut(s, n) = s
<1> DEFINE m == Min({n, Len(s)})
<1>1. Len(s) \in Nat OBVIOUS
<1>2. m = IF n <= Len(s) THEN n ELSE Len(s) BY <1>1, MinOfTwo
<1>3. Cut(s, n) = SubSeq(s, 1, m) BY DEF Cut
<1> HIDE DEF m
<1>4. m \in Nat /\ m <= Len(s) BY <1>1, <1>2
<1>5. SubSeq(s, 1, m) \in Seq(S) /\ Len(SubSeq(s, 1, m)) = m /\ \A k \in 1 .. m : SubSeq(s, 1, m)[k] = s[k] /\ k \in 1 .. Len(s)
  BY <1>4
<1>6. ASSUME Len(s) <= n PROVE SubSeq(s, 1, m) = s
  <2>1. m = Len(s) BY <1>1, <1>2, <1>6
  <2>2. QED BY <1>5, <2>1
<1>7. QED BY <1>2, <1>3, <1>5, <1>6

LEMMA PruneAlwaysKeepsTheBest ==
  ASSUME NEW ms, AreMemories(ms), NEW max \in Nat
  PROVE  PruneKeepsTheBest(ms, max)
<1> DEFINE n == Len(ms)
           u == Importance(ms)
           v == Score(ms)
           q == Sorted(ms, KeepBefore)
           kept == Pruned(ms, max)
<1>1. ms \in Seq(Range(ms)) /\ n \in Nat /\ DOMAIN ms = 1 .. n /\ u \in [DOMAIN ms -> Int] /\ v \in [DOMAIN ms -> Int]
  BY MemoriesHaveKeys
<1>2. q = Arranged(ms, DOMAIN ms, ByKeys(DOMAIN ms, u, v)) BY RankedIsSorted
<1>3. \A k \in DOMAIN ms : u[k] = ms[k].importance /\ v[k] = ms[k].score /\ u[k] \in Int /\ v[k] \in Int
  BY MemoriesHaveKeys DEF Importance, Score
<1> HIDE DEF q, u, v
<1>4. q \in Seq(Range(ms)) /\ \E f : SortsBy(f, q, ms, u, v) BY <1>1, <1>2, SortedByKeys
<1>5. PICK f : SortsBy(f, q, ms, u, v) BY <1>4
<1>6. /\ f \in [1 .. n -> 1 .. n] /\ Len(q) = n
      /\ \A a \in 1 .. n : \E k \in 1 .. n : f[k] = a
      /\ \A k \in 1 .. n : q[k] = ms[f[k]]
  BY <1>1, <1>5 DEF SortsBy
<1>14. ASSUME NEW j \in 1 .. n, NEW k \in 1 .. n, j < k
       PROVE  u[f[j]] > u[f[k]] \/ (u[f[j]] = u[f[k]] /\ v[f[j]] >= v[f[k]])
  <2>1. /\ f[j] \in DOMAIN ms /\ f[k] \in DOMAIN ms
        /\ \/ u[f[j]] > u[f[k]]
           \/ u[f[j]] = u[f[k]] /\ v[f[j]] > v[f[k]]
           \/ u[f[j]] = u[f[k]] /\ v[f[j]] = v[f[k]]
    BY <1>1, <1>5, <1>6, <1>14 DEF SortsBy
  <2>2. v[f[j]] \in Int /\ v[f[k]] \in Int BY <1>3, <2>1
  <2>3. QED BY <2>1, <2>2
<1>7. kept = Cut(q, max) BY DEF Pruned, q
<1>8. /\ kept \in Seq(Range(ms)) /\ Len(kept) = (IF max <= n THEN max ELSE n)
      /\ \A k \in 1 .. Len(kept) : k \in 1 .. n /\ kept[k] = q[k]
  BY <1>4, <1>6, <1>7, CutTakes
<1> HIDE DEF n, kept
<1>9. Len(kept) = Min({max, n}) BY <1>1, <1>8, MinOfTwo
<1>10. n - Len(kept) = Max({0, n - max})
  <2>1. Max({0, n - max}) = IF n - max >= 0 THEN n - max ELSE 0
    <3> DEFINE d == n - max
    <3>1. d \in Int BY <1>1
    <3> HIDE DEF d
    <3>2. Max({0, d}) = IF d >= 0 THEN d ELSE 0 BY <3>1, MaxOfTwo
    <3>3. QED BY <3>2 DEF d
  <2>2. QED BY <1>1, <1>8, <2>1
<1>11. ASSUME NEW k \in DOMAIN ms, ~Contains(kept, ms[k]), NEW j \in DOMAIN kept
       PROVE  ~KeepBefore(ms[k], kept[j])
  <2>1. k \in 1 .. n /\ DOMAIN kept = 1 .. Len(kept) /\ Len(kept) \in Nat BY <1>1, <1>8
  <2>2. PICK x \in 1 .. n : f[x] = k BY <1>6, <2>1
  <2>3. \A e \in 1 .. Len(kept) : kept[e] # ms[k] BY <1>11, <2>1 DEF Contains
  <2>4. x \notin 1 .. Len(kept) BY <1>6, <1>8, <2>2, <2>3
  <2>5. j \in 1 .. n /\ kept[j] = ms[f[j]] /\ f[j] \in 1 .. n /\ f[j] \in DOMAIN ms BY <1>1, <1>6, <1>8, <2>1
  <2>6. j < x BY <1>1, <2>1, <2>4, <2>5
  <2>7. u[f[j]] > u[k] \/ (u[f[j]] = u[k] /\ v[f[j]] >= v[k]) BY <1>6, <1>14, <2>2, <2>5, <2>6
  <2>8. QED BY <1>3, <2>5, <2>7 DEF KeepBefore
<1>12. Consolidation(ms, max).pruned = n - Len(kept) BY DEF Consolidation, n, kept
<1>13. QED BY <1>9, <1>10, <1>11, <1>12 DEF PruneKeepsTheBest, n, kept

-----------------------------------------------------------------------------
(* The prompt, topic by topic, and the candidates of the consolidator.     *)

\* The keys of a dictionary: each once.
LEMMA FirstsAreKeys ==
  ASSUME NEW S, NEW s \in Seq(S)
  PROVE  /\ Firsts(s) \in Seq(S)
         /\ \A j, k \in DOMAIN Firsts(s) : Firsts(s)[j] = Firsts(s)[k] => j = k
         /\ \A k \in DOMAIN s : \E g \in DOMAIN Firsts(s) : Firsts(s)[g] = s[k]
         /\ \A g \in DOMAIN Firsts(s) : \E k \in DOMAIN s : Firsts(s)[g] = s[k]
<1> DEFINE D == {k \in DOMAIN s : \A j \in 1 .. k - 1 : s[j] # s[k]}
           r == Firsts(s)
<1>1. D \in SUBSET (DOMAIN s) /\ DOMAIN s = 1 .. Len(s) /\ Len(s) \in Nat OBVIOUS
<1>2. r = Arranged(s, D, InPlace(D)) BY DEF Firsts
<1>3. \A k \in D : \A j \in 1 .. k - 1 : s[j] # s[k] OBVIOUS
<1>4. ASSUME NEW k \in DOMAIN s PROVE \E a \in D : s[a] = s[k]
  <2> DEFINE Q == {j \in 1 .. Len(s) : s[j] = s[k]}
  <2>1. Q \in SUBSET Nat /\ k \in Q BY <1>1
  <2>2. PICK a \in Q : \A j \in Q : a <= j
    <3> HIDE DEF Q
    <3>1. QED BY <2>1, LeastMember
  <2>3. a \in DOMAIN s /\ s[a] = s[k] /\ a \in 1 .. Len(s) BY <1>1
  <2>4. ASSUME NEW j \in 1 .. a - 1 PROVE s[j] # s[a]
    <3>1. j \in 1 .. Len(s) /\ j < a BY <1>1, <2>3
    <3>2. j \notin Q BY <2>2, <2>3, <3>1
    <3>3. QED BY <2>3, <3>1, <3>2
  <2>5. a \in D BY <2>3, <2>4
  <2>6. QED BY <2>3, <2>5
<1> HIDE DEF D, r
<1>5. r \in Seq(S) /\ \E f : Takes(f, r, s, D) BY <1>1, <1>2, ArrangedInPlace
<1>6. PICK f : Takes(f, r, s, D) BY <1>5
<1>7. DOMAIN r = 1 .. Len(r) /\ Len(r) \in Nat BY <1>5
<1>8. /\ \A k \in 1 .. Len(r) : f[k] \in D /\ f[k] \in 1 .. Len(s) /\ r[k] = s[f[k]]
      /\ \A a \in D : \E k \in 1 .. Len(r) : f[k] = a
      /\ \A j, k \in 1 .. Len(r) : j < k => f[j] < f[k]
  BY <1>1, <1>6 DEF Takes
<1>9. ASSUME NEW j \in 1 .. Len(r), NEW k \in 1 .. Len(r), j < k PROVE r[j] # r[k]
  <2>1. f[j] < f[k] /\ f[j] \in 1 .. Len(s) /\ f[k] \in 1 .. Len(s) /\ f[k] \in D BY <1>8, <1>9
  <2>2. f[j] \in 1 .. f[k] - 1 BY <2>1
  <2>3. QED BY <1>3, <1>8, <2>1, <2>2
<1>10. \A j, k \in DOMAIN r : r[j] = r[k] => j = k
  <2> TAKE j, k \in DOMAIN r
  <2>1. j < k \/ k < j \/ j = k BY <1>7
  <2>2. QED BY <1>7, <1>9, <2>1
<1>11. \A k \in DOMAIN s : \E g \in DOMAIN r : r[g] = s[k]
  <2> TAKE k \in DOMAIN s
  <2>1. PICK a \in D : s[a] = s[k] BY <1>4
  <2>2. PICK g \in 1 .. Len(r) : f[g] = a BY <1>8
  <2>3. QED BY <1>7, <1>8, <2>1, <2>2
<1>12. \A g \in DOMAIN r : \E k \in DOMAIN s : r[g] = s[k] BY <1>1, <1>7, <1>8
<1>13. QED BY <1>5, <1>10, <1>11, <1>12 DEF r

LEMMA FewerMemories ==
  ASSUME NEW ms, AreMemories(ms), NEW q \in Seq(Range(ms))
  PROVE  AreMemories(q) /\ q \in Seq(Range(q))
<1>1. DOMAIN q = 1 .. Len(q) /\ Len(q) \in Nat /\ \A k \in DOMAIN q : q[k] \in Range(ms) OBVIOUS
<1>2. q = [k \in 1 .. Len(q) |-> q[k]] OBVIOUS
<1>3. q \in Seq(Range(q))
  <2>1. \A k \in 1 .. Len(q) : q[k] \in Range(q) BY <1>1 DEF Range
  <2>2. q \in [1 .. Len(q) -> Range(q)] BY <1>2, <2>1
  <2>3. QED BY <1>1, <2>2
<1>4. ASSUME NEW k \in DOMAIN q PROVE IsList(q[k].topics) /\ {q[k].importance, q[k].score} \subseteq Int
  <2>1. PICK j \in DOMAIN ms : ms[j] = q[k] BY <1>1 DEF Range
  <2>2. QED BY <2>1 DEF AreMemories
<1>5. QED BY <1>3, <1>4 DEF AreMemories, IsList

\* What the prompt shows of one topic, and the memories of one importance in it.
Shown(ms, topic) == SortByImportance(GroupOf(ms, topic))
Alike(ms, topic, v) == Kept(ms, LAMBDA m : PrimaryTopic(m) = topic /\ m.importance = v)
OfImportance(ms, v) == Kept(ms, LAMBDA m : m.importance = v)

\* f and e tell where the group, and what is shown of it, come from.
ShownRun(f, e, ms, topic) ==
  /\ Takes(f, GroupOf(ms, topic), ms, {k \in DOMAIN ms : PrimaryTopic(ms[k]) = topic})
  /\ SortsBy(e, Shown(ms, topic), GroupOf(ms, topic), Importance(GroupOf(ms, topic)), [k \in DOMAIN GroupOf(ms, topic) |-> 0])

LEMMA ShownIsSorted ==
  ASSUME NEW ms, AreMemories(ms), NEW topic
  PROVE  /\ GroupOf(ms, topic) \in Seq(Range(ms)) /\ AreMemories(GroupOf(ms, topic))
         /\ Shown(ms, topic) \in Seq(Range(ms))
         /\ \E f, e : ShownRun(f, e, ms, topic)
<1> DEFINE D == {k \in DOMAIN ms : PrimaryTopic(ms[k]) = topic}
           q == GroupOf(ms, topic)
<1>1. ms \in Seq(Range(ms)) /\ D \in SUBSET (DOMAIN ms) BY MemoriesHaveKeys
<1>2. q = Arranged(ms, D, InPlace(D)) BY DEF GroupOf, Kept
<1> HIDE DEF D, q
<1>3. q \in Seq(Range(ms)) /\ \E f : Takes(f, q, ms, D) BY <1>1, <1>2, ArrangedInPlace
<1>4. AreMemories(q) /\ q \in Seq(Range(q)) BY <1>3, FewerMemories
<1>5. Importance(q) \in [DOMAIN q -> Int] /\ [k \in DOMAIN q |-> 0] \in [DOMAIN q -> Int] BY <1>4, MemoriesHaveKeys
<1>6. SortByImportance(q) = Arranged(q, DOMAIN q, ByKeys(DOMAIN q, Importance(q), [k \in DOMAIN q |-> 0]))
  BY <1>4, ImportantIsSorted
<1>7. /\ SortByImportance(q) \in Seq(Range(ms))
      /\ \E e : SortsBy(e, SortByImportance(q), q, Importance(q), [k \in DOMAIN q |-> 0])
  BY <1>3, <1>5, <1>6, SortedByKeys
<1>8. PICK f : Takes(f, q, ms, D) BY <1>3
<1>9. PICK e : SortsBy(e, SortByImportance(q), q, Importance(q), [k \in DOMAIN q |-> 0]) BY <1>7
<1>10. ShownRun(f, e, ms, topic) BY <1>8, <1>9 DEF ShownRun, Shown, q, D
<1>11. QED BY <1>3, <1>4, <1>7, <1>10 DEF q, Shown

\* The same, place by place.
ShownAt(f, e, ms, topic, q, shown, n) ==
  /\ n \in Nat /\ DOMAIN q = 1 .. n /\ DOMAIN shown = 1 .. n
  /\ \A k \in 1 .. n : /\ f[k] \in DOMAIN ms /\ f[k] \in Int /\ PrimaryTopic(ms[f[k]]) = topic
                       /\ q[k] = ms[f[k]] /\ q[k].importance \in Int
                       /\ e[k] \in 1 .. n /\ shown[k] = q[e[k]]
  /\ \A a \in DOMAIN ms : PrimaryTopic(ms[a]) = topic => \E k \in 1 .. n : f[k] = a
  /\ \A a \in 1 .. n : \E k \in 1 .. n : e[k] = a
  /\ \A j, k \in 1 .. n : j < k => f[j] < f[k]
  /\ \A j, k \in 1 .. n : j < k => \/ shown[j].importance > shown[k].importance
                                   \/ (shown[j].importance = shown[k].importance /\ e[j] < e[k])

LEMMA ShownPlaces ==
  ASSUME NEW ms, AreMemories(ms), NEW topic, NEW f, NEW e, ShownRun(f, e, ms, topic)
  PROVE  ShownAt(f, e, ms, topic, GroupOf(ms, topic), Shown(ms, topic), Len(GroupOf(ms, topic)))
<1> DEFINE q == GroupOf(ms, topic)
           shown == Shown(ms, topic)
           n == Len(q)
           u == Importance(q)
           D == {k \in DOMAIN ms : PrimaryTopic(ms[k]) = topic}
           z == [k \in DOMAIN q |-> 0]
<1>1. q \in Seq(Range(ms)) /\ AreMemories(q) /\ shown \in Seq(Range(ms)) BY ShownIsSorted
<1>2. Takes(f, q, ms, D) /\ SortsBy(e, shown, q, u, z) BY DEF ShownRun
<1>3. D \subseteq DOMAIN ms /\ DOMAIN ms \subseteq Int
  <2>1. DOMAIN ms = 1 .. Len(ms) BY MemoriesHaveKeys
  <2>2. QED BY <2>1
<1>4. \A k \in D : PrimaryTopic(ms[k]) = topic /\ k \in DOMAIN ms OBVIOUS
<1>5. \A k \in DOMAIN ms : PrimaryTopic(ms[k]) = topic => k \in D OBVIOUS
<1> HIDE DEF q, shown, D
<1>6. n \in Nat /\ DOMAIN q = 1 .. n BY <1>1
<1>7. \A k \in 1 .. n : u[k] = q[k].importance /\ q[k].importance \in Int /\ z[k] = 0
  BY <1>1, <1>6, MemoriesHaveKeys DEF Importance
<1> HIDE DEF n, u, z
<1>8. /\ \A k \in 1 .. n : f[k] \in D /\ q[k] = ms[f[k]]
      /\ \A a \in D : \E k \in 1 .. n : f[k] = a
      /\ \A j, k \in 1 .. n : j < k => f[j] < f[k]
  BY <1>2 DEF Takes, n
<1>9. /\ Len(shown) = n
      /\ \A a \in 1 .. n : \E k \in 1 .. n : e[k] = a
      /\ \A k \in 1 .. n : e[k] \in 1 .. n /\ shown[k] = q[e[k]]
      /\ \A j, k \in 1 .. n : j < k =>
           \/ u[e[j]] > u[e[k]]
           \/ u[e[j]] = u[e[k]] /\ z[e[j]] > z[e[k]]
           \/ u[e[j]] = u[e[k]] /\ e[j] < e[k]
  BY <1>2 DEF SortsBy, n
<1>10. DOMAIN shown = 1 .. n BY <1>1, <1>9
<1>11. ASSUME NEW j \in 1 .. n, NEW k \in 1 .. n, j < k
       PROVE  \/ shown[j].importance > shown[k].importance
              \/ shown[j].importance = shown[k].importance /\ e[j] < e[k]
  <2>1. /\ e[j] \in 1 .. n /\ e[k] \in 1 .. n
        /\ \/ u[e[j]] > u[e[k]]
           \/ u[e[j]] = u[e[k]] /\ z[e[j]] > z[e[k]]
           \/ u[e[j]] = u[e[k]] /\ e[j] < e[k]
    BY <1>9, <1>11
  <2>2. ~(z[e[j]] > z[e[k]]) BY <1>7, <2>1
  <2>3. u[e[j]] = shown[j].importance /\ u[e[k]] = shown[k].importance
    <3>1. u[e[j]] = q[e[j]].importance /\ u[e[k]] = q[e[k]].importance BY <1>7, <2>1
    <3>2. shown[j] = q[e[j]] /\ shown[k] = q[e[k]] BY <1>9
    <3>3. QED BY <3>1, <3>2
  <2>4. QED BY <2>1, <2>2, <2>3
<1>12. \A k \in 1 .. n : f[k] \in DOMAIN ms /\ f[k] \in Int /\ PrimaryTopic(ms[f[k]]) = topic BY <1>3, <1>4, <1>8
<1>13. \A a \in DOMAIN ms : PrimaryTopic(ms[a]) = topic => \E k \in 1 .. n : f[k] = a BY <1>5, <1>8
<1>15. ShownAt(f, e, ms, topic, q, shown, n) BY <1>6, <1>7, <1>8, <1>9, <1>10, <1>11, <1>12, <1>13 DEF ShownAt
<1>14. QED BY <1>15 DEF q, shown, n

\* The memories of one importance are shown in the order in which they were found.
LEMMA AlikeInOrder ==
  ASSUME NEW ms, AreMemories(ms), NEW topic, NEW v
  PROVE  OfImportance(Shown(ms, topic), v) = Alike(ms, topic, v)
<1> DEFINE q == GroupOf(ms, topic)
           shown == Shown(ms, topic)
           n == Len(q)
           S == Range(ms)
           W == {k \in DOMAIN shown : shown[k].importance = v}
           E == {k \in DOMAIN ms : PrimaryTopic(ms[k]) = topic /\ ms[k].importance = v}
           r == Arranged(shown, W, InPlace(W))
           y == Arranged(ms, E, InPlace(E))
<1>1. shown \in Seq(S) /\ ms \in Seq(S) /\ \E f, e : ShownRun(f, e, ms, topic) BY ShownIsSorted, MemoriesHaveKeys
<1>2. PICK f, e : ShownRun(f, e, ms, topic) BY <1>1
<1>3. ShownAt(f, e, ms, topic, q, shown, n) BY <1>2, ShownPlaces
<1>4. W \in SUBSET (DOMAIN shown) /\ E \in SUBSET (DOMAIN ms) /\ E \in SUBSET Int
  <2>1. DOMAIN ms = 1 .. Len(ms) BY <1>1
  <2> HIDE DEF shown
  <2>2. QED BY <2>1
<1>5. OfImportance(shown, v) = r /\ Alike(ms, topic, v) = y BY DEF OfImportance, Alike, Kept
<1>6. \A k \in W : k \in DOMAIN shown /\ shown[k].importance = v OBVIOUS
<1>7. \A k \in DOMAIN shown : shown[k].importance = v => k \in W OBVIOUS
<1>8. \A k \in E : PrimaryTopic(ms[k]) = topic /\ ms[k].importance = v /\ k \in DOMAIN ms OBVIOUS
<1>9. \A k \in DOMAIN ms : PrimaryTopic(ms[k]) = topic /\ ms[k].importance = v => k \in E OBVIOUS
<1> HIDE DEF W, E, shown, q, n, r, y, S
<1>10. r \in Seq(S) /\ \E g : Takes(g, r, shown, W) BY <1>1, <1>4, ArrangedInPlace DEF r
<1>11. y \in Seq(S) /\ \E g : Takes(g, y, ms, E) BY <1>1, <1>4, ArrangedInPlace DEF y
<1>12. PICK g : Takes(g, r, shown, W) BY <1>10
<1>13. /\ \A k \in 1 .. Len(r) : g[k] \in W /\ r[k] = shown[g[k]]
       /\ \A a \in W : \E k \in 1 .. Len(r) : g[k] = a
       /\ \A j, k \in 1 .. Len(r) : j < k => g[j] < g[k]
  BY <1>12 DEF Takes
<1>14. /\ n \in Nat /\ DOMAIN q = 1 .. n /\ DOMAIN shown = 1 .. n
       /\ \A k \in 1 .. n : /\ f[k] \in DOMAIN ms /\ f[k] \in Int /\ PrimaryTopic(ms[f[k]]) = topic
                            /\ q[k] = ms[f[k]] /\ q[k].importance \in Int
                            /\ e[k] \in 1 .. n /\ shown[k] = q[e[k]]
       /\ \A a \in DOMAIN ms : PrimaryTopic(ms[a]) = topic => \E k \in 1 .. n : f[k] = a
       /\ \A a \in 1 .. n : \E k \in 1 .. n : e[k] = a
       /\ \A j, k \in 1 .. n : j < k => f[j] < f[k]
       /\ \A j, k \in 1 .. n : j < k => \/ shown[j].importance > shown[k].importance
                                        \/ (shown[j].importance = shown[k].importance /\ e[j] < e[k])
  BY <1>3 DEF ShownAt
<1> DEFINE x == [k \in 1 .. Len(r) |-> f[e[g[k]]]]
<1>15. ASSUME NEW k \in 1 .. Len(r)
       PROVE  g[k] \in 1 .. n /\ e[g[k]] \in 1 .. n /\ x[k] = f[e[g[k]]] /\ x[k] \in E /\ r[k] = ms[x[k]]
  <2>1. g[k] \in 1 .. n /\ shown[g[k]].importance = v /\ r[k] = shown[g[k]] BY <1>6, <1>13, <1>14
  <2>2. e[g[k]] \in 1 .. n /\ shown[g[k]] = q[e[g[k]]] BY <1>14, <2>1
  <2>3. x[k] = f[e[g[k]]] OBVIOUS
  <2> HIDE DEF x
  <2>4. x[k] \in DOMAIN ms /\ PrimaryTopic(ms[x[k]]) = topic /\ q[e[g[k]]] = ms[x[k]] BY <1>14, <2>2, <2>3
  <2>5. r[k] = ms[x[k]] /\ ms[x[k]].importance = v BY <2>1, <2>2, <2>4
  <2>6. QED BY <1>9, <2>1, <2>2, <2>3, <2>4, <2>5
<1>16. ASSUME NEW a \in E PROVE \E k \in 1 .. Len(r) : x[k] = a
  <2>1. PICK b \in 1 .. n : f[b] = a BY <1>8, <1>14
  <2>2. PICK c \in 1 .. n : e[c] = b BY <1>14
  <2>3. shown[c] = ms[a] BY <1>14, <2>1, <2>2
  <2>4. c \in W BY <1>7, <1>8, <1>14, <2>3
  <2>5. PICK k \in 1 .. Len(r) : g[k] = c BY <1>13, <2>4
  <2>6. x[k] = a BY <1>15, <2>1, <2>2, <2>5
  <2>7. QED BY <2>6
<1>17. ASSUME NEW j \in 1 .. Len(r), NEW k \in 1 .. Len(r), j < k PROVE x[j] < x[k]
  <2>1. g[j] < g[k] /\ g[j] \in 1 .. n /\ g[k] \in 1 .. n /\ shown[g[j]].importance = v /\ shown[g[k]].importance = v
    BY <1>6, <1>13, <1>15, <1>17
  <2>2. q[e[g[j]]].importance \in Int /\ shown[g[j]] = q[e[g[j]]] BY <1>14, <1>15, <2>1
  <2>3. v \in Int BY <2>1, <2>2
  <2>4. e[g[j]] < e[g[k]]
    <3>1. \/ shown[g[j]].importance > shown[g[k]].importance
          \/ (shown[g[j]].importance = shown[g[k]].importance /\ e[g[j]] < e[g[k]])
      BY <1>14, <2>1
    <3>2. QED BY <2>1, <2>3, <3>1
  <2>5. f[e[g[j]]] < f[e[g[k]]] BY <1>14, <1>15, <2>4
  <2>6. QED BY <1>15, <2>5
<1>18. Takes(x, r, ms, E)
  <2>1. x \in [1 .. Len(r) -> E] BY <1>15
  <2> HIDE DEF x
  <2>2. QED BY <1>15, <1>16, <1>17, <2>1 DEF Takes
<1> HIDE DEF x
<1>19. PICK z : Takes(z, y, ms, E) BY <1>11
<1>20. r = y BY <1>4, <1>10, <1>11, <1>18, <1>19, TakesOnce
<1>21. QED BY <1>5, <1>20 DEF shown

LEMMA PromptAlwaysShowsAll ==
  ASSUME NEW ms, AreMemories(ms)
  PROVE  PromptShowsAll(ms)
<1> DEFINE gs == PromptGroups(ms)
           T == TopicOrder(ms)
           p == [k \in DOMAIN ms |-> PrimaryTopic(ms[k])]
<1>1. ms \in Seq(Range(ms)) /\ DOMAIN ms = 1 .. Len(ms) /\ Len(ms) \in Nat BY MemoriesHaveKeys
<1>2. p \in Seq({PrimaryTopic(ms[k]) : k \in DOMAIN ms}) BY <1>1
<1>3. T = Firsts(p) BY DEF TopicOrder
<1>4. gs = [g \in DOMAIN T |-> [topic |-> T[g], facts |-> Shown(ms, T[g])]] BY DEF PromptGroups, Shown
<1>5. \A k \in DOMAIN ms : p[k] = PrimaryTopic(ms[k]) OBVIOUS
<1>6. DOMAIN p = DOMAIN ms OBVIOUS
<1> HIDE DEF T, p, gs
<1>7. /\ \A j, k \in DOMAIN T : T[j] = T[k] => j = k
      /\ \A k \in DOMAIN p : \E g \in DOMAIN T : T[g] = p[k]
      /\ \A g \in DOMAIN T : \E k \in DOMAIN p : T[g] = p[k]
  BY <1>2, <1>3, FirstsAreKeys
<1>8. DOMAIN gs = DOMAIN T /\ \A g \in DOMAIN T : gs[g].topic = T[g] /\ gs[g].facts = Shown(ms, T[g]) BY <1>4
<1>9. IsInjective([g \in DOMAIN gs |-> gs[g].topic]) BY <1>7, <1>8 DEF IsInjective
<1>10. {gs[g].topic : g \in DOMAIN gs} = {PrimaryTopic(ms[k]) : k \in DOMAIN ms}
  <2>1. \A g \in DOMAIN gs : \E k \in DOMAIN ms : gs[g].topic = PrimaryTopic(ms[k]) BY <1>5, <1>6, <1>7, <1>8
  <2>2. \A k \in DOMAIN ms : \E g \in DOMAIN gs : gs[g].topic = PrimaryTopic(ms[k]) BY <1>5, <1>6, <1>7, <1>8
  <2>3. QED BY <2>1, <2>2
<1>11. ASSUME NEW g \in DOMAIN gs, NEW j \in DOMAIN gs[g].facts, NEW k \in DOMAIN gs[g].facts, j < k
       PROVE  gs[g].facts[j].importance >= gs[g].facts[k].importance
  <2> DEFINE topic == T[g]
             shown == Shown(ms, topic)
  <2>1. gs[g].facts = shown BY <1>8
  <2>2. PICK f, e : ShownRun(f, e, ms, topic) BY ShownIsSorted
  <2>3. ShownAt(f, e, ms, topic, GroupOf(ms, topic), shown, Len(GroupOf(ms, topic))) BY <2>2, ShownPlaces
  <2> DEFINE n == Len(GroupOf(ms, topic))
             q == GroupOf(ms, topic)
  <2> HIDE DEF n, q, shown, topic
  <2>4. ShownAt(f, e, ms, topic, q, shown, n) BY <2>3 DEF n, q
  <2>5. /\ DOMAIN shown = 1 .. n /\ \A x \in 1 .. n : e[x] \in 1 .. n /\ q[x].importance \in Int /\ shown[x] = q[e[x]]
        /\ \A x, y \in 1 .. n : x < y => \/ shown[x].importance > shown[y].importance
                                         \/ (shown[x].importance = shown[y].importance /\ e[x] < e[y])
    BY <2>4 DEF ShownAt
  <2>6. j \in 1 .. n /\ k \in 1 .. n BY <2>1, <2>5
  <2>7. shown[j].importance \in Int /\ shown[k].importance \in Int BY <2>5, <2>6
  <2>8. shown[j].importance > shown[k].importance \/ shown[j].importance = shown[k].importance BY <1>11, <2>5, <2>6
  <2>9. shown[j].importance >= shown[k].importance BY <2>7, <2>8
  <2>10. QED BY <2>1, <2>9
<1>12. ASSUME NEW g \in DOMAIN gs, NEW v PROVE OfImportance(gs[g].facts, v) = Alike(ms, gs[g].topic, v)
  BY <1>8, AlikeInOrder
<1>13. ASSUME NEW g \in DOMAIN gs, NEW v
       PROVE  Kept(gs[g].facts, LAMBDA m : m.importance = v)
                = Kept(ms, LAMBDA m : PrimaryTopic(m) = gs[g].topic /\ m.importance = v)
  BY <1>12 DEF OfImportance, Alike, Kept
<1>14. ASSUME NEW g \in DOMAIN gs
       PROVE  /\ \A j, k \in DOMAIN gs[g].facts : j < k => gs[g].facts[j].importance >= gs[g].facts[k].importance
              /\ \A v \in {m.importance : m \in Range(ms) \cup Range(gs[g].facts)} :
                   Kept(gs[g].facts, LAMBDA m : m.importance = v)
                     = Kept(ms, LAMBDA m : PrimaryTopic(m) = gs[g].topic /\ m.importance = v)
  <2>1. \A j, k \in DOMAIN gs[g].facts : j < k => gs[g].facts[j].importance >= gs[g].facts[k].importance BY <1>11
  <2>2. \A v \in {m.importance : m \in Range(ms) \cup Range(gs[g].facts)} :
          Kept(gs[g].facts, LAMBDA m : m.importance = v)
            = Kept(ms, LAMBDA m : PrimaryTopic(m) = gs[g].topic /\ m.importance = v)
    <3> TAKE v \in {m.importance : m \in Range(ms) \cup Range(gs[g].facts)}
    <3>1. QED BY <1>13 DEF Kept
  <2>3. QED BY <2>1, <2>2
<1>15. QED BY <1>9, <1>10, <1>14 DEF PromptShowsAll, gs, Kept

LEMMA ListsOf == ASSUME NEW S, NEW q \in Seq(S) PROVE IsList(q)
<1>1. Len(q) \in Nat /\ DOMAIN q = 1 .. Len(q) /\ \A k \in 1 .. Len(q) : q[k] \in Range(q) BY DEF Range
<1>2. q = [k \in 1 .. Len(q) |-> q[k]] OBVIOUS
<1>3. q \in [1 .. Len(q) -> Range(q)] BY <1>1, <1>2
<1>4. QED BY <1>1, <1>3 DEF IsList

\* No topic of a memory is blank, when it was parsed.
LEMMA ParsedTopicsAreNamed ==
  ASSUME NEW topics, IsList(topics), NEW topic
  PROVE  IsList(ParsedTopics(topics, topic)) /\ \A k \in DOMAIN ParsedTopics(topics, topic) : ParsedTopics(topics, topic)[k] # ""
<1>1. CASE topics # <<"absent">>
  <2> DEFINE E == {k \in DOMAIN topics : topics[k] # ""}
             q == Arranged(topics, E, InPlace(E))
  <2>1. ParsedTopics(topics, topic) = q BY <1>1 DEF ParsedTopics, Kept
  <2>2. topics \in Seq(Range(topics)) /\ E \in SUBSET (DOMAIN topics) /\ \A k \in E : topics[k] # "" BY DEF IsList
  <2> HIDE DEF E
  <2>3. q \in Seq(Range(topics)) /\ \A k \in DOMAIN q : \E a \in E : q[k] = topics[a] BY <2>2, ArrangedMembers
  <2> HIDE DEF q
  <2>4. IsList(q) BY <2>3, ListsOf
  <2>5. \A k \in DOMAIN q : q[k] # "" BY <2>2, <2>3
  <2>6. QED BY <2>1, <2>4, <2>5
<1>2. CASE topics = <<"absent">> /\ topic = ""
  <2>1. ParsedTopics(topics, topic) = <<>> BY <1>2 DEF ParsedTopics
  <2>2. <<>> \in Seq(Range(<<>>)) /\ DOMAIN <<>> = {} OBVIOUS
  <2>3. QED BY <2>1, <2>2 DEF IsList
<1>3. CASE topics = <<"absent">> /\ topic # ""
  <2>1. ParsedTopics(topics, topic) = <<topic>> BY <1>3 DEF ParsedTopics
  <2>2. <<topic>> \in Seq({topic}) /\ DOMAIN <<topic>> = {1} /\ <<topic>>[1] = topic OBVIOUS
  <2>3. IsList(<<topic>>) BY <2>2, ListsOf
  <2>4. \A k \in DOMAIN <<topic>> : <<topic>>[k] # "" BY <1>3, <2>2
  <2>5. QED BY <2>1, <2>3, <2>4
<1>4. QED BY <1>1, <1>2, <1>3

\* What is parsed from records.
ParsedFrom(rs) == [k \in DOMAIN rs |-> Parsed(rs[k])]

LEMMA ParsedAreMemories ==
  ASSUME NEW rs, AreMemories(rs)
  PROVE  AreMemories(ParsedFrom(rs)) /\ \A k \in DOMAIN ParsedFrom(rs) : PrimaryTopic(ParsedFrom(rs)[k]) # ""
<1> DEFINE ms == ParsedFrom(rs)
<1>1. DOMAIN rs = 1 .. Len(rs) /\ Len(rs) \in Nat BY MemoriesHaveKeys
<1>2. DOMAIN ms = 1 .. Len(rs) /\ \A k \in DOMAIN ms : ms[k] = Parsed(rs[k]) BY <1>1 DEF ParsedFrom
<1>3. ms = [k \in 1 .. Len(rs) |-> Parsed(rs[k])] BY <1>1 DEF ParsedFrom
<1>4. ms \in Seq({Parsed(rs[k]) : k \in 1 .. Len(rs)})
  <2> HIDE DEF ms
  <2>1. ms \in [1 .. Len(rs) -> {Parsed(rs[k]) : k \in 1 .. Len(rs)}] BY <1>3
  <2>2. QED BY <1>1, <2>1
<1> HIDE DEF ms
<1>5. IsList(ms) BY <1>4, ListsOf
<1>6. ASSUME NEW k \in DOMAIN ms
      PROVE  IsList(ms[k].topics) /\ {ms[k].importance, ms[k].score} \subseteq Int /\ PrimaryTopic(ms[k]) # ""
  <2>1. k \in DOMAIN rs /\ IsList(rs[k].topics) /\ {rs[k].importance, rs[k].score} \subseteq Int
    BY <1>1, <1>2 DEF AreMemories
  <2>2. /\ ms[k].topics = ParsedTopics(rs[k].topics, rs[k].topic)
        /\ ms[k].importance = rs[k].importance /\ ms[k].score = rs[k].score
    BY <1>2 DEF Parsed
  <2>3. IsList(ms[k].topics) /\ \A j \in DOMAIN ms[k].topics : ms[k].topics[j] # ""
    BY <2>1, <2>2, ParsedTopicsAreNamed
  <2>4. PrimaryTopic(ms[k]) # ""
    <3>1. CASE ms[k].topics = <<>> BY <3>1 DEF PrimaryTopic, General
    <3>2. CASE ms[k].topics # <<>>
      <4> DEFINE t == ms[k].topics
      <4>1. t \in Seq(Range(t)) /\ t # <<>> BY <2>3, <3>2 DEF IsList
      <4> HIDE DEF t
      <4>2. 1 \in DOMAIN t BY <4>1
      <4>3. ms[k].topics[1] # "" BY <2>3, <4>2 DEF t
      <4>4. QED BY <3>2, <4>3 DEF PrimaryTopic
    <3>3. QED BY <3>1, <3>2
  <2>5. QED BY <2>1, <2>2, <2>3, <2>4
<1>7. QED BY <1>5, <1>6 DEF AreMemories, ms

\* A group as it was found, and as it is shown: the same members.
LEMMA ShownIsTheGroup ==
  ASSUME NEW ms, AreMemories(ms), NEW topic
  PROVE  Len(Shown(ms, topic)) = Len(GroupOf(ms, topic)) /\ Range(Shown(ms, topic)) = Range(GroupOf(ms, topic))
<1> DEFINE q == GroupOf(ms, topic)
           shown == Shown(ms, topic)
           n == Len(q)
<1>1. q \in Seq(Range(ms)) /\ shown \in Seq(Range(ms)) BY ShownIsSorted
<1>2. PICK f, e : ShownRun(f, e, ms, topic) BY ShownIsSorted
<1>3. ShownAt(f, e, ms, topic, q, shown, n) BY <1>2, ShownPlaces
<1> HIDE DEF q, shown, n
<1>4. /\ DOMAIN q = 1 .. n /\ DOMAIN shown = 1 .. n
      /\ \A k \in 1 .. n : e[k] \in 1 .. n /\ shown[k] = q[e[k]]
      /\ \A a \in 1 .. n : \E k \in 1 .. n : e[k] = a
  BY <1>3 DEF ShownAt
<1>5. Len(shown) = Len(q)
  <2>1. DOMAIN q = 1 .. Len(q) /\ DOMAIN shown = 1 .. Len(shown) /\ Len(q) \in Nat /\ Len(shown) \in Nat BY <1>1
  <2>2. 1 .. Len(q) = 1 .. Len(shown) BY <1>4, <2>1
  <2> DEFINE a == Len(q)
             b == Len(shown)
  <2> HIDE DEF a, b
  <2>3. a \in Nat /\ b \in Nat /\ 1 .. a = 1 .. b BY <2>1, <2>2 DEF a, b
  <2>4. a = 0 \/ a \in 1 .. b BY <2>3
  <2>5. b = 0 \/ b \in 1 .. a BY <2>3
  <2>6. a = b BY <2>3, <2>4, <2>5
  <2>7. QED BY <2>6 DEF a, b
<1>6. \A k \in DOMAIN shown : \E j \in DOMAIN q : q[j] = shown[k]
  <2> TAKE k \in DOMAIN shown
  <2>1. e[k] \in DOMAIN q /\ q[e[k]] = shown[k] BY <1>4
  <2>2. QED BY <2>1
<1>7. \A j \in DOMAIN q : \E k \in DOMAIN shown : shown[k] = q[j]
  <2> TAKE j \in DOMAIN q
  <2>1. PICK k \in 1 .. n : e[k] = j BY <1>4
  <2>2. QED BY <1>4, <2>1
<1>8. Range(shown) = Range(q) BY <1>6, <1>7 DEF Range
<1>9. QED BY <1>5, <1>8 DEF q, shown

LEMMA CandidatesAreAlwaysShown ==
  ASSUME NEW rs, AreMemories(rs)
  PROVE  CandidatesAreShown(rs)
<1> DEFINE ms == ParsedFrom(rs)
           T == TopicOrder(ms)
           p == [k \in DOMAIN ms |-> PrimaryTopic(ms[k])]
           groups == [g \in DOMAIN T |-> [topic |-> T[g], facts |-> GroupOf(ms, T[g])]]
           gs == PromptGroups(ms)
           Large == {g \in DOMAIN groups : Len(groups[g].facts) >= 2}
           candidates == Gathered(ms)
<1>1. AreMemories(ms) /\ \A k \in DOMAIN ms : PrimaryTopic(ms[k]) # "" BY ParsedAreMemories
<1> HIDE DEF ms
<1>2. ms \in Seq(Range(ms)) /\ DOMAIN ms = 1 .. Len(ms) /\ Len(ms) \in Nat BY <1>1, MemoriesHaveKeys
<1>3. ms = [k \in DOMAIN ms |-> IF PrimaryTopic(ms[k]) = "" THEN [ms[k] EXCEPT !.topics = <<>>] ELSE ms[k]]
  <2>1. \A k \in DOMAIN ms : (IF PrimaryTopic(ms[k]) = "" THEN [ms[k] EXCEPT !.topics = <<>>] ELSE ms[k]) = ms[k]
    BY <1>1
  <2>2. ms = [k \in DOMAIN ms |-> ms[k]] BY <1>2
  <2>3. QED BY <2>1, <2>2
<1>4. candidates = Arranged(groups, Large, InPlace(Large)) BY <1>3 DEF Gathered, Kept
<1>5. gs = [g \in DOMAIN T |-> [topic |-> T[g], facts |-> Shown(ms, T[g])]] BY DEF PromptGroups, Shown
<1>6. p \in Seq({PrimaryTopic(ms[k]) : k \in DOMAIN ms}) /\ T = Firsts(p) BY <1>2 DEF TopicOrder
<1> HIDE DEF p, T, gs, candidates
<1>7. T \in Seq({PrimaryTopic(ms[k]) : k \in DOMAIN ms}) BY <1>6, FirstsAreKeys
<1>8. DOMAIN T = 1 .. Len(T) /\ Len(T) \in Nat BY <1>7
<1>9. groups \in Seq({groups[g] : g \in DOMAIN T}) /\ DOMAIN groups = DOMAIN T /\ Large \in SUBSET (DOMAIN groups)
  <2>1. groups \in [1 .. Len(T) -> {groups[g] : g \in DOMAIN T}] BY <1>8
  <2> HIDE DEF groups
  <2>2. groups \in Seq({groups[g] : g \in DOMAIN T}) BY <1>8, <2>1
  <2>3. QED BY <1>8, <2>1, <2>2
<1>10. /\ \A k \in DOMAIN candidates : \E a \in Large : candidates[k] = groups[a]
       /\ \A a \in Large : \E k \in DOMAIN candidates : candidates[k] = groups[a]
  <2> HIDE DEF Large, groups
  <2>1. QED BY <1>4, <1>9, ArrangedMembers
<1>11. \A g \in DOMAIN T : /\ gs[g].topic = T[g] /\ groups[g].topic = T[g]
                           /\ Len(gs[g].facts) = Len(groups[g].facts) /\ Range(gs[g].facts) = Range(groups[g].facts)
  <2> TAKE g \in DOMAIN T
  <2>1. gs[g].topic = T[g] /\ groups[g].topic = T[g] /\ gs[g].facts = Shown(ms, T[g]) /\ groups[g].facts = GroupOf(ms, T[g])
    BY <1>5
  <2>2. QED BY <1>1, <2>1, ShownIsTheGroup
<1>12. DOMAIN gs = DOMAIN T BY <1>5
<1>13. \A g \in Large : g \in DOMAIN T /\ Len(groups[g].facts) >= 2 BY <1>9
<1>14. \A g \in DOMAIN T : Len(groups[g].facts) >= 2 => g \in Large BY <1>9
<1> HIDE DEF groups, Large
<1> DEFINE some == {<<g.topic, Range(g.facts)>> : g \in {h \in Range(gs) : Len(h.facts) >= 2}}
           others == {<<g.topic, Range(g.facts)>> : g \in Range(candidates)}
<1>15. ASSUME NEW x \in others PROVE x \in some
  <2>1. PICK k \in DOMAIN candidates : x = <<candidates[k].topic, Range(candidates[k].facts)>> BY DEF Range
  <2>2. PICK a \in Large : candidates[k] = groups[a] BY <1>10
  <2>3. a \in DOMAIN gs /\ gs[a].topic = groups[a].topic /\ Range(gs[a].facts) = Range(groups[a].facts) /\ Len(gs[a].facts) >= 2
    BY <1>11, <1>12, <1>13
  <2>4. gs[a] \in {h \in Range(gs) : Len(h.facts) >= 2} BY <2>3 DEF Range
  <2>5. x = <<gs[a].topic, Range(gs[a].facts)>> BY <2>1, <2>2, <2>3
  <2>6. QED BY <2>4, <2>5
<1>16. ASSUME NEW x \in some PROVE x \in others
  <2>1. PICK h \in Range(gs) : Len(h.facts) >= 2 /\ x = <<h.topic, Range(h.facts)>> OBVIOUS
  <2>2. PICK a \in DOMAIN gs : gs[a] = h BY DEF Range
  <2>3. a \in Large /\ gs[a].topic = groups[a].topic /\ Range(gs[a].facts) = Range(groups[a].facts)
    BY <1>11, <1>12, <1>14, <2>1, <2>2
  <2>4. PICK k \in DOMAIN candidates : candidates[k] = groups[a] BY <1>10, <2>3
  <2>5. candidates[k] \in Range(candidates) /\ x = <<candidates[k].topic, Range(candidates[k].facts)>>
    BY <2>1, <2>2, <2>3, <2>4 DEF Range
  <2>6. QED BY <2>5
<1>17. others = some BY <1>15, <1>16
<1>18. QED BY <1>17 DEF CandidatesAreShown, ms, gs, candidates, ParsedFrom

-----------------------------------------------------------------------------
(* Recall: the first memory of each fact.                                  *)

\* A recall of one list as the run over it.
RecallRun(t, S, hits) ==
  /\ t \in [0 .. Len(hits) -> Seq(S)] /\ t[0] = <<>> /\ t[Len(hits)] = FoldLeft(AppendNew, <<>>, hits)
  /\ \A k \in 1 .. Len(hits) : t[k] = AppendNew(t[k - 1], hits[k])

LEMMA RecallRuns ==
  ASSUME NEW S, NEW hits \in Seq(S)
  PROVE  \E t : RecallRun(t, S, hits)
<1> DEFINE n == Len(hits)
           A == Seq(S)
           F == [p \in A \X (1 .. n) |-> AppendNew(p[1], hits[p[2]])]
           Step(h) == h = [s \in SUBSET (1 .. n) |-> IF s = {} THEN <<>> ELSE AppendNew(h[s \ {Max(s)}], hits[Max(s)])]
           it == CHOOSE h : Step(h)
<1>1. n \in Nat /\ DOMAIN hits = 1 .. n /\ <<>> \in A /\ F \in [A \X (1 .. n) -> A]
  <2>1. ASSUME NEW ms \in A, NEW k \in 1 .. n PROVE AppendNew(ms, hits[k]) \in A
    <3>1. hits[k] \in S OBVIOUS
    <3>2. Append(ms, hits[k]) \in A BY <3>1
    <3>3. QED BY <3>2 DEF AppendNew
  <2>2. F \in [A \X (1 .. n) -> A] BY <2>1
  <2>3. QED BY <2>2
<1>2. \E h : Step(h)
  <2>1. PICK h \in [SUBSET (1 .. n) -> A] : Computed(h, n, <<>>, F)
    <3> HIDE DEF F, n, A
    <3>1. QED BY <1>1, SubsetRecursion
  <2>2. ASSUME NEW s \in SUBSET (1 .. n), s # {} PROVE h[s] = AppendNew(h[s \ {Max(s)}], hits[Max(s)])
    <3>1. Max(s) \in 1 .. n /\ h[s \ {Max(s)}] \in A BY <1>1, <2>2, LargestMember
    <3>2. h[s] = F[<<h[s \ {Max(s)}], Max(s)>>] BY <2>1, <2>2 DEF Computed
    <3>3. QED BY <3>1, <3>2
  <2>3. Step(h) BY <2>1, <2>2 DEF Computed
  <2>4. QED BY <2>3
<1>3. Step(it) BY <1>2
<1>4. FoldLeft(AppendNew, <<>>, hits) = it[1 .. n] BY <1>1 DEF FoldLeft, MapThenFoldSet, AppendNew
<1> HIDE DEF it
<1>5. it[{}] = <<>> BY <1>3
<1>6. ASSUME NEW s \in SUBSET (1 .. n), s # {}, it[s \ {Max(s)}] \in A
      PROVE  it[s] = F[<<it[s \ {Max(s)}], Max(s)>>]
  <2>1. Max(s) \in 1 .. n BY <1>1, <1>6, LargestMember
  <2>2. it[s] = AppendNew(it[s \ {Max(s)}], hits[Max(s)]) BY <1>3, <1>6
  <2>3. QED BY <1>6, <2>1, <2>2
<1>7. StepsIn(A, it, n, <<>>, F)
  <2> HIDE DEF A, F, n
  <2>1. QED BY <1>5, <1>6 DEF StepsIn
<1>8. PICK t : IsRun(t, A, n, <<>>, F, it[1 .. n])
  <2> HIDE DEF F, n, A
  <2>1. QED BY <1>1, <1>7, RunOfSubsets
<1>9. ASSUME NEW k \in 1 .. n PROVE t[k] = AppendNew(t[k - 1], hits[k])
  <2>1. k - 1 \in 0 .. n BY <1>1
  <2>2. t[k - 1] \in A /\ t[k] = F[<<t[k - 1], k>>] BY <1>8, <2>1 DEF IsRun
  <2>3. QED BY <2>2
<1>10. RecallRun(t, S, hits) BY <1>4, <1>8, <1>9 DEF RecallRun, IsRun
<1>11. QED BY <1>10

\* The native service's, which goes on from the memories that it has.
NativeRun(t, S, first, hits) ==
  /\ t \in [0 .. Len(hits) -> Seq(S)] /\ t[0] = first /\ t[Len(hits)] = FoldLeft(AppendNamed, first, hits)
  /\ \A k \in 1 .. Len(hits) : t[k] = AppendNamed(t[k - 1], hits[k])

LEMMA NativeRuns ==
  ASSUME NEW S, NEW first \in Seq(S), NEW hits \in Seq(S)
  PROVE  \E t : NativeRun(t, S, first, hits)
<1> DEFINE n == Len(hits)
           A == Seq(S)
           F == [p \in A \X (1 .. n) |-> AppendNamed(p[1], hits[p[2]])]
           Step(h) == h = [s \in SUBSET (1 .. n) |-> IF s = {} THEN first ELSE AppendNamed(h[s \ {Max(s)}], hits[Max(s)])]
           it == CHOOSE h : Step(h)
<1>1. n \in Nat /\ DOMAIN hits = 1 .. n /\ first \in A /\ F \in [A \X (1 .. n) -> A]
  <2>1. ASSUME NEW ms \in A, NEW k \in 1 .. n PROVE AppendNamed(ms, hits[k]) \in A
    <3>1. hits[k] \in S OBVIOUS
    <3>2. Append(ms, hits[k]) \in A BY <3>1
    <3>3. QED BY <3>2 DEF AppendNamed, AppendNew
  <2>2. F \in [A \X (1 .. n) -> A] BY <2>1
  <2>3. QED BY <2>2
<1>2. \E h : Step(h)
  <2>1. PICK h \in [SUBSET (1 .. n) -> A] : Computed(h, n, first, F)
    <3> HIDE DEF F, n, A
    <3>1. QED BY <1>1, SubsetRecursion
  <2>2. ASSUME NEW s \in SUBSET (1 .. n), s # {} PROVE h[s] = AppendNamed(h[s \ {Max(s)}], hits[Max(s)])
    <3>1. Max(s) \in 1 .. n /\ h[s \ {Max(s)}] \in A BY <1>1, <2>2, LargestMember
    <3>2. h[s] = F[<<h[s \ {Max(s)}], Max(s)>>] BY <2>1, <2>2 DEF Computed
    <3>3. QED BY <3>1, <3>2
  <2>3. Step(h) BY <2>1, <2>2 DEF Computed
  <2>4. QED BY <2>3
<1>3. Step(it) BY <1>2
<1>4. FoldLeft(AppendNamed, first, hits) = it[1 .. n] BY <1>1 DEF FoldLeft, MapThenFoldSet, AppendNamed, AppendNew
<1> HIDE DEF it
<1>5. it[{}] = first BY <1>3
<1>6. ASSUME NEW s \in SUBSET (1 .. n), s # {}, it[s \ {Max(s)}] \in A
      PROVE  it[s] = F[<<it[s \ {Max(s)}], Max(s)>>]
  <2>1. Max(s) \in 1 .. n BY <1>1, <1>6, LargestMember
  <2>2. it[s] = AppendNamed(it[s \ {Max(s)}], hits[Max(s)]) BY <1>3, <1>6
  <2>3. QED BY <1>6, <2>1, <2>2
<1>7. StepsIn(A, it, n, first, F)
  <2> HIDE DEF A, F, n
  <2>1. QED BY <1>5, <1>6 DEF StepsIn
<1>8. PICK t : IsRun(t, A, n, first, F, it[1 .. n])
  <2> HIDE DEF F, n, A
  <2>1. QED BY <1>1, <1>7, RunOfSubsets
<1>9. ASSUME NEW k \in 1 .. n PROVE t[k] = AppendNamed(t[k - 1], hits[k])
  <2>1. k - 1 \in 0 .. n BY <1>1
  <2>2. t[k - 1] \in A /\ t[k] = F[<<t[k - 1], k>>] BY <1>8, <2>1 DEF IsRun
  <2>3. QED BY <2>2
<1>10. NativeRun(t, S, first, hits) BY <1>4, <1>8, <1>9 DEF NativeRun, IsRun
<1>11. QED BY <1>10

\* One more place, behind all others.
LEMMA TakesOneMore ==
  ASSUME NEW S, NEW r \in Seq(S), NEW s \in Seq(S), NEW D \in SUBSET (DOMAIN s), NEW f, Takes(f, r, s, D),
         NEW a \in DOMAIN s, \A d \in D : d < a
  PROVE  \E h : Takes(h, Append(r, s[a]), s, D \cup {a})
<1> DEFINE n == Len(r)
           h == [k \in 1 .. n + 1 |-> IF k = n + 1 THEN a ELSE f[k]]
           q == Append(r, s[a])
           E == D \cup {a}
<1>1. n \in Nat /\ Len(q) = n + 1 /\ q[n + 1] = s[a] /\ \A k \in 1 .. n : q[k] = r[k] OBVIOUS
<1>2. /\ \A k \in 1 .. n : f[k] \in D /\ r[k] = s[f[k]]
      /\ \A d \in D : \E k \in 1 .. n : f[k] = d
      /\ \A j, k \in 1 .. n : j < k => f[j] < f[k]
  BY DEF Takes
<1> HIDE DEF n, q
<1>3. \A k \in 1 .. n + 1 : k \in 1 .. n \/ k = n + 1 BY <1>1
<1>4. h[n + 1] = a /\ \A k \in 1 .. n : h[k] = f[k] /\ k \in 1 .. n + 1 /\ k # n + 1 BY <1>1
<1>5. h \in [1 .. n + 1 -> E] BY <1>2, <1>3
<1> HIDE DEF h
<1>6. \A k \in 1 .. n + 1 : q[k] = s[h[k]] BY <1>1, <1>2, <1>3, <1>4
<1>7. \A d \in E : \E k \in 1 .. n + 1 : h[k] = d
  <2> TAKE d \in E
  <2>1. CASE d = a
    <3>1. n + 1 \in 1 .. n + 1 BY <1>1
    <3>2. QED BY <1>4, <2>1, <3>1
  <2>2. CASE d \in D BY <1>2, <1>4, <2>2
  <2>3. QED BY <2>1, <2>2
<1>8. ASSUME NEW j \in 1 .. n + 1, NEW k \in 1 .. n + 1, j < k PROVE h[j] < h[k]
  <2>1. j \in 1 .. n BY <1>1, <1>8
  <2>2. CASE k = n + 1 BY <1>2, <1>4, <2>1, <2>2
  <2>3. CASE k \in 1 .. n BY <1>2, <1>4, <1>8, <2>1, <2>3
  <2>4. QED BY <1>3, <2>2, <2>3
<1> HIDE DEF E
<1>9. Takes(h, q, s, E) BY <1>1, <1>5, <1>6, <1>7, <1>8 DEF Takes
<1>10. QED BY <1>9 DEF q, E

\* The places up to the n-th where a fact comes first.
NewFacts(hits, n) == {k \in 1 .. n : \A j \in 1 .. k - 1 : hits[j].fact # hits[k].fact}

LEMMA RecallTakesNewFacts ==
  ASSUME NEW S, NEW hits \in Seq(S), NEW t, RecallRun(t, S, hits)
  PROVE  /\ \E f : Takes(f, t[Len(hits)], hits, NewFacts(hits, Len(hits)))
         /\ Facts(t[Len(hits)]) = Facts(hits)
<1> DEFINE n == Len(hits)
           W(k) == NewFacts(hits, k)
           V(k) == {hits[j].fact : j \in 1 .. k}
           P == {k \in 0 .. n : (\E f : Takes(f, t[k], hits, W(k))) /\ Facts(t[k]) = V(k)}
<1>1. n \in Nat /\ DOMAIN hits = 1 .. n /\ \A k \in 1 .. n : hits[k] \in S OBVIOUS
<1>2. /\ t \in [0 .. n -> Seq(S)] /\ t[0] = <<>>
      /\ \A k \in 1 .. n : t[k] = AppendNew(t[k - 1], hits[k])
  BY DEF RecallRun
<1>3. ASSUME NEW k \in 0 .. n PROVE W(k) \in SUBSET (DOMAIN hits) /\ \A j \in W(k) : j \in 1 .. k BY <1>1 DEF NewFacts
<1>4. 0 \in P
  <2> DEFINE f == [k \in 1 .. 0 |-> 0]
  <2>1. W(0) = {} /\ V(0) = {} /\ Facts(<<>>) = {} /\ Len(<<>>) = 0 /\ 1 .. 0 = {} BY DEF NewFacts, Facts
  <2>2. Takes(f, <<>>, hits, {}) BY <2>1 DEF Takes
  <2> HIDE DEF f, W, V
  <2>3. (\E g : Takes(g, t[0], hits, W(0))) /\ Facts(t[0]) = V(0) BY <1>2, <2>1, <2>2
  <2>4. 0 \in 0 .. n BY <1>1
  <2>5. QED BY <2>3, <2>4
<1>5. ASSUME NEW k \in 1 .. n, k - 1 \in P PROVE k \in P
  <2>1. k - 1 \in 0 .. n /\ k \in 0 .. n BY <1>1
  <2> DEFINE r == t[k - 1]
             x == hits[k]
  <2>2. r \in Seq(S) /\ t[k] = AppendNew(r, x) /\ Facts(r) = V(k - 1) /\ \E f : Takes(f, r, hits, W(k - 1))
    BY <1>2, <1>5, <2>1
  <2>3. PICK f : Takes(f, r, hits, W(k - 1)) BY <2>2
  <2>4. V(k) = V(k - 1) \cup {x.fact}
    <3>1. 1 .. k = (1 .. k - 1) \cup {k} OBVIOUS
    <3>2. QED BY <3>1
  <2>5. CASE x.fact \in V(k - 1)
    <3>1. t[k] = r /\ Facts(r) = V(k) BY <2>2, <2>4, <2>5 DEF AppendNew
    <3>2. PICK j \in 1 .. k - 1 : hits[j].fact = x.fact BY <2>5
    <3>3. W(k) = W(k - 1)
      <4>1. k \notin W(k) BY <3>2 DEF NewFacts
      <4>2. QED BY <4>1 DEF NewFacts
    <3>4. (\E g : Takes(g, t[k], hits, W(k))) /\ Facts(t[k]) = V(k) BY <2>3, <3>1, <3>3
    <3> HIDE DEF W, V
    <3>5. QED BY <2>1, <3>4
  <2>6. CASE x.fact \notin V(k - 1)
    <3>1. t[k] = Append(r, x) BY <2>2, <2>6 DEF AppendNew
    <3>2. \A j \in 1 .. k - 1 : hits[j].fact # x.fact BY <2>6
    <3>3. W(k) = W(k - 1) \cup {k}
      <4>1. k \in W(k) BY <3>2 DEF NewFacts
      <4>2. \A j \in 1 .. k : j = k \/ j \in 1 .. k - 1 OBVIOUS
      <4>3. QED BY <4>1, <4>2 DEF NewFacts
    <3>4. W(k - 1) \in SUBSET (DOMAIN hits) /\ (\A d \in W(k - 1) : d < k) /\ k \in DOMAIN hits
      <4>1. \A d \in W(k - 1) : d \in 1 .. k - 1 BY <1>3, <2>1
      <4>2. \A d \in 1 .. k - 1 : d < k OBVIOUS
      <4>3. QED BY <1>1, <1>3, <2>1, <4>1, <4>2
    <3>5. \E g : Takes(g, Append(r, x), hits, W(k - 1) \cup {k})
      <4> HIDE DEF r, W
      <4>1. QED BY <2>2, <2>3, <3>4, TakesOneMore
    <3>6. Facts(Append(r, x)) = Facts(r) \cup {x.fact}
      <4> HIDE DEF r, x
      <4>1. DOMAIN Append(r, x) = (DOMAIN r) \cup {Len(r) + 1} /\ DOMAIN r = 1 .. Len(r) /\ Len(r) \in Nat BY <2>2
      <4>2. Append(r, x)[Len(r) + 1] = x /\ \A j \in DOMAIN r : Append(r, x)[j] = r[j] BY <2>2
      <4> DEFINE y == Append(r, x)
      <4> HIDE DEF y
      <4>3. DOMAIN y = (DOMAIN r) \cup {Len(r) + 1} /\ y[Len(r) + 1] = x /\ \A j \in DOMAIN r : y[j] = r[j]
        BY <4>1, <4>2 DEF y
      <4>4. Facts(y) = Facts(r) \cup {x.fact} BY <4>3 DEF Facts
      <4>5. QED BY <4>4 DEF y
    <3>7. (\E g : Takes(g, t[k], hits, W(k))) /\ Facts(t[k]) = V(k) BY <2>2, <2>4, <3>1, <3>3, <3>5, <3>6
    <3> HIDE DEF W, V
    <3>8. QED BY <2>1, <3>7
  <2>7. QED BY <2>5, <2>6
<1>6. \A k \in 0 .. n : k \in P
  <2> HIDE DEF P, n
  <2>1. QED BY <1>1, <1>4, <1>5, UpTo
<1>7. n \in P
  <2> HIDE DEF P, n
  <2>1. n \in 0 .. n BY <1>1
  <2>2. QED BY <1>6, <2>1
<1>8. V(n) = Facts(hits) BY <1>1 DEF Facts
<1>9. QED BY <1>7, <1>8

\* The place where a fact comes first.
LEMMA FirstPlace ==
  ASSUME NEW S, NEW hits \in Seq(S), NEW fact \in Facts(hits)
  PROVE  /\ Min({k \in DOMAIN hits : hits[k].fact = fact}) \in NewFacts(hits, Len(hits))
         /\ hits[Min({k \in DOMAIN hits : hits[k].fact = fact})].fact = fact
<1> DEFINE Q == {k \in DOMAIN hits : hits[k].fact = fact}
           m == Min(Q)
<1>1. DOMAIN hits = 1 .. Len(hits) /\ Len(hits) \in Nat OBVIOUS
<1>2. Q \in SUBSET Nat /\ Q # {} BY <1>1 DEF Facts
<1>3. \A k \in 1 .. Len(hits) : hits[k].fact = fact => k \in Q BY <1>1
<1>4. \A k \in Q : k \in 1 .. Len(hits) /\ hits[k].fact = fact BY <1>1
<1> HIDE DEF Q
<1>5. m \in Q /\ \A k \in Q : m <= k BY <1>2, LeastOfSet
<1> HIDE DEF m
<1>6. m \in 1 .. Len(hits) /\ hits[m].fact = fact BY <1>4, <1>5
<1>7. \A j \in 1 .. m - 1 : hits[j].fact # hits[m].fact
  <2> TAKE j \in 1 .. m - 1
  <2>1. j \in 1 .. Len(hits) /\ ~(m <= j) BY <1>1, <1>6
  <2>2. j \notin Q BY <1>5, <2>1
  <2>3. QED BY <1>3, <1>6, <2>1, <2>2
<1>8. QED BY <1>6, <1>7 DEF NewFacts, m, Q

\* Two places of one fact cannot both be its first.
LEMMA OneFirstPlace ==
  ASSUME NEW n \in Nat, NEW hits, NEW j \in NewFacts(hits, n), NEW k \in NewFacts(hits, n), hits[j].fact = hits[k].fact
  PROVE  j = k
<1>1. j \in 1 .. n /\ k \in 1 .. n BY DEF NewFacts
<1>2. ~(j < k)
  <2>1. SUFFICES ASSUME j < k PROVE FALSE OBVIOUS
  <2>2. j \in 1 .. k - 1 BY <1>1, <2>1
  <2>3. QED BY <2>2 DEF NewFacts
<1>3. ~(k < j)
  <2>1. SUFFICES ASSUME k < j PROVE FALSE OBVIOUS
  <2>2. k \in 1 .. j - 1 BY <1>1, <2>1
  <2>3. QED BY <2>2 DEF NewFacts
<1>4. QED BY <1>1, <1>2, <1>3

LEMMA MergeIsAlwaysExact ==
  ASSUME NEW agentHits, IsList(agentHits), NEW userHits, IsList(userHits)
  PROVE  MergeIsExact(agentHits, userHits)
<1> DEFINE all == agentHits \o userHits
           S == Range(agentHits) \cup Range(userHits)
           ms == Merged(agentHits, userHits)
           n == Len(all)
           First(fact) == Min({k \in DOMAIN all : all[k].fact = fact})
<1>1. all \in Seq(S)
  <2>1. agentHits \in Seq(S) /\ userHits \in Seq(S)
    <3>1. agentHits \in Seq(Range(agentHits)) /\ userHits \in Seq(Range(userHits)) BY DEF IsList
    <3> DEFINE x == Range(agentHits)
               y == Range(userHits)
    <3> HIDE DEF x, y
    <3>2. agentHits \in Seq(x \cup y) /\ userHits \in Seq(x \cup y) BY <3>1 DEF x, y
    <3>3. QED BY <3>2 DEF x, y
  <2> HIDE DEF S
  <2>2. QED BY <2>1
<1>2. ms = FoldLeft(AppendNew, <<>>, all) BY DEF Merged
<1> HIDE DEF all, S, ms
<1>3. PICK t : RecallRun(t, S, all) BY <1>1, RecallRuns
<1>4. t[n] = ms /\ ms \in Seq(S) /\ n \in Nat BY <1>1, <1>2, <1>3 DEF RecallRun
<1>5. (\E f : Takes(f, ms, all, NewFacts(all, n))) /\ Facts(ms) = Facts(all) BY <1>1, <1>3, <1>4, RecallTakesNewFacts
<1>6. PICK f : Takes(f, ms, all, NewFacts(all, n)) BY <1>5
<1>7. DOMAIN ms = 1 .. Len(ms) /\ Len(ms) \in Nat BY <1>4
<1>8. /\ \A k \in DOMAIN ms : f[k] \in NewFacts(all, n) /\ ms[k] = all[f[k]]
      /\ \A j, k \in DOMAIN ms : j < k => f[j] < f[k]
  BY <1>6, <1>7 DEF Takes
<1>9. ASSUME NEW k \in DOMAIN ms PROVE First(ms[k].fact) = f[k]
  <2>1. ms[k].fact \in Facts(all) BY <1>5 DEF Facts
  <2>2. First(ms[k].fact) \in NewFacts(all, n) /\ all[First(ms[k].fact)].fact = ms[k].fact BY <1>1, <2>1, FirstPlace
  <2> HIDE DEF First
  <2>3. f[k] \in NewFacts(all, n) /\ all[f[k]].fact = ms[k].fact BY <1>8
  <2>4. QED BY <1>4, <2>2, <2>3, OneFirstPlace
<1>10. \A j, k \in DOMAIN ms : j < k => First(ms[j].fact) < First(ms[k].fact)
  <2> HIDE DEF First
  <2>1. QED BY <1>8, <1>9
<1>11. \A j \in DOMAIN ms : ms[j] = all[First(ms[j].fact)]
  <2> HIDE DEF First
  <2>1. QED BY <1>8, <1>9
<1>12. \A j, k \in DOMAIN ms : ms[j].fact = ms[k].fact => j = k
  <2> TAKE j, k \in DOMAIN ms
  <2>1. HAVE ms[j].fact = ms[k].fact
  <2>2. f[j] \in 1 .. n /\ f[k] \in 1 .. n BY <1>8 DEF NewFacts
  <2>3. f[j] = f[k]
    <3>1. f[j] \in NewFacts(all, n) /\ f[k] \in NewFacts(all, n) /\ all[f[j]].fact = all[f[k]].fact BY <1>8, <2>1
    <3>2. QED BY <1>4, <3>1, OneFirstPlace
  <2>4. ~(j < k) /\ ~(k < j) BY <1>8, <2>2, <2>3
  <2>5. QED BY <1>7, <2>4
<1>13. Cardinality(Facts(ms)) = Len(ms)
  <2> DEFINE g == [k \in 1 .. Len(ms) |-> ms[k].fact]
  <2>1. /\ g \in [1 .. Len(ms) -> Facts(ms)]
        /\ \A j, k \in 1 .. Len(ms) : g[j] = g[k] => j = k
        /\ \A v \in Facts(ms) : \E k \in 1 .. Len(ms) : g[k] = v
    BY <1>7, <1>12 DEF Facts
  <2> HIDE DEF g
  <2>2. g \in Bijection(1 .. Len(ms), Facts(ms)) BY <2>1 DEF Bijection, Injection, Surjection, IsInjective
  <2>3. ExistsBijection(1 .. Len(ms), Facts(ms)) BY <2>2 DEF ExistsBijection
  <2>4. QED BY <1>7, <2>3, FS_CountingElements
<1>14. Len(ms) = Cardinality(Facts(all)) BY <1>5, <1>13
<1>15. QED BY <1>5, <1>10, <1>11, <1>14 DEF MergeIsExact, all, ms

\* A recall of hits that name each fact once is the list of them, as far as it goes.
LEMMA NothingToMerge ==
  ASSUME NEW S, NEW hits \in Seq(S), NEW first \in Seq(S), NEW t, RecallRun(t, S, first \o hits),
         \A j, k \in DOMAIN first : first[j].fact = first[k].fact => j = k
  PROVE  t[Len(first)] = first
<1> DEFINE n == Len(first)
           all == first \o hits
           P == {k \in 0 .. n : Len(t[k]) = k /\ \A j \in 1 .. k : t[k][j] = first[j]}
<1>1. /\ n \in Nat /\ DOMAIN first = 1 .. n /\ Len(all) \in Nat /\ n <= Len(all)
      /\ \A k \in 1 .. n : first[k] \in S /\ all[k] = first[k]
  OBVIOUS
<1> HIDE DEF all
<1>2. /\ t \in [0 .. Len(all) -> Seq(S)] /\ t[0] = <<>>
      /\ \A k \in 1 .. Len(all) : t[k] = AppendNew(t[k - 1], all[k])
  BY DEF RecallRun, all
<1>3. 0 \in P BY <1>1, <1>2
<1>4. ASSUME NEW k \in 1 .. n, k - 1 \in P PROVE k \in P
  <2> DEFINE r == t[k - 1]
             x == first[k]
  <2>1. /\ r \in Seq(S) /\ Len(r) = k - 1 /\ \A j \in 1 .. k - 1 : r[j] = first[j]
        /\ t[k] = AppendNew(r, x) /\ x \in S
    <3>1. k - 1 \in 0 .. Len(all) /\ k \in 1 .. Len(all) BY <1>1
    <3>2. QED BY <1>1, <1>2, <1>4, <3>1
  <2>2. x.fact \notin Facts(r)
    <3>1. SUFFICES ASSUME x.fact \in Facts(r) PROVE FALSE OBVIOUS
    <3>2. PICK j \in DOMAIN r : r[j].fact = x.fact BY <3>1 DEF Facts
    <3>3. j \in 1 .. k - 1 /\ j \in DOMAIN first /\ k \in DOMAIN first /\ j # k
      <4>1. DOMAIN r = 1 .. k - 1 BY <2>1
      <4>2. QED BY <1>1, <4>1
    <3>4. first[j].fact = first[k].fact BY <2>1, <3>2, <3>3
    <3>5. QED BY <3>3, <3>4
  <2>3. t[k] = Append(r, x) BY <2>1, <2>2 DEF AppendNew
  <2>4. Len(t[k]) = k /\ \A j \in 1 .. k : t[k][j] = first[j]
    <3> HIDE DEF r
    <3>1. Len(Append(r, x)) = k /\ Append(r, x)[k] = x /\ \A j \in 1 .. k - 1 : Append(r, x)[j] = r[j] BY <2>1
    <3>2. \A j \in 1 .. k : j = k \/ j \in 1 .. k - 1 OBVIOUS
    <3> DEFINE y == Append(r, x)
    <3> HIDE DEF y
    <3>3. Len(y) = k /\ y[k] = x /\ \A j \in 1 .. k - 1 : y[j] = first[j] BY <2>1, <3>1 DEF y
    <3>4. Len(y) = k /\ \A j \in 1 .. k : y[j] = first[j] BY <3>2, <3>3
    <3>5. QED BY <2>3, <3>4 DEF y
  <2>5. k \in 0 .. n OBVIOUS
  <2>6. QED BY <2>4, <2>5
<1>5. \A k \in 0 .. n : k \in P
  <2> HIDE DEF P, n
  <2>1. QED BY <1>1, <1>3, <1>4, UpTo
<1>6. n \in P
  <2> HIDE DEF P, n
  <2>1. n \in 0 .. n BY <1>1
  <2>2. QED BY <1>5, <2>1
<1>7. t[n] \in Seq(S)
  <2>1. n \in 0 .. Len(all) BY <1>1
  <2>2. QED BY <1>2, <2>1
<1> DEFINE y == t[n]
<1>8. y \in Seq(S) /\ Len(y) = n /\ \A j \in 1 .. n : y[j] = first[j] BY <1>6, <1>7
<1> HIDE DEF y
<1>9. y = first BY <1>8
<1>10. QED BY <1>9 DEF y

LEMMA BackendsAlwaysRecallAlike ==
  ASSUME NEW agentHits, IsList(agentHits), NEW userHits, IsList(userHits), NEW topK \in Nat
  PROVE  BackendsRecallAlike(agentHits, userHits, topK)
<1> DEFINE all == agentHits \o userHits
           S == Range(agentHits) \cup Range(userHits)
           n == Len(agentHits)
           m == Len(userHits)
<1>1. SUFFICES ASSUME Max({n, m}) <= topK, IsInjective([k \in DOMAIN agentHits |-> agentHits[k].fact]),
                      "" \notin Facts(all)
               PROVE  NativeMerged(agentHits, userHits, topK) = Merged(agentHits, userHits)
  BY DEF BackendsRecallAlike
<1>2. agentHits \in Seq(S) /\ userHits \in Seq(S)
  <2>1. agentHits \in Seq(Range(agentHits)) /\ userHits \in Seq(Range(userHits)) BY DEF IsList
  <2> DEFINE x == Range(agentHits)
             y == Range(userHits)
  <2> HIDE DEF x, y
  <2>2. agentHits \in Seq(x \cup y) /\ userHits \in Seq(x \cup y) BY <2>1 DEF x, y
  <2>3. QED BY <2>2 DEF x, y
<1> HIDE DEF S
<1>3. n \in Nat /\ m \in Nat /\ all \in Seq(S) /\ Len(all) = n + m /\ \A k \in 1 .. m : all[n + k] = userHits[k]
  BY <1>2
<1>4. Cut(agentHits, topK) = agentHits /\ Cut(userHits, topK) = userHits
  <2> HIDE DEF n, m, all
  <2>a. n \in Int /\ m \in Int BY <1>3
  <2>1. Max({n, m}) = IF m >= n THEN m ELSE n BY <2>a, MaxOfTwo
  <2>2. n <= topK /\ m <= topK
    <3>1. Max({n, m}) <= topK BY <1>1
    <3>2. QED BY <2>a, <2>1, <3>1
  <2>3. QED BY <1>2, <2>2, CutTakes DEF n, m
<1>5. \A j, k \in DOMAIN agentHits : agentHits[j].fact = agentHits[k].fact => j = k BY <1>1 DEF IsInjective
<1>6. \A k \in 1 .. m : userHits[k].fact # ""
  <2> TAKE k \in 1 .. m
  <2>1. n + k \in DOMAIN all /\ all[n + k] = userHits[k] BY <1>3
  <2>2. QED BY <1>1, <2>1 DEF Facts
<1>7. PICK t : RecallRun(t, S, all) BY <1>3, RecallRuns
<1>8. PICK r : NativeRun(r, S, agentHits, userHits) BY <1>2, NativeRuns
<1>9. t[n] = agentHits BY <1>2, <1>5, <1>7, NothingToMerge
<1> DEFINE P == {k \in 0 .. m : r[k] = t[n + k]}
<1> HIDE DEF n, m, all
<1>10. 0 \in P
  <2>1. r[0] = agentHits BY <1>8 DEF NativeRun
  <2>2. n + 0 = n /\ 0 \in 0 .. m BY <1>3
  <2>3. QED BY <1>9, <2>1, <2>2
<1>11. ASSUME NEW k \in 1 .. m, k - 1 \in P PROVE k \in P
  <2>1. n + k \in 1 .. Len(all) /\ (n + k) - 1 = n + (k - 1) /\ k \in 0 .. m BY <1>3
  <2>2. t[n + k] = AppendNew(t[n + (k - 1)], all[n + k])
    <3>1. t[n + k] = AppendNew(t[(n + k) - 1], all[n + k]) BY <1>7, <2>1 DEF RecallRun
    <3>2. QED BY <2>1, <3>1
  <2>3. r[k] = AppendNamed(r[k - 1], userHits[k]) BY <1>8 DEF NativeRun, m
  <2>4. r[k] = AppendNew(r[k - 1], userHits[k]) BY <1>6, <2>3 DEF AppendNamed
  <2>5. r[k] = t[n + k] BY <1>3, <1>11, <2>2, <2>4
  <2>6. QED BY <2>1, <2>5
<1>12. \A k \in 0 .. m : k \in P
  <2> HIDE DEF P
  <2>1. QED BY <1>3, <1>10, <1>11, UpTo
<1>13. r[m] = t[n + m]
  <2>1. m \in 0 .. m BY <1>3
  <2>2. QED BY <1>12, <2>1
<1>14. r[m] = FoldLeft(AppendNamed, agentHits, userHits) BY <1>8 DEF NativeRun, m
<1>15. t[n + m] = FoldLeft(AppendNew, <<>>, all) BY <1>3, <1>7 DEF RecallRun
<1>16. NativeMerged(agentHits, userHits, topK) = FoldLeft(AppendNamed, agentHits, userHits) BY <1>4 DEF NativeMerged
<1>17. Merged(agentHits, userHits) = FoldLeft(AppendNew, <<>>, all) BY DEF Merged, all
<1>18. QED BY <1>13, <1>14, <1>15, <1>16, <1>17

-----------------------------------------------------------------------------
(* What the memory services compute.                                       *)

LEMMA AnyQuestionOfMemories ==
  ASSUME NEW q, QuestionOK(q)
  PROVE  /\ q.of = "recall" => MergeIsExact(q.a, q.u) /\ BackendsRecallAlike(q.a, q.u, q.k)
         /\ q.of = "prompt" => PromptShowsAll(q.ms)
         /\ q.of = "candidates" => CandidatesAreShown(q.rs)
         /\ q.of = "prune" => PruneKeepsTheBest(q.ms, q.max)
         /\ q.of = "text" => ScrubIsComplete(q.text) /\ BackendsSendAlike(q.text)
<1>1. ASSUME q.of = "recall" PROVE MergeIsExact(q.a, q.u) /\ BackendsRecallAlike(q.a, q.u, q.k)
  <2>1. IsList(q.a) /\ IsList(q.u) /\ q.k \in Nat BY <1>1 DEF QuestionOK
  <2>2. QED BY <2>1, MergeIsAlwaysExact, BackendsAlwaysRecallAlike
<1>2. ASSUME q.of = "prompt" PROVE PromptShowsAll(q.ms)
  <2>1. AreMemories(q.ms) BY <1>2 DEF QuestionOK
  <2>2. QED BY <2>1, PromptAlwaysShowsAll
<1>3. ASSUME q.of = "candidates" PROVE CandidatesAreShown(q.rs)
  <2>1. AreMemories(q.rs) BY <1>3 DEF QuestionOK
  <2>2. QED BY <2>1, CandidatesAreAlwaysShown
<1>4. ASSUME q.of = "prune" PROVE PruneKeepsTheBest(q.ms, q.max)
  <2>1. AreMemories(q.ms) /\ q.max \in Nat BY <1>4 DEF QuestionOK
  <2>2. QED BY <2>1, PruneAlwaysKeepsTheBest
<1>5. ASSUME q.of = "text" PROVE ScrubIsComplete(q.text) /\ BackendsSendAlike(q.text)
  <2>1. q.text \in Seq(RawLine) BY <1>5 DEF QuestionOK
  <2>2. QED BY <2>1, ScrubAlwaysComplete, BackendsAlwaysSendAlike
<1>6. QED BY <1>1, <1>2, <1>3, <1>4, <1>5

\* Recall, prompt, consolidation and scrubbing do what they promise: for any hits,
\* memories, records and conversations.
THEOREM MemoryTextIsAlwaysExact == AllSpec => []MemoryTextIsExact
<1>1. ASSUME query = NoQuestion \/ QuestionOK(query) PROVE MemoryTextIsExact
  <2>1. CASE query = NoQuestion
    <3>1. query.of = "nothing" BY <2>1 DEF NoQuestion
    <3>2. QED BY <3>1 DEF MemoryTextIsExact
  <2>2. CASE QuestionOK(query) BY <2>2, AnyQuestionOfMemories DEF MemoryTextIsExact
  <2>3. QED BY <1>1, <2>1, <2>2
<1>2. QED BY <1>1, QuestionsKeepShape, PTL

-----------------------------------------------------------------------------
(* Guardrails.                                                             *)

Outcomes == {"pass", "warn", "block"}

\* The worst of some outcomes.
LEMMA WorstOutcome ==
  ASSUME NEW found, found \subseteq Outcomes
  PROVE  Worst(found) = IF "block" \in found THEN "block" ELSE IF "warn" \in found THEN "warn" ELSE "pass"
<1>1. Rank("pass") = 0 /\ Rank("warn") = 1 /\ Rank("block") = 2 BY DEF Rank
<1> DEFINE Most(o) == \A p \in found : Rank(p) <= Rank(o)
<1>2. \A o \in found : o = "pass" \/ o = "warn" \/ o = "block" BY DEF Outcomes
<1>3. CASE "block" \in found
  <2>1. Most("block") BY <1>1, <1>2
  <2>2. \A o \in found : Most(o) => o = "block" BY <1>1, <1>2, <1>3
  <2>3. QED BY <1>3, <2>1, <2>2 DEF Worst
<1>4. CASE "block" \notin found /\ "warn" \in found
  <2>1. Most("warn") BY <1>1, <1>2, <1>4
  <2>2. \A o \in found : Most(o) => o = "warn" BY <1>1, <1>2, <1>4
  <2>3. QED BY <1>4, <2>1, <2>2 DEF Worst
<1>5. CASE "block" \notin found /\ "warn" \notin found
  <2>1. \A o \in found : o = "pass" BY <1>2, <1>5
  <2>2. CASE found = {} BY <2>2 DEF Worst
  <2>3. CASE found # {}
    <3>1. "pass" \in found /\ Most("pass") BY <1>1, <2>1, <2>3
    <3>2. QED BY <1>5, <2>1, <2>3, <3>1 DEF Worst
  <2>4. QED BY <2>2, <2>3
<1>6. QED BY <1>3, <1>4, <1>5

Found(profile, answer, fate) == {Finding(v, answer, fate) : v \in Profiles[profile]}

\* What a profile's validators find.
LEMMA FoundOutcomes ==
  ASSUME NEW profile \in DOMAIN Profiles, NEW answer, NEW fate
  PROVE  /\ Found(profile, answer, fate) \subseteq Outcomes
         /\ Verdict(TRUE, profile, answer, fate) = Worst(Found(profile, answer, fate))
         /\ \A v \in Profiles[profile] : v.outcome \in {"warn", "block"}
<1>1. profile \in {"strict", "loose", "off"} BY DEF Profiles
<1>2. \A v \in Profiles[profile] : v.outcome \in {"warn", "block"}
  <2>1. /\ Profiles["strict"] = {Pii("block"), Toxicity, Length(1)}
        /\ Profiles["loose"] = {Pii("warn"), Toxicity, Length(2)} /\ Profiles["off"] = {}
    BY DEF Profiles
  <2>2. /\ Pii("block").outcome = "block" /\ Pii("warn").outcome = "warn" /\ Toxicity.outcome = "block"
        /\ Length(1).outcome = "warn" /\ Length(2).outcome = "warn"
    BY DEF Pii, Toxicity, Length
  <2>3. QED BY <1>1, <2>1, <2>2
<1>3. Found(profile, answer, fate) \subseteq Outcomes BY <1>2 DEF Found, Finding, Outcomes
<1>4. Verdict(TRUE, profile, answer, fate) = Worst(Found(profile, answer, fate)) BY <1>1 DEF Verdict, Found
<1>5. QED BY <1>2, <1>3, <1>4

LEMMA ProfilesFound ==
  ASSUME NEW default, NEW name
  PROVE  ProfileFor(default, name) \in DOMAIN Profiles \/ ProfileFor(default, name) = "raises"
BY DEF ProfileFor

LEMMA BlocksAlwaysWhatItSees ==
  ASSUME NEW default, NEW name, NEW answer, NEW fate
  PROVE  BlocksWhatItSees(default, name, answer, fate)
<1> DEFINE profile == ProfileFor(default, name)
<1> SUFFICES ASSUME profile # "raises"
             PROVE  ~Delivered(Verdict(TRUE, profile, answer, fate)) <=>
                      \E v \in Profiles[profile] : v.outcome = "block" /\ fate[v.name] = "answers" /\ Detects(v, answer)
  BY DEF BlocksWhatItSees
<1>1. profile \in DOMAIN Profiles BY ProfilesFound
<1> HIDE DEF profile
<1>2. /\ Found(profile, answer, fate) \subseteq Outcomes
      /\ Verdict(TRUE, profile, answer, fate) = Worst(Found(profile, answer, fate))
      /\ \A v \in Profiles[profile] : v.outcome \in {"warn", "block"}
  BY <1>1, FoundOutcomes
<1>3. ~Delivered(Verdict(TRUE, profile, answer, fate)) <=> "block" \in Found(profile, answer, fate)
  BY <1>2, WorstOutcome DEF Delivered
<1>4. \A v \in Profiles[profile] : Finding(v, answer, fate) = "block" <=>
        v.outcome = "block" /\ fate[v.name] = "answers" /\ Detects(v, answer)
  BY DEF Finding
<1>5. QED BY <1>3, <1>4 DEF Found

LEMMA PassAlwaysMeansChecked ==
  ASSUME NEW default, NEW name, NEW answer, NEW fate
  PROVE  PassMeansChecked(default, name, answer, fate)
<1> DEFINE profile == ProfileFor(default, name)
<1> SUFFICES ASSUME Verdict(TRUE, profile, answer, fate) = "pass"
             PROVE  \A v \in Profiles[profile] : fate[v.name] = "answers" /\ ~Detects(v, answer)
  BY DEF PassMeansChecked
<1>1. profile # "raises" BY DEF Verdict
<1>2. profile \in DOMAIN Profiles BY <1>1, ProfilesFound
<1> HIDE DEF profile
<1>3. /\ Found(profile, answer, fate) \subseteq Outcomes
      /\ Verdict(TRUE, profile, answer, fate) = Worst(Found(profile, answer, fate))
      /\ \A v \in Profiles[profile] : v.outcome \in {"warn", "block"}
  BY <1>2, FoundOutcomes
<1>4. "block" \notin Found(profile, answer, fate) /\ "warn" \notin Found(profile, answer, fate) BY <1>3, WorstOutcome
<1>5. \A v \in Profiles[profile] : Finding(v, answer, fate) = "pass" BY <1>3, <1>4 DEF Found, Outcomes
<1>6. QED BY <1>3, <1>5 DEF Finding

LEMMA StrictAlwaysStricter ==
  ASSUME NEW answer, answer.size \in Nat, NEW fate
  PROVE  StrictIsStricter(answer, fate)
<1> DEFINE loose  == Found("loose", answer, fate)
           strict == Found("strict", answer, fate)
<1>1. "loose" \in DOMAIN Profiles /\ "strict" \in DOMAIN Profiles BY DEF Profiles
<1>2. /\ loose \subseteq Outcomes /\ Verdict(TRUE, "loose", answer, fate) = Worst(loose)
      /\ strict \subseteq Outcomes /\ Verdict(TRUE, "strict", answer, fate) = Worst(strict)
  BY <1>1, FoundOutcomes
<1>3. /\ Profiles["strict"] = {Pii("block"), Toxicity, Length(1)}
      /\ Profiles["loose"] = {Pii("warn"), Toxicity, Length(2)}
  BY DEF Profiles
<1>4. /\ Finding(Pii("warn"), answer, fate) = "warn" => Finding(Pii("block"), answer, fate) \in {"warn", "block"}
      /\ Finding(Pii("warn"), answer, fate) # "block"
  <2>1. /\ Pii("warn").name = Pii("block").name /\ Pii("warn").outcome = "warn" /\ Pii("block").outcome = "block"
        /\ Pii("warn").kinds = Pii("block").kinds /\ Pii("warn").size = Pii("block").size
    BY DEF Pii
  <2>2. Detects(Pii("warn"), answer) <=> Detects(Pii("block"), answer) BY <2>1 DEF Detects
  <2>3. QED BY <2>1, <2>2 DEF Finding
<1>5. /\ Finding(Length(2), answer, fate) = "warn" => Finding(Length(1), answer, fate) = "warn"
      /\ Finding(Length(2), answer, fate) # "block"
  <2>1. /\ Length(1).name = Length(2).name /\ Length(1).outcome = "warn" /\ Length(2).outcome = "warn"
        /\ Length(1).kinds = {} /\ Length(2).kinds = {} /\ Length(1).size = 1 /\ Length(2).size = 2
    BY DEF Length
  <2>2. Detects(Length(2), answer) => Detects(Length(1), answer) BY <2>1 DEF Detects
  <2>3. QED BY <2>1, <2>2 DEF Finding
<1>6. "block" \in loose => "block" \in strict BY <1>3, <1>4, <1>5 DEF Found
<1>7. "warn" \in loose => "warn" \in strict \/ "block" \in strict BY <1>3, <1>4, <1>5 DEF Found
<1>8. Rank("pass") = 0 /\ Rank("warn") = 1 /\ Rank("block") = 2 BY DEF Rank
<1> HIDE DEF loose, strict
<1>9. /\ Worst(loose) = IF "block" \in loose THEN "block" ELSE IF "warn" \in loose THEN "warn" ELSE "pass"
      /\ Worst(strict) = IF "block" \in strict THEN "block" ELSE IF "warn" \in strict THEN "warn" ELSE "pass"
  BY <1>2, WorstOutcome
<1>10. Rank(Worst(loose)) <= Rank(Worst(strict))
  <2>1. CASE "block" \in strict
    <3>1. Worst(strict) = "block" BY <1>9, <2>1
    <3>2. Worst(loose) = "block" \/ Worst(loose) = "warn" \/ Worst(loose) = "pass" BY <1>9
    <3>3. QED BY <1>8, <3>1, <3>2
  <2>2. CASE "block" \notin strict /\ "warn" \in strict
    <3>1. Worst(strict) = "warn" BY <1>9, <2>2
    <3>2. Worst(loose) = "warn" \/ Worst(loose) = "pass" BY <1>6, <1>9, <2>2
    <3>3. QED BY <1>8, <3>1, <3>2
  <2>3. CASE "block" \notin strict /\ "warn" \notin strict
    <3>1. Worst(strict) = "pass" /\ Worst(loose) = "pass" BY <1>6, <1>7, <1>9, <2>3
    <3>2. QED BY <1>8, <3>1
  <2>4. QED BY <2>1, <2>2, <2>3
<1>11. QED BY <1>2, <1>10 DEF StrictIsStricter

-----------------------------------------------------------------------------
(* Usage: what a turn leaves behind.                                       *)

\* The events of one author.
LEMMA EventsOfAuthor ==
  ASSUME NEW es, AreEvents(es), NEW a
  PROVE  LET D == {k \in DOMAIN es : Author(es[k]) = a}
         IN  /\ Of(es, a) = Arranged(es, D, InPlace(D))
             /\ Of(es, a) \in Seq(Range(es))
             /\ \A v \in [Range(es) -> Nat] :
                  /\ v \in [Range(es) -> Int]
                  /\ Sums(v, Of(es, a)) = SumIn(Weigh(v, es), D)
                  /\ Sums(v, Of(es, a)) \in Nat
<1> DEFINE D == {k \in DOMAIN es : Author(es[k]) = a}
           S == Range(es)
           mine == Of(es, a)
<1>1. es \in Seq(S) /\ D \in SUBSET (DOMAIN es) BY DEF AreEvents, IsList
<1>2. mine = Arranged(es, D, InPlace(D)) BY DEF Of, Kept
<1> HIDE DEF D, S, mine
<1>3. mine \in Seq(S) BY <1>1, <1>2, ArrangedInPlace
<1>4. ASSUME NEW v \in [S -> Nat]
      PROVE  /\ v \in [S -> Int] /\ Sums(v, mine) = SumIn(Weigh(v, es), D)
             /\ Sums(v, mine) \in Nat
  <2>1. v \in [S -> Int] BY <1>4
  <2>2. Sums(v, mine) = SumIn(Weigh(v, es), D)
    <3>1. Sums(v, Arranged(es, D, InPlace(D))) = SumIn(Weigh(v, es), D) BY <1>1, <2>1, SumsTaken
    <3>2. QED BY <1>2, <3>1
  <2>3. Weigh(v, mine) \in Seq(Nat)
    <3>1. /\ Weigh(v, mine) \in Seq(Int) /\ DOMAIN Weigh(v, mine) = DOMAIN mine
          /\ \A k \in DOMAIN mine : Weigh(v, mine)[k] = v[mine[k]]
      BY <1>3, <2>1, Weights
    <3>2. \A k \in DOMAIN mine : v[mine[k]] \in Nat BY <1>3, <1>4
    <3> DEFINE w == Weigh(v, mine)
    <3>3. w \in Seq(Int) /\ \A k \in DOMAIN w : w[k] \in Nat BY <3>1, <3>2
    <3> HIDE DEF w
    <3>4. Len(w) \in Nat /\ w \in [1 .. Len(w) -> Nat] BY <3>3
    <3>5. w \in Seq(Nat) BY <3>4
    <3>6. QED BY <3>5 DEF w
  <2>4. Sums(v, mine) \in Nat BY <2>3, SumOfNats DEF Sums
  <2>5. QED BY <2>1, <2>2, <2>4
<1>5. QED BY <1>2, <1>3, <1>4 DEF D, S, mine

\* What of each event is counted.
TokensIn(es)  == [e \in Range(es) |-> e.tin]
TokensOut(es) == [e \in Range(es) |-> e.tout]
CallsMade(es) == [e \in Range(es) |-> Len(e.calls)]

LEMMA EventNumbers ==
  ASSUME NEW es, AreEvents(es)
  PROVE  /\ TokensIn(es) \in [Range(es) -> Nat] /\ TokensOut(es) \in [Range(es) -> Nat]
         /\ CallsMade(es) \in [Range(es) -> Nat]
         /\ \A s \in Seq(Range(es)) :
              /\ Total(s, LAMBDA e : e.tin) = Sums(TokensIn(es), s)
              /\ Total(s, LAMBDA e : e.tout) = Sums(TokensOut(es), s)
              /\ Total(s, LAMBDA e : Len(e.calls)) = Sums(CallsMade(es), s)
<1>1. \A e \in Range(es) : e.tin \in Nat /\ e.tout \in Nat /\ Len(e.calls) \in Nat
  <2>1. \A k \in DOMAIN es : es[k].tin \in Nat /\ es[k].tout \in Nat /\ es[k].calls \in Seq(Range(es[k].calls))
    BY DEF AreEvents, IsList
  <2>2. \A k \in DOMAIN es : Len(es[k].calls) \in Nat BY <2>1
  <2>3. QED BY <2>1, <2>2 DEF Range
<1>2. /\ TokensIn(es) \in [Range(es) -> Nat] /\ TokensOut(es) \in [Range(es) -> Nat]
      /\ CallsMade(es) \in [Range(es) -> Nat]
  BY <1>1 DEF TokensIn, TokensOut, CallsMade
<1>3. ASSUME NEW s \in Seq(Range(es))
      PROVE  /\ Total(s, LAMBDA e : e.tin) = Sums(TokensIn(es), s)
             /\ Total(s, LAMBDA e : e.tout) = Sums(TokensOut(es), s)
             /\ Total(s, LAMBDA e : Len(e.calls)) = Sums(CallsMade(es), s)
  <2>1. \A k \in DOMAIN s : s[k] \in Range(es) OBVIOUS
  <2>2. [k \in DOMAIN s |-> s[k].tin] = Weigh(TokensIn(es), s) BY <2>1 DEF Weigh, TokensIn
  <2>3. [k \in DOMAIN s |-> s[k].tout] = Weigh(TokensOut(es), s) BY <2>1 DEF Weigh, TokensOut
  <2>4. [k \in DOMAIN s |-> Len(s[k].calls)] = Weigh(CallsMade(es), s) BY <2>1 DEF Weigh, CallsMade
  <2>5. QED BY <2>2, <2>3, <2>4 DEF Total, Sums
<1>4. QED BY <1>2, <1>3

\* The model call of an author.
ModelCall(es, a, ok) ==
  LET b == Bucket(es, a)
  IN [Record("model", IF b.model = None THEN "unknown" ELSE b.model, a, ok)
        EXCEPT !.tin = b.tin, !.tout = b.tout, !.cost = Cost(b)]

\* The records of the tools that an event calls.
ToolRun(es, k) == [j \in DOMAIN es[k].calls |-> Record("tool", es[k].calls[j], Author(es[k]), TRUE)]

\* All the records that a turn can make.
Made(es, ok) ==
  {Record("agent", Root, None, ok)}
    \cup {Record("agent", a, Root, ok) : a \in Range(Authors(es))}
    \cup {ModelCall(es, a, ok) : a \in Range(Authors(es))}
    \cup UNION {{ToolRun(es, k)[j] : j \in DOMAIN es[k].calls} : k \in DOMAIN es}

LEMMA FieldsOfRecords ==
  /\ \A kind, name, caller, ok :
       /\ Record(kind, name, caller, ok).kind = kind /\ Record(kind, name, caller, ok).name = name
       /\ Record(kind, name, caller, ok).caller = caller
       /\ Record(kind, name, caller, ok).tin = 0 /\ Record(kind, name, caller, ok).tout = 0
  /\ \A es, a, ok :
       /\ ModelCall(es, a, ok).kind = "model" /\ ModelCall(es, a, ok).caller = a
       /\ ModelCall(es, a, ok).tin = Bucket(es, a).tin
       /\ ModelCall(es, a, ok).tout = Bucket(es, a).tout
<1>1. \A kind, name, caller, ok :
       /\ Record(kind, name, caller, ok).kind = kind /\ Record(kind, name, caller, ok).name = name
       /\ Record(kind, name, caller, ok).caller = caller
       /\ Record(kind, name, caller, ok).tin = 0 /\ Record(kind, name, caller, ok).tout = 0
  BY DEF Record
<1>2. \A es, a, ok :
       /\ ModelCall(es, a, ok).kind = "model" /\ ModelCall(es, a, ok).caller = a
       /\ ModelCall(es, a, ok).tin = Bucket(es, a).tin
       /\ ModelCall(es, a, ok).tout = Bucket(es, a).tout
  BY DEF Record, ModelCall
<1>3. QED BY <1>1, <1>2

\* The authors of a stream, each once.
LEMMA AuthorsAreKeys ==
  ASSUME NEW es, AreEvents(es)
  PROVE  LET c == [k \in DOMAIN es |-> Author(es[k])]
         IN  /\ Authors(es) = Firsts(c) /\ DOMAIN c = DOMAIN es /\ c \in Seq(Range(c))
             /\ Authors(es) \in Seq(Range(c)) /\ Authors(es) \in Seq(Range(Authors(es)))
             /\ Groups(Authors(es), c)
             /\ \A g \in DOMAIN Authors(es) : \E k \in DOMAIN es : Authors(es)[g] = c[k]
<1> DEFINE c == [k \in DOMAIN es |-> Author(es[k])]
           K == Authors(es)
<1>1. es \in Seq(Range(es)) BY DEF AreEvents, IsList
<1>2. c \in Seq(Range(c)) /\ DOMAIN c = DOMAIN es
  <2>1. DOMAIN es = 1 .. Len(es) /\ Len(es) \in Nat BY <1>1
  <2>2. c \in [1 .. Len(es) -> Range(c)] BY <2>1 DEF Range
  <2>3. QED BY <2>1, <2>2
<1>3. K = Firsts(c) BY DEF Authors
<1> HIDE DEF c, K
<1>4. /\ K \in Seq(Range(c)) /\ (\A g, h \in DOMAIN K : K[g] = K[h] => g = h)
      /\ (\A k \in DOMAIN c : \E g \in DOMAIN K : K[g] = c[k]) /\ \A g \in DOMAIN K : \E k \in DOMAIN c : K[g] = c[k]
  BY <1>2, <1>3, FirstsAreKeys
<1>5. K \in Seq(Range(K))
  <2>1. DOMAIN K = 1 .. Len(K) /\ Len(K) \in Nat /\ K \in [1 .. Len(K) -> Range(c)] BY <1>4
  <2>2. K \in [1 .. Len(K) -> Range(K)] BY <2>1 DEF Range
  <2>3. QED BY <2>1, <2>2
<1>6. QED BY <1>2, <1>3, <1>4, <1>5 DEF Groups, c, K

\* A list of a function's values.
LEMMA ListOf ==
  ASSUME NEW n \in Nat, NEW S, NEW x, DOMAIN x = 1 .. n, x = [k \in 1 .. n |-> x[k]], \A k \in 1 .. n : x[k] \in S
  PROVE  x \in Seq(S) /\ Len(x) = n
<1>1. x \in [1 .. n -> S] OBVIOUS
<1>2. QED BY <1>1

LEMMA AuthorRuns ==
  ASSUME NEW es, NEW ok, NEW v \in [Made(es, ok) -> Int], NEW a \in Range(Authors(es))
  PROVE  /\ ModelCall(es, a, ok) \in Made(es, ok) /\ Record("agent", a, Root, ok) \in Made(es, ok)
         /\ AuthorRecords(es, a, ok) \in Seq(Made(es, ok))
         /\ Sums(v, AuthorRecords(es, a, ok)) =
              IF ~Used(Bucket(es, a)) THEN 0
              ELSE IF a = Root THEN v[ModelCall(es, a, ok)]
              ELSE v[Record("agent", a, Root, ok)] + v[ModelCall(es, a, ok)]
<1> DEFINE S == Made(es, ok)
           m == ModelCall(es, a, ok)
           r == Record("agent", a, Root, ok)
           run == AuthorRecords(es, a, ok)
<1>1. m \in S /\ r \in S BY DEF Made
<1>2. run = IF ~Used(Bucket(es, a)) THEN <<>> ELSE IF a = Root THEN <<m>> ELSE <<r, m>>
  BY DEF AuthorRecords, ModelCall
<1> HIDE DEF S, m, r, run
<1>3. Sums(v, <<>>) = 0 /\ Sums(v, <<m>>) = v[m] /\ Sums(v, <<r, m>>) = v[r] + v[m]
  <2>1. v \in [S -> Int] BY DEF S
  <2>2. QED BY <1>1, <2>1, SumsOfFew
<1>4. run \in Seq(S) BY <1>1, <1>2
<1>5. Sums(v, run) = IF ~Used(Bucket(es, a)) THEN 0 ELSE IF a = Root THEN v[m] ELSE v[r] + v[m] BY <1>2, <1>3
<1>6. QED BY <1>1, <1>4, <1>5 DEF S, m, r, run

LEMMA ToolRuns ==
  ASSUME NEW es, AreEvents(es), NEW ok, NEW k \in DOMAIN es
  PROVE  /\ ToolRun(es, k) \in Seq(Made(es, ok)) /\ Len(ToolRun(es, k)) = Len(es[k].calls)
         /\ DOMAIN ToolRun(es, k) = DOMAIN es[k].calls
         /\ \A j \in DOMAIN ToolRun(es, k) :
              ToolRun(es, k)[j] = Record("tool", es[k].calls[j], Author(es[k]), TRUE)
<1> DEFINE x == ToolRun(es, k)
           n == Len(es[k].calls)
           S == Made(es, ok)
<1>1. n \in Nat /\ DOMAIN es[k].calls = 1 .. n
  <2>1. es[k].calls \in Seq(Range(es[k].calls)) BY DEF AreEvents, IsList
  <2>2. QED BY <2>1
<1>2. DOMAIN x = 1 .. n /\ x = [j \in 1 .. n |-> x[j]] BY <1>1 DEF ToolRun
<1>3. \A j \in 1 .. n : x[j] \in S
  <2>1. ASSUME NEW j \in 1 .. n PROVE x[j] \in S
    <3>1. x[j] \in {ToolRun(es, k)[l] : l \in DOMAIN es[k].calls} BY <1>1
    <3>2. QED BY <3>1 DEF Made
  <2>2. QED BY <2>1
<1>4. \A j \in 1 .. n : x[j] = Record("tool", es[k].calls[j], Author(es[k]), TRUE) BY <1>1 DEF ToolRun
<1> HIDE DEF x, n, S
<1>5. x \in Seq(S) /\ Len(x) = n BY <1>1, <1>2, <1>3, ListOf
<1>6. QED BY <1>1, <1>2, <1>4, <1>5 DEF x, n, S

\* What a turn's records sum to, whatever number each of them is given.
LEMMA TurnSums ==
  ASSUME NEW es, AreEvents(es), NEW ok, NEW v \in [Made(es, ok) -> Int]
  PROVE  LET K  == Authors(es)
             x  == [g \in DOMAIN K |-> Sums(v, AuthorRecords(es, K[g], ok))]
             y  == [k \in DOMAIN es |-> Sums(v, ToolRun(es, k))]
             r  == Record("agent", Root, None, ok)
         IN  /\ RecordTurn(es, ok) \in Seq(Made(es, ok)) /\ r \in Made(es, ok)
             /\ x \in Seq(Int) /\ y \in Seq(Int)
             /\ Sums(v, RecordTurn(es, ok)) = v[r] + SumOf(x) + SumOf(y)
<1> DEFINE K == Authors(es)
           S == Made(es, ok)
           r == Record("agent", Root, None, ok)
           x == [g \in DOMAIN K |-> Sums(v, AuthorRecords(es, K[g], ok))]
           y == [k \in DOMAIN es |-> Sums(v, ToolRun(es, k))]
           runs == [g \in DOMAIN K |-> AuthorRecords(es, K[g], ok)]
           tools == [k \in DOMAIN es |-> ToolRun(es, k)]
<1>1. RecordTurn(es, ok) = <<r>> \o FlattenSeq(runs) \o FlattenSeq(tools) BY DEF RecordTurn, ToolRecords, ToolRun
<1>2. r \in S BY DEF Made
<1>3. \A g \in DOMAIN K : K[g] \in Range(Authors(es)) BY DEF Range
<1>4. \A g \in DOMAIN K : AuthorRecords(es, K[g], ok) \in Seq(S) BY <1>3, AuthorRuns
<1>5. \A k \in DOMAIN es : ToolRun(es, k) \in Seq(S) BY ToolRuns
<1>6. DOMAIN K = 1 .. Len(K) /\ Len(K) \in Nat /\ DOMAIN es = 1 .. Len(es) /\ Len(es) \in Nat
  <2>1. K \in Seq(Range(K)) /\ es \in Seq(Range(es)) BY AuthorsAreKeys DEF AreEvents, IsList
  <2> HIDE DEF K
  <2>2. QED BY <2>1
<1>7. v \in [S -> Int] OBVIOUS
<1>8. runs \in Seq(Seq(S)) /\ tools \in Seq(Seq(S))
  <2>1. DOMAIN runs = 1 .. Len(K) /\ DOMAIN tools = 1 .. Len(es) BY <1>6
  <2>2. runs = [k \in 1 .. Len(K) |-> runs[k]] /\ tools = [k \in 1 .. Len(es) |-> tools[k]] BY <1>6
  <2>3. (\A k \in 1 .. Len(K) : runs[k] \in Seq(S)) /\ \A k \in 1 .. Len(es) : tools[k] \in Seq(S) BY <1>4, <1>5, <1>6
  <2> HIDE DEF runs, tools, K, S
  <2>4. runs \in Seq(Seq(S)) BY <1>6, <2>1, <2>2, <2>3, ListOf
  <2>5. tools \in Seq(Seq(S)) BY <1>6, <2>1, <2>2, <2>3, ListOf
  <2>6. QED BY <2>4, <2>5
<1>9. /\ x = [k \in DOMAIN runs |-> Sums(v, runs[k])]
      /\ y = [k \in DOMAIN tools |-> Sums(v, tools[k])]
  OBVIOUS
<1>10. \A s \in Seq(S) : Sums(v, s) \in Int
  <2> HIDE DEF S
  <2>1. TAKE s \in Seq(S)
  <2>2. Weigh(v, s) \in Seq(Int) BY <1>7, Weights
  <2>3. SumOf(Weigh(v, s)) \in Int
    <3> DEFINE q == Weigh(v, s)
    <3>1. q \in Seq(Int) /\ DOMAIN q \in SUBSET (DOMAIN q) BY <2>2
    <3> HIDE DEF q
    <3>2. SumIn(q, DOMAIN q) = SumOf(q) /\ SumIn(q, DOMAIN q) \in Int BY <3>1, OverPlaces
    <3>3. QED BY <3>2 DEF q
  <2>4. QED BY <2>3 DEF Sums
<1>11. x \in Seq(Int) /\ y \in Seq(Int)
  <2>1. DOMAIN x = 1 .. Len(K) /\ DOMAIN y = 1 .. Len(es) BY <1>6
  <2>2. x = [k \in 1 .. Len(K) |-> x[k]] /\ y = [k \in 1 .. Len(es) |-> y[k]] BY <1>6
  <2>3. (\A k \in 1 .. Len(K) : x[k] \in Int) /\ \A k \in 1 .. Len(es) : y[k] \in Int BY <1>4, <1>5, <1>6, <1>10
  <2> HIDE DEF x, y, K
  <2>4. x \in Seq(Int) BY <1>6, <2>1, <2>2, <2>3, ListOf
  <2>5. y \in Seq(Int) BY <1>6, <2>1, <2>2, <2>3, ListOf
  <2>6. QED BY <2>4, <2>5
<1> HIDE DEF runs, tools, x, y, S, r
<1>12. FlattenSeq(runs) \in Seq(S) /\ FlattenSeq(tools) \in Seq(S) BY <1>8, FlatList
<1>13. Sums(v, FlattenSeq(runs)) = SumOf(x) BY <1>7, <1>8, <1>9, SumsFlattened
<1>14. Sums(v, FlattenSeq(tools)) = SumOf(y) BY <1>7, <1>8, <1>9, SumsFlattened
<1>15. Sums(v, <<r>>) = v[r] BY <1>2, <1>7, SumsOfFew
<1> DEFINE f == FlattenSeq(runs)
           t == FlattenSeq(tools)
           one == <<r>>
<1>16. one \in Seq(S) /\ f \in Seq(S) /\ t \in Seq(S) BY <1>2, <1>12
<1> HIDE DEF f, t, one
<1>17. one \o f \in Seq(S) /\ one \o f \o t \in Seq(S) BY <1>16
<1>18. Sums(v, one \o f) = Sums(v, one) + Sums(v, f) BY <1>7, <1>16, SumsJoined
<1>19. Sums(v, one \o f \o t) = Sums(v, one \o f) + Sums(v, t) BY <1>7, <1>16, <1>17, SumsJoined
<1>20. Sums(v, RecordTurn(es, ok)) = v[r] + SumOf(x) + SumOf(y)
  BY <1>1, <1>13, <1>14, <1>15, <1>18, <1>19 DEF f, t, one
<1>21. RecordTurn(es, ok) \in Seq(S) BY <1>1, <1>17 DEF f, t, one
<1>22. QED BY <1>2, <1>11, <1>20, <1>21 DEF x, y, r, S

LEMMA AuthorSums ==
  ASSUME NEW es, AreEvents(es), NEW a, NEW v \in [Range(es) -> Nat]
  PROVE  /\ Sums(v, Of(es, a)) = SumIn(Weigh(v, es), {k \in DOMAIN es : Author(es[k]) = a})
         /\ Sums(v, Of(es, a)) \in Nat
<1> DEFINE D == {k \in DOMAIN es : Author(es[k]) = a}
<1>1. \A w \in [Range(es) -> Nat] : Sums(w, Of(es, a)) = SumIn(Weigh(w, es), D) /\ Sums(w, Of(es, a)) \in Nat
  BY EventsOfAuthor
<1> HIDE DEF D
<1>2. Sums(v, Of(es, a)) = SumIn(Weigh(v, es), D) /\ Sums(v, Of(es, a)) \in Nat BY <1>1
<1>3. QED BY <1>2 DEF D

LEMMA TokensByAuthor ==
  ASSUME NEW es, AreEvents(es), NEW ok, NEW n \in [Range(es) -> Nat], NEW v \in [Made(es, ok) -> Int],
         v[Record("agent", Root, None, ok)] = 0,
         \A a \in Range(Authors(es)) :
           /\ v[Record("agent", a, Root, ok)] = 0 /\ v[ModelCall(es, a, ok)] = Sums(n, Of(es, a))
           /\ ~Used(Bucket(es, a)) => Sums(n, Of(es, a)) = 0,
         \A k \in DOMAIN es : \A j \in DOMAIN ToolRun(es, k) : v[ToolRun(es, k)[j]] = 0
  PROVE  Sums(v, RecordTurn(es, ok)) = Sums(n, es)
<1> DEFINE K  == Authors(es)
           x  == [g \in DOMAIN K |-> Sums(v, AuthorRecords(es, K[g], ok))]
           y  == [k \in DOMAIN es |-> Sums(v, ToolRun(es, k))]
           q  == Weigh(n, es)
           c  == [k \in DOMAIN es |-> Author(es[k])]
<1>1. /\ x \in Seq(Int) /\ y \in Seq(Int)
      /\ Sums(v, RecordTurn(es, ok)) = v[Record("agent", Root, None, ok)] + SumOf(x) + SumOf(y)
  BY TurnSums
<1>2. DOMAIN x = DOMAIN K /\ DOMAIN y = DOMAIN es OBVIOUS
<1>3. \A k \in DOMAIN es : y[k] = 0
  <2>1. TAKE k \in DOMAIN es
  <2> DEFINE s == ToolRun(es, k)
             w == Weigh(v, s)
  <2>2. s \in Seq(Made(es, ok)) /\ v \in [Made(es, ok) -> Int] BY ToolRuns
  <2>3. \A j \in DOMAIN s : v[s[j]] = 0 OBVIOUS
  <2> HIDE DEF s
  <2>4. w \in Seq(Int) /\ DOMAIN w = DOMAIN s /\ \A j \in DOMAIN s : w[j] = v[s[j]] BY <2>2, Weights
  <2> HIDE DEF w
  <2>5. \A j \in DOMAIN w : w[j] = 0 BY <2>3, <2>4
  <2>6. SumOf(w) = 0 BY <2>4, <2>5, SumOfZeros
  <2>7. QED BY <2>6 DEF w, s, Sums
<1>4. SumOf(y) = 0
  <2> HIDE DEF y
  <2>1. QED BY <1>1, <1>2, <1>3, SumOfZeros
<1>5. n \in [Range(es) -> Int] OBVIOUS
<1>6. q \in Seq(Int) /\ DOMAIN q = DOMAIN es
  <2>1. es \in Seq(Range(es)) BY DEF AreEvents, IsList
  <2>2. QED BY <1>5, <2>1, Weights
<1>7. Groups(K, c) /\ DOMAIN c = DOMAIN es BY AuthorsAreKeys
<1>8. \A g \in DOMAIN K : x[g] = SumIn(q, {k \in DOMAIN q : c[k] = K[g]})
  <2>1. TAKE g \in DOMAIN K
  <2> DEFINE a == K[g]
  <2>2. a \in Range(Authors(es)) BY DEF Range
  <2>3. x[g] = Sums(v, AuthorRecords(es, a, ok)) OBVIOUS
  <2>4. Sums(n, Of(es, a)) = SumIn(q, {k \in DOMAIN es : Author(es[k]) = a}) /\ Sums(n, Of(es, a)) \in Nat
    BY AuthorSums
  <2>5. {k \in DOMAIN q : c[k] = a} = {k \in DOMAIN es : Author(es[k]) = a} BY <1>6
  <2>6. /\ v[Record("agent", a, Root, ok)] = 0 /\ v[ModelCall(es, a, ok)] = Sums(n, Of(es, a))
        /\ ~Used(Bucket(es, a)) => Sums(n, Of(es, a)) = 0
    BY <2>2
  <2>7. Sums(v, AuthorRecords(es, a, ok)) =
          IF ~Used(Bucket(es, a)) THEN 0
          ELSE IF a = Root THEN v[ModelCall(es, a, ok)]
          ELSE v[Record("agent", a, Root, ok)] + v[ModelCall(es, a, ok)]
    BY <2>2, AuthorRuns
  <2> HIDE DEF a, q, x, c
  <2>8. Sums(v, AuthorRecords(es, a, ok)) = Sums(n, Of(es, a)) BY <2>4, <2>6, <2>7
  <2>9. x[g] = SumIn(q, {k \in DOMAIN q : c[k] = a}) BY <2>3, <2>4, <2>5, <2>8
  <2>10. QED BY <2>9 DEF a
<1> HIDE DEF K, x, y, q, c
<1>9. SumOf(x) = SumOf(q)
  <2>1. q \in Seq(Int) /\ DOMAIN c = DOMAIN q /\ Groups(K, c) /\ x \in Seq(Int) /\ DOMAIN x = DOMAIN K
    BY <1>1, <1>2, <1>6, <1>7
  <2>2. QED BY <1>8, <2>1, SumOfGroups
<1>10. SumOf(q) \in Int
  <2>1. DOMAIN q \in SUBSET (DOMAIN q) OBVIOUS
  <2>2. SumIn(q, DOMAIN q) = SumOf(q) /\ SumIn(q, DOMAIN q) \in Int BY <1>6, <2>1, OverPlaces
  <2>3. QED BY <2>2
<1>11. QED BY <1>1, <1>4, <1>9, <1>10 DEF q, Sums

LEMMA RecordsMade ==
  ASSUME NEW es, AreEvents(es), NEW ok, NEW m \in Made(es, ok)
  PROVE  \/ m = Record("agent", Root, None, ok)
         \/ \E a \in Range(Authors(es)) : m = Record("agent", a, Root, ok)
         \/ \E a \in Range(Authors(es)) : m = ModelCall(es, a, ok)
         \/ \E k \in DOMAIN es : \E j \in DOMAIN ToolRun(es, k) :
              m = ToolRun(es, k)[j]
<1>1. \A k \in DOMAIN es :
        /\ DOMAIN ToolRun(es, k) = DOMAIN es[k].calls
        /\ \A j \in DOMAIN ToolRun(es, k) :
             ToolRun(es, k)[j] = Record("tool", es[k].calls[j], Author(es[k]), TRUE)
  BY ToolRuns
<1>2. CASE m \in {Record("agent", Root, None, ok)} BY <1>2
<1>3. CASE m \in {Record("agent", a, Root, ok) : a \in Range(Authors(es))} BY <1>3
<1>4. CASE m \in {ModelCall(es, a, ok) : a \in Range(Authors(es))} BY <1>4
<1>5. CASE m \in UNION {{ToolRun(es, k)[j] : j \in DOMAIN es[k].calls} : k \in DOMAIN es}
  <2>1. PICK k \in DOMAIN es : m \in {ToolRun(es, k)[j] : j \in DOMAIN es[k].calls} BY <1>5
  <2>2. PICK j \in DOMAIN es[k].calls : m = ToolRun(es, k)[j] BY <2>1
  <2>3. j \in DOMAIN ToolRun(es, k) BY <1>1, <2>2
  <2>4. QED BY <2>2, <2>3
<1>6. QED BY <1>2, <1>3, <1>4, <1>5 DEF Made

\* The numbers of an author's bucket.
LEMMA BucketNumbers ==
  ASSUME NEW es, AreEvents(es), NEW a
  PROVE  /\ Bucket(es, a).tin = Sums(TokensIn(es), Of(es, a)) /\ Bucket(es, a).tin \in Nat
         /\ Bucket(es, a).tout = Sums(TokensOut(es), Of(es, a)) /\ Bucket(es, a).tout \in Nat
         /\ ~Used(Bucket(es, a)) => Bucket(es, a).tin = 0 /\ Bucket(es, a).tout = 0
<1> DEFINE mine == Of(es, a)
           b == Bucket(es, a)
<1>1. mine \in Seq(Range(es)) BY EventsOfAuthor
<1>2. TokensIn(es) \in [Range(es) -> Nat] /\ TokensOut(es) \in [Range(es) -> Nat] BY EventNumbers
<1>3. Sums(TokensIn(es), mine) \in Nat /\ Sums(TokensOut(es), mine) \in Nat BY <1>2, EventsOfAuthor
<1>4. /\ Total(mine, LAMBDA e : e.tin) = Sums(TokensIn(es), mine)
      /\ Total(mine, LAMBDA e : e.tout) = Sums(TokensOut(es), mine)
  BY <1>1, EventNumbers
<1>5. b.tin = Total(mine, LAMBDA e : e.tin) /\ b.tout = Total(mine, LAMBDA e : e.tout) BY DEF Bucket
<1>6. ~Used(b) => ~(b.tin > 0) /\ ~(b.tout > 0) BY DEF Used
<1> HIDE DEF b, mine
<1>7. b.tin \in Nat /\ b.tout \in Nat BY <1>3, <1>4, <1>5
<1>8. ~Used(b) => b.tin = 0 /\ b.tout = 0 BY <1>6, <1>7
<1>9. QED BY <1>4, <1>5, <1>7, <1>8 DEF b, mine

LEMMA FieldsOfTools ==
  ASSUME NEW es, AreEvents(es), NEW ok, NEW k \in DOMAIN es, NEW j \in DOMAIN ToolRun(es, k)
  PROVE  /\ ToolRun(es, k)[j] \in Made(es, ok)
         /\ ToolRun(es, k)[j].kind = "tool" /\ ToolRun(es, k)[j].caller = Author(es[k])
         /\ ToolRun(es, k)[j].tin = 0 /\ ToolRun(es, k)[j].tout = 0
<1>1. ToolRun(es, k) \in Seq(Made(es, ok)) BY ToolRuns
<1>2. ToolRun(es, k)[j] \in Made(es, ok)
  <2> HIDE DEF Made
  <2>1. QED BY <1>1
<1>3. ToolRun(es, k)[j] = Record("tool", es[k].calls[j], Author(es[k]), TRUE) BY ToolRuns
<1>4. QED BY <1>2, <1>3 DEF Record

LEMMA TurnIsList ==
  ASSUME NEW es, AreEvents(es), NEW ok
  PROVE  RecordTurn(es, ok) \in Seq(Made(es, ok))
<1> DEFINE v == [m \in Made(es, ok) |-> 0]
<1>1. v \in [Made(es, ok) -> Int] OBVIOUS
<1> HIDE DEF v
<1>2. QED BY <1>1, TurnSums

\* The model calls of a turn bring the tokens n of its events, if v gives each of them
\* those of its author.
LEMMA ModelCallsBring ==
  ASSUME NEW es, AreEvents(es), NEW ok, NEW n \in [Range(es) -> Nat], NEW v \in [Made(es, ok) -> Int],
         \A a \in Range(Authors(es)) :
           /\ v[ModelCall(es, a, ok)] = Sums(n, Of(es, a))
           /\ ~Used(Bucket(es, a)) => Sums(n, Of(es, a)) = 0
  PROVE  Sums(v, OfKind(RecordTurn(es, ok), "model")) = Sums(n, es)
<1> DEFINE S == Made(es, ok)
           turn == RecordTurn(es, ok)
           D == {k \in DOMAIN turn : turn[k].kind = "model"}
           u == [m \in S |-> IF m.kind = "model" THEN v[m] ELSE 0]
<1>1. OfKind(turn, "model") = Arranged(turn, D, InPlace(D)) BY DEF OfKind, Kept
<1>2. u \in [S -> Int] /\ v \in [S -> Int] OBVIOUS
<1>3. turn \in Seq(S) BY TurnIsList
<1>4. \A k \in DOMAIN turn : u[turn[k]] = IF k \in D THEN v[turn[k]] ELSE 0
  <2>1. \A k \in DOMAIN turn : turn[k] \in S BY <1>3
  <2>2. QED BY <2>1
<1>5. D \in SUBSET (DOMAIN turn) OBVIOUS
<1>6. Sums(u, turn) = Sums(n, es)
  <2>1. u[Record("agent", Root, None, ok)] = 0
    <3>1. Record("agent", Root, None, ok) \in S /\ Record("agent", Root, None, ok).kind = "agent"
      BY FieldsOfRecords DEF Made
    <3>2. QED BY <3>1
  <2>2. \A a \in Range(Authors(es)) :
           /\ u[Record("agent", a, Root, ok)] = 0 /\ u[ModelCall(es, a, ok)] = Sums(n, Of(es, a))
           /\ ~Used(Bucket(es, a)) => Sums(n, Of(es, a)) = 0
    <3>1. TAKE a \in Range(Authors(es))
    <3>2. Record("agent", a, Root, ok) \in S /\ ModelCall(es, a, ok) \in S BY DEF Made
    <3>3. Record("agent", a, Root, ok).kind = "agent" /\ ModelCall(es, a, ok).kind = "model" BY FieldsOfRecords
    <3> HIDE DEF S
    <3>4. QED BY <3>2, <3>3
  <2>3. \A k \in DOMAIN es : \A j \in DOMAIN ToolRun(es, k) : u[ToolRun(es, k)[j]] = 0
    <3>1. TAKE k \in DOMAIN es
    <3>2. TAKE j \in DOMAIN ToolRun(es, k)
    <3>4. ToolRun(es, k)[j].kind = "tool" /\ ToolRun(es, k)[j] \in S BY FieldsOfTools
    <3> HIDE DEF S
    <3>6. QED BY <3>4
  <2> HIDE DEF u
  <2>4. u \in [Made(es, ok) -> Int] BY <1>2
  <2>5. QED BY <2>1, <2>2, <2>3, <2>4, TokensByAuthor
<1> HIDE DEF S, turn, D, u
<1>7. Sums(v, Arranged(turn, D, InPlace(D))) = Sums(u, turn)
  <2>1. Chooses(u, v, turn, D, S) BY <1>2, <1>3, <1>4, <1>5 DEF Chooses
  <2>2. QED BY <2>1, SumsChosen
<1>8. QED BY <1>1, <1>6, <1>7 DEF turn

LEMMA TokensAlwaysAccounted ==
  ASSUME NEW es, AreEvents(es), NEW ok
  PROVE  TokensAreAccounted(es, ok)
<1> DEFINE S == Made(es, ok)
           called == OfKind(RecordTurn(es, ok), "model")
           vin == [m \in S |-> m.tin]
           vout == [m \in S |-> m.tout]
<1>1. \A m \in S : m.tin \in Int /\ m.tout \in Int
  <2>1. TAKE m \in S
  <2>2. CASE m = Record("agent", Root, None, ok) \/ \E a \in Range(Authors(es)) : m = Record("agent", a, Root, ok)
    BY <2>2, FieldsOfRecords
  <2>3. CASE \E a \in Range(Authors(es)) : m = ModelCall(es, a, ok) BY <2>3, FieldsOfRecords, BucketNumbers
  <2>4. CASE \E k \in DOMAIN es : \E j \in DOMAIN ToolRun(es, k) :
                m = ToolRun(es, k)[j]
    <3>1. PICK k \in DOMAIN es : \E j \in DOMAIN ToolRun(es, k) :
                m = ToolRun(es, k)[j]
      BY <2>4
    <3>2. PICK j \in DOMAIN ToolRun(es, k) : m = ToolRun(es, k)[j] BY <3>1
    <3>3. m.tin = 0 /\ m.tout = 0 BY <3>2, FieldsOfTools
    <3>4. QED BY <3>3
  <2>5. \/ m = Record("agent", Root, None, ok)
        \/ \E a \in Range(Authors(es)) : m = Record("agent", a, Root, ok)
        \/ \E a \in Range(Authors(es)) : m = ModelCall(es, a, ok)
        \/ \E k \in DOMAIN es : \E j \in DOMAIN ToolRun(es, k) :
             m = ToolRun(es, k)[j]
    BY RecordsMade
  <2>6. QED BY <2>2, <2>3, <2>4, <2>5
<1>2. vin \in [S -> Int] /\ vout \in [S -> Int] BY <1>1
<1>3. called \in Seq(S)
  <2> DEFINE turn == RecordTurn(es, ok)
             D == {k \in DOMAIN turn : turn[k].kind = "model"}
  <2>1. turn \in Seq(S) BY TurnIsList
  <2>2. called = Arranged(turn, D, InPlace(D)) /\ D \in SUBSET (DOMAIN turn) BY DEF OfKind, Kept
  <2> HIDE DEF turn, D, S, called
  <2>3. QED BY <2>1, <2>2, ArrangedInPlace
<1>4. es \in Seq(Range(es)) BY DEF AreEvents, IsList
<1>5. /\ TokensIn(es) \in [Range(es) -> Nat] /\ TokensOut(es) \in [Range(es) -> Nat]
      /\ Total(es, LAMBDA e : e.tin) = Sums(TokensIn(es), es)
      /\ Total(es, LAMBDA e : e.tout) = Sums(TokensOut(es), es)
  BY <1>4, EventNumbers
<1>6. Sums(vin, called) = Sums(TokensIn(es), es)
  <2>1. \A a \in Range(Authors(es)) :
           /\ vin[ModelCall(es, a, ok)] = Sums(TokensIn(es), Of(es, a))
           /\ ~Used(Bucket(es, a)) => Sums(TokensIn(es), Of(es, a)) = 0
    <3>1. TAKE a \in Range(Authors(es))
    <3>2. ModelCall(es, a, ok) \in S BY DEF Made
    <3>3. vin[ModelCall(es, a, ok)] = Bucket(es, a).tin BY <3>2, FieldsOfRecords
    <3> HIDE DEF vin, S
    <3>4. QED BY <3>3, BucketNumbers
  <2> HIDE DEF vin
  <2>2. QED BY <1>2, <1>5, <2>1, ModelCallsBring
<1>7. Sums(vout, called) = Sums(TokensOut(es), es)
  <2>1. \A a \in Range(Authors(es)) :
           /\ vout[ModelCall(es, a, ok)] = Sums(TokensOut(es), Of(es, a))
           /\ ~Used(Bucket(es, a)) => Sums(TokensOut(es), Of(es, a)) = 0
    <3>1. TAKE a \in Range(Authors(es))
    <3>2. ModelCall(es, a, ok) \in S BY DEF Made
    <3>3. vout[ModelCall(es, a, ok)] = Bucket(es, a).tout BY <3>2, FieldsOfRecords
    <3> HIDE DEF vout, S
    <3>4. QED BY <3>3, BucketNumbers
  <2> HIDE DEF vout
  <2>2. QED BY <1>2, <1>5, <2>1, ModelCallsBring
<1>8. /\ Total(called, LAMBDA r : r.tin) = Sums(vin, called)
      /\ Total(called, LAMBDA r : r.tout) = Sums(vout, called)
  <2>1. \A k \in DOMAIN called : called[k] \in S
    <3> HIDE DEF S, called
    <3>1. QED BY <1>3
  <2>2. [k \in DOMAIN called |-> called[k].tin] = Weigh(vin, called)
    <3>1. \A k \in DOMAIN called : vin[called[k]] = called[k].tin BY <2>1
    <3> HIDE DEF vin, called
    <3>2. QED BY <3>1 DEF Weigh
  <2>3. [k \in DOMAIN called |-> called[k].tout] = Weigh(vout, called)
    <3>1. \A k \in DOMAIN called : vout[called[k]] = called[k].tout BY <2>1
    <3> HIDE DEF vout, called
    <3>2. QED BY <3>1 DEF Weigh
  <2> HIDE DEF vin, vout, called
  <2>4. QED BY <2>2, <2>3 DEF Total, Sums
<1> HIDE DEF vin, vout
<1>9. QED BY <1>5, <1>6, <1>7, <1>8 DEF TokensAreAccounted

LEMMA ToolsOfTurn ==
  ASSUME NEW es, AreEvents(es), NEW ok, NEW v \in [Made(es, ok) -> Int], NEW k \in DOMAIN es
  PROVE  /\ (\A j \in DOMAIN ToolRun(es, k) : v[ToolRun(es, k)[j]] = 0) => Sums(v, ToolRun(es, k)) = 0
         /\ (\A j \in DOMAIN ToolRun(es, k) : v[ToolRun(es, k)[j]] = 1)
              => Sums(v, ToolRun(es, k)) = Len(es[k].calls)
<1> DEFINE s == ToolRun(es, k)
           S == Made(es, ok)
<1>1. s \in Seq(S) /\ Len(s) = Len(es[k].calls) /\ v \in [S -> Int] BY ToolRuns
<1> HIDE DEF s, S
<1>2. /\ (\A j \in DOMAIN s : v[s[j]] = 0) => Sums(v, s) = 0
      /\ (\A j \in DOMAIN s : v[s[j]] = 1) => Sums(v, s) = Len(s)
  BY <1>1, SumsOfSame
<1>3. QED BY <1>1, <1>2 DEF s

\* Agents that used tokens are listed once, the root in any case.
LEMMA AgentsListedOnce ==
  ASSUME NEW es, AreEvents(es), NEW ok, NEW a \in Range(Authors(es)) \cup {Root}
  PROVE  Len(Kept(RecordTurn(es, ok), LAMBDA r : r.kind = "agent" /\ r.name = a))
           = IF a = Root \/ Used(Bucket(es, a)) THEN 1 ELSE 0
<1> DEFINE S == Made(es, ok)
           turn == RecordTurn(es, ok)
           D == {k \in DOMAIN turn : turn[k].kind = "agent" /\ turn[k].name = a}
           v == [m \in S |-> IF m.kind = "agent" /\ m.name = a THEN 1 ELSE 0]
           K == Authors(es)
           x == [g \in DOMAIN K |-> Sums(v, AuthorRecords(es, K[g], ok))]
           y == [k \in DOMAIN es |-> Sums(v, ToolRun(es, k))]
           first == Record("agent", Root, None, ok)
<1>1. Kept(turn, LAMBDA r : r.kind = "agent" /\ r.name = a) = Arranged(turn, D, InPlace(D)) BY DEF Kept
<1>2. turn \in Seq(S) BY TurnIsList
<1>3. v \in [S -> Int] OBVIOUS
<1>4. Len(Arranged(turn, D, InPlace(D))) = Sums(v, turn)
  <2>1. \A k \in DOMAIN turn : turn[k] \in S
    <3> HIDE DEF S, turn
    <3>1. QED BY <1>2
  <2>2. \A k \in DOMAIN turn : v[turn[k]] = IF k \in D THEN [m \in S |-> 1][turn[k]] ELSE 0
    <3> HIDE DEF turn
    <3>1. QED BY <2>1
  <2>3. D \in SUBSET (DOMAIN turn) /\ [m \in S |-> 1] \in [S -> Int] OBVIOUS
  <2> HIDE DEF S, turn, D, v
  <2>4. Chooses(v, [m \in S |-> 1], turn, D, S) BY <1>2, <1>3, <2>2, <2>3 DEF Chooses
  <2>5. QED BY <2>4, CountsChosen
<1>5. /\ x \in Seq(Int) /\ y \in Seq(Int) /\ first \in S
      /\ Sums(v, turn) = v[first] + SumOf(x) + SumOf(y)
  BY <1>3, TurnSums
<1>6. v[first] = IF a = Root THEN 1 ELSE 0
  <2>1. first.kind = "agent" /\ first.name = Root BY FieldsOfRecords
  <2> HIDE DEF first, S
  <2>2. QED BY <1>5, <2>1
<1>7. SumOf(y) = 0
  <2>1. DOMAIN y = DOMAIN es OBVIOUS
  <2>2. \A k \in DOMAIN es : y[k] = 0
    <3>1. TAKE k \in DOMAIN es
    <3>2. \A j \in DOMAIN ToolRun(es, k) : v[ToolRun(es, k)[j]] = 0
      <4>1. TAKE j \in DOMAIN ToolRun(es, k)
      <4>2. ToolRun(es, k)[j] \in S /\ ToolRun(es, k)[j].kind = "tool" BY FieldsOfTools
      <4> HIDE DEF S
      <4>3. QED BY <4>2
    <3> HIDE DEF v
    <3>3. Sums(v, ToolRun(es, k)) = 0 BY <1>3, <3>2, ToolsOfTurn
    <3>4. QED BY <3>3
  <2> HIDE DEF y
  <2>3. QED BY <1>5, <2>1, <2>2, SumOfZeros
<1>8. \A g \in DOMAIN K : x[g] = IF K[g] = a /\ a # Root /\ Used(Bucket(es, a)) THEN 1 ELSE 0
  <2>1. TAKE g \in DOMAIN K
  <2> DEFINE b == K[g]
             r == Record("agent", b, Root, ok)
             m == ModelCall(es, b, ok)
  <2>2. b \in Range(Authors(es)) BY DEF Range
  <2>3. x[g] = Sums(v, AuthorRecords(es, b, ok)) OBVIOUS
  <2>4. r \in S /\ m \in S /\ r.kind = "agent" /\ r.name = b /\ m.kind = "model" BY <2>2, FieldsOfRecords DEF Made
  <2>5. v[r] = (IF b = a THEN 1 ELSE 0) /\ v[m] = 0
    <3> HIDE DEF S, r, m, b
    <3>1. QED BY <2>4
  <2> HIDE DEF b, v, x
  <2>6. Sums(v, AuthorRecords(es, b, ok)) =
          IF ~Used(Bucket(es, b)) THEN 0 ELSE IF b = Root THEN v[m] ELSE v[r] + v[m]
    BY <1>3, <2>2, AuthorRuns
  <2> HIDE DEF r, m
  <2>7. x[g] = IF b = a /\ a # Root /\ Used(Bucket(es, a)) THEN 1 ELSE 0 BY <2>3, <2>5, <2>6
  <2>8. QED BY <2>7 DEF b
<1>9. DOMAIN x = DOMAIN K OBVIOUS
<1>10. \A g, h \in DOMAIN K : K[g] = K[h] => g = h BY AuthorsAreKeys DEF Groups
<1>11. CASE a = Root
  <2>1. \A g \in DOMAIN x : x[g] = 0 BY <1>8, <1>9, <1>11
  <2> HIDE DEF x, y, v, K, turn, D, S, first
  <2>2. SumOf(x) = 0 BY <1>5, <2>1, SumOfZeros
  <2>3. Sums(v, turn) = 1 BY <1>5, <1>6, <1>7, <1>11, <2>2
  <2>4. QED BY <1>1, <1>4, <1>11, <2>3 DEF turn
<1>12. CASE a # Root
  <2>1. PICK g \in DOMAIN K : K[g] = a BY <1>12 DEF Range
  <2>2. \A h \in DOMAIN x : h # g => x[h] = 0 BY <1>8, <1>9, <1>10, <2>1
  <2>3. x[g] = IF Used(Bucket(es, a)) THEN 1 ELSE 0 BY <1>8, <1>12, <2>1
  <2> HIDE DEF x, y, v, K, turn, D, S, first
  <2>4. SumOf(x) = x[g] BY <1>5, <1>9, <2>1, <2>2, SumOfSingle
  <2>5. Sums(v, turn) = x[g] BY <1>5, <1>6, <1>7, <1>12, <2>3, <2>4
  <2>6. QED BY <1>1, <1>4, <1>12, <2>3, <2>5 DEF turn
<1>13. QED BY <1>11, <1>12

\* The calls of tools are listed under the agent that made them.
LEMMA ToolsListedOnce ==
  ASSUME NEW es, AreEvents(es), NEW ok, NEW a
  PROVE  Len(Kept(RecordTurn(es, ok), LAMBDA r : r.kind = "tool" /\ r.caller = a))
           = Total(Of(es, a), LAMBDA e : Len(e.calls))
<1> DEFINE S == Made(es, ok)
           turn == RecordTurn(es, ok)
           D == {k \in DOMAIN turn : turn[k].kind = "tool" /\ turn[k].caller = a}
           v == [m \in S |-> IF m.kind = "tool" /\ m.caller = a THEN 1 ELSE 0]
           K == Authors(es)
           x == [g \in DOMAIN K |-> Sums(v, AuthorRecords(es, K[g], ok))]
           y == [k \in DOMAIN es |-> Sums(v, ToolRun(es, k))]
           first == Record("agent", Root, None, ok)
           H == {k \in DOMAIN es : Author(es[k]) = a}
<1>1. Kept(turn, LAMBDA r : r.kind = "tool" /\ r.caller = a) = Arranged(turn, D, InPlace(D)) BY DEF Kept
<1>2. turn \in Seq(S) BY TurnIsList
<1>3. v \in [S -> Int] OBVIOUS
<1>4. Len(Arranged(turn, D, InPlace(D))) = Sums(v, turn)
  <2>1. \A k \in DOMAIN turn : turn[k] \in S
    <3> HIDE DEF S, turn
    <3>1. QED BY <1>2
  <2>2. \A k \in DOMAIN turn : v[turn[k]] = IF k \in D THEN [m \in S |-> 1][turn[k]] ELSE 0
    <3> HIDE DEF turn
    <3>1. QED BY <2>1
  <2>3. D \in SUBSET (DOMAIN turn) /\ [m \in S |-> 1] \in [S -> Int] OBVIOUS
  <2> HIDE DEF S, turn, D, v
  <2>4. Chooses(v, [m \in S |-> 1], turn, D, S) BY <1>2, <1>3, <2>2, <2>3 DEF Chooses
  <2>5. QED BY <2>4, CountsChosen
<1>5. /\ x \in Seq(Int) /\ y \in Seq(Int) /\ first \in S
      /\ Sums(v, turn) = v[first] + SumOf(x) + SumOf(y)
  BY <1>3, TurnSums
<1>6. v[first] = 0
  <2>1. first.kind = "agent" BY FieldsOfRecords
  <2> HIDE DEF first, S
  <2>2. QED BY <1>5, <2>1
<1>7. SumOf(x) = 0
  <2>1. \A g \in DOMAIN K : x[g] = 0
    <3>1. TAKE g \in DOMAIN K
    <3> DEFINE b == K[g]
               r == Record("agent", b, Root, ok)
               m == ModelCall(es, b, ok)
    <3>2. b \in Range(Authors(es)) BY DEF Range
    <3>3. x[g] = Sums(v, AuthorRecords(es, b, ok)) OBVIOUS
    <3>4. r \in S /\ m \in S /\ r.kind = "agent" /\ m.kind = "model" BY <3>2, FieldsOfRecords DEF Made
    <3>5. v[r] = 0 /\ v[m] = 0
      <4> HIDE DEF S, r, m, b
      <4>1. QED BY <3>4
    <3> HIDE DEF b, v, x
    <3>6. Sums(v, AuthorRecords(es, b, ok)) =
            IF ~Used(Bucket(es, b)) THEN 0 ELSE IF b = Root THEN v[m] ELSE v[r] + v[m]
      BY <1>3, <3>2, AuthorRuns
    <3> HIDE DEF r, m
    <3>7. QED BY <3>3, <3>5, <3>6
  <2>2. DOMAIN x = DOMAIN K OBVIOUS
  <2> HIDE DEF x
  <2>3. QED BY <1>5, <2>1, <2>2, SumOfZeros
<1> DEFINE n == CallsMade(es)
<1>8. n \in [Range(es) -> Nat] /\ n \in [Range(es) -> Int] /\ es \in Seq(Range(es))
  <2>1. n \in [Range(es) -> Nat] BY EventNumbers
  <2>2. es \in Seq(Range(es)) BY DEF AreEvents, IsList
  <2> HIDE DEF n
  <2>3. n \in [Range(es) -> Int] BY <2>1
  <2>4. QED BY <2>1, <2>2, <2>3
<1>9. y = [k \in DOMAIN es |-> IF k \in H THEN n[es[k]] ELSE 0]
  <2>1. \A k \in DOMAIN es : Sums(v, ToolRun(es, k)) = IF k \in H THEN n[es[k]] ELSE 0
    <3>1. TAKE k \in DOMAIN es
    <3>2. \A j \in DOMAIN ToolRun(es, k) : v[ToolRun(es, k)[j]] = IF k \in H THEN 1 ELSE 0
      <4>1. TAKE j \in DOMAIN ToolRun(es, k)
      <4>2. /\ ToolRun(es, k)[j] \in S /\ ToolRun(es, k)[j].kind = "tool"
            /\ ToolRun(es, k)[j].caller = Author(es[k])
        BY FieldsOfTools
      <4> HIDE DEF S
      <4>3. QED BY <4>2
    <3>3. n[es[k]] = Len(es[k].calls)
      <4>1. es[k] \in Range(es) BY DEF Range
      <4>2. QED BY <4>1 DEF CallsMade
    <3> HIDE DEF v, H, n
    <3>4. QED BY <1>3, <3>2, <3>3, ToolsOfTurn
  <2> HIDE DEF v, H, n
  <2>2. QED BY <2>1
<1>10. SumOf(y) = Sums(n, Of(es, a))
  <2>1. H \in SUBSET (DOMAIN es) /\ Of(es, a) = Arranged(es, H, InPlace(H)) BY EventsOfAuthor
  <2> HIDE DEF y, H, n
  <2>2. Sums(n, Arranged(es, H, InPlace(H))) = SumOf(Chosen(n, es, H)) BY <1>8, <2>1, SumsKept
  <2>3. QED BY <1>9, <2>1, <2>2 DEF Chosen
<1>11. Total(Of(es, a), LAMBDA e : Len(e.calls)) = Sums(n, Of(es, a)) /\ Sums(n, Of(es, a)) \in Nat
  <2>1. Of(es, a) \in Seq(Range(es)) BY EventsOfAuthor
  <2>2. Sums(n, Of(es, a)) \in Nat BY <1>8, AuthorSums
  <2>3. QED BY <2>1, <2>2, EventNumbers
<1> HIDE DEF x, y, v, K, turn, D, S, first, n
<1>12. Sums(v, turn) = Sums(n, Of(es, a))
  <2>1. Sums(v, turn) = v[first] + SumOf(x) + SumOf(y) BY <1>5
  <2>2. SumOf(y) \in Nat /\ SumOf(y) = Sums(n, Of(es, a)) BY <1>10, <1>11
  <2>3. QED BY <1>6, <1>7, <2>1, <2>2
<1>13. QED BY <1>1, <1>4, <1>11, <1>12 DEF turn

LEMMA WorkAlwaysAttributed ==
  ASSUME NEW es, AreEvents(es), NEW ok
  PROVE  WorkIsAttributed(es, ok)
<1>1. ToSet(Authors(es)) = Range(Authors(es)) BY DEF ToSet, Range
<1> SUFFICES ASSUME NEW a \in Range(Authors(es)) \cup {Root}
             PROVE  /\ Len(Kept(RecordTurn(es, ok), LAMBDA r : r.kind = "agent" /\ r.name = a))
                         = IF a = Root \/ Used(Bucket(es, a)) THEN 1 ELSE 0
                    /\ Len(Kept(RecordTurn(es, ok), LAMBDA r : r.kind = "tool" /\ r.caller = a))
                         = Total(Of(es, a), LAMBDA e : Len(e.calls))
  BY <1>1 DEF WorkIsAttributed
<1>2. Len(Kept(RecordTurn(es, ok), LAMBDA r : r.kind = "agent" /\ r.name = a))
        = IF a = Root \/ Used(Bucket(es, a)) THEN 1 ELSE 0
  BY AgentsListedOnce
<1>3. Len(Kept(RecordTurn(es, ok), LAMBDA r : r.kind = "tool" /\ r.caller = a))
        = Total(Of(es, a), LAMBDA e : Len(e.calls))
  BY ToolsListedOnce
<1>4. QED BY <1>2, <1>3

-----------------------------------------------------------------------------
(* Usage: the transcript.                                                  *)

\* No address, in its two pieces, in a text.
Unsplit(text) == \A j \in 1 .. Len(text) - 1 : ~(text[j] = "first" /\ text[j + 1] = "second")

Piece(out, piece) ==
  IF piece = "second" /\ out # <<>> /\ Last(out) = "first" THEN Append(Front(out), "[redacted]") ELSE Append(out, piece)

LEMMA PieceStaysClean ==
  ASSUME NEW T, "[redacted]" \in T, NEW out \in Seq(T), Unsplit(out), NEW piece \in T
  PROVE  Piece(out, piece) \in Seq(T) /\ Unsplit(Piece(out, piece))
<1> DEFINE m == Len(out)
<1>1. m \in Nat /\ DOMAIN out = 1 .. m /\ \A j \in 1 .. m : out[j] \in T OBVIOUS
<1>2. CASE piece = "second" /\ out # <<>> /\ Last(out) = "first"
  <2>1. m >= 1 BY <1>2
  <2> DEFINE f == Front(out)
             r == Append(f, "[redacted]")
  <2>2. f \in Seq(T) /\ Len(f) = m - 1 /\ \A j \in 1 .. m - 1 : f[j] = out[j]
    <3> DEFINE l == m - 1
    <3>1. l \in Nat /\ l <= Len(out) BY <1>1, <2>1
    <3>2. f = SubSeq(out, 1, l) BY DEF Front
    <3> HIDE DEF l
    <3>3. SubSeq(out, 1, l) \in Seq(T) /\ Len(SubSeq(out, 1, l)) = l /\ \A j \in 1 .. l : SubSeq(out, 1, l)[j] = out[j]
      BY <3>1
    <3>4. QED BY <3>2, <3>3 DEF l
  <2> HIDE DEF f
  <2>3. r \in Seq(T) /\ Len(r) = m /\ r[m] = "[redacted]" /\ \A j \in 1 .. m - 1 : r[j] = out[j] BY <2>1, <2>2
  <2>4. Piece(out, piece) = r BY <1>2 DEF Piece, f
  <2> HIDE DEF r
  <2>5. Unsplit(r)
    <3> SUFFICES ASSUME NEW j \in 1 .. Len(r) - 1, r[j] = "first", r[j + 1] = "second" PROVE FALSE BY DEF Unsplit
    <3>1. CASE j + 1 = m BY <2>3, <3>1
    <3>2. CASE j + 1 < m
      <4>1. j \in 1 .. m - 1 /\ j + 1 \in 1 .. m - 1 /\ j \in 1 .. Len(out) - 1 BY <2>3, <3>2
      <4>2. out[j] = "first" /\ out[j + 1] = "second" BY <2>3, <4>1
      <4>3. QED BY <4>1, <4>2 DEF Unsplit
    <3>3. j + 1 = m \/ j + 1 < m
      <4>1. Len(r) = m /\ m \in Nat BY <1>1, <2>3
      <4> HIDE DEF m
      <4>2. QED BY <4>1
    <3>4. QED BY <3>1, <3>2, <3>3
  <2>6. QED BY <2>3, <2>4, <2>5
<1>3. CASE ~(piece = "second" /\ out # <<>> /\ Last(out) = "first")
  <2> DEFINE r == Append(out, piece)
  <2>1. r \in Seq(T) /\ Len(r) = m + 1 /\ r[m + 1] = piece /\ \A j \in 1 .. m : r[j] = out[j] BY <1>1
  <2>2. Piece(out, piece) = r BY <1>3 DEF Piece
  <2> HIDE DEF r
  <2>3. Unsplit(r)
    <3> SUFFICES ASSUME NEW j \in 1 .. Len(r) - 1, r[j] = "first", r[j + 1] = "second" PROVE FALSE BY DEF Unsplit
    <3>1. j \in 1 .. m BY <1>1, <2>1
    <3>2. CASE j = m
      <4>1. out[m] = "first" /\ piece = "second" /\ out # <<>> BY <1>1, <2>1, <3>1, <3>2
      <4>2. Last(out) = "first" BY <4>1 DEF Last
      <4>3. QED BY <1>3, <4>1, <4>2
    <3>3. CASE j # m
      <4>1. j + 1 \in 1 .. m /\ j \in 1 .. Len(out) - 1
        <5>1. m \in Nat /\ j \in 1 .. m /\ j # m /\ m = Len(out) BY <1>1, <3>1, <3>3
        <5> HIDE DEF m
        <5>2. j + 1 \in 1 .. m /\ j \in 1 .. m - 1 BY <5>1
        <5>3. QED BY <5>1, <5>2
      <4>2. out[j] = "first" /\ out[j + 1] = "second" BY <2>1, <3>1, <4>1
      <4>3. QED BY <4>1, <4>2 DEF Unsplit
    <3>4. QED BY <3>2, <3>3
  <2>4. QED BY <2>1, <2>2, <2>3
<1>4. QED BY <1>2, <1>3

LEMMA RedactLeavesClean ==
  ASSUME NEW S, NEW text \in Seq(S)
  PROVE  Unsplit(Redact(text))
<1> DEFINE n == Len(text)
           T == S \cup {"[redacted]"}
           A == {out \in Seq(T) : Unsplit(out)}
           F == [p \in A \X (1 .. n) |-> Piece(p[1], text[p[2]])]
           Step(h) == h = [s \in SUBSET (1 .. n) |-> IF s = {} THEN <<>> ELSE Piece(h[s \ {Max(s)}], text[Max(s)])]
           it == CHOOSE h : Step(h)
<1>1. n \in Nat /\ DOMAIN text = 1 .. n /\ \A k \in 1 .. n : text[k] \in T OBVIOUS
<1>2. <<>> \in A
  <2>1. <<>> \in Seq(T) /\ Unsplit(<<>>) BY DEF Unsplit
  <2>2. QED BY <2>1
<1>3. F \in [A \X (1 .. n) -> A]
  <2>1. \A out \in A, k \in 1 .. n : Piece(out, text[k]) \in A
    <3> TAKE out \in A, k \in 1 .. n
    <3>1. out \in Seq(T) /\ Unsplit(out) /\ text[k] \in T /\ "[redacted]" \in T BY <1>1
    <3> HIDE DEF T
    <3>2. Piece(out, text[k]) \in Seq(T) /\ Unsplit(Piece(out, text[k])) BY <3>1, PieceStaysClean
    <3>3. QED BY <3>2
  <2> HIDE DEF A
  <2>2. QED BY <2>1
<1>4. \E h : Step(h)
  <2>1. PICK h \in [SUBSET (1 .. n) -> A] : Computed(h, n, <<>>, F)
    <3> HIDE DEF F, n, A
    <3>1. QED BY <1>1, <1>2, <1>3, SubsetRecursion
  <2>2. ASSUME NEW s \in SUBSET (1 .. n), s # {} PROVE h[s] = Piece(h[s \ {Max(s)}], text[Max(s)])
    <3>1. Max(s) \in 1 .. n /\ h[s \ {Max(s)}] \in A BY <1>1, <2>2, LargestMember
    <3> HIDE DEF A
    <3>2. QED BY <2>1, <2>2, <3>1 DEF Computed
  <2>3. Step(h)
    <3> HIDE DEF A, F
    <3>1. QED BY <2>1, <2>2 DEF Computed
  <2>4. QED BY <2>3
<1>5. Step(it) BY <1>4
<1>6. Redact(text) = it[1 .. n] BY <1>1 DEF Redact, FoldLeft, MapThenFoldSet, Piece
<1> HIDE DEF it
<1>7. it[{}] = <<>> BY <1>5
<1>8. \A s \in SUBSET (1 .. n) : s # {} /\ it[s \ {Max(s)}] \in A => it[s] = F[<<it[s \ {Max(s)}], Max(s)>>]
  <2> SUFFICES ASSUME NEW s \in SUBSET (1 .. n), s # {}, it[s \ {Max(s)}] \in A
               PROVE  it[s] = F[<<it[s \ {Max(s)}], Max(s)>>]
    OBVIOUS
  <2>1. Max(s) \in 1 .. n BY <1>1, LargestMember
  <2>2. it[s] = Piece(it[s \ {Max(s)}], text[Max(s)]) BY <1>5
  <2> HIDE DEF A
  <2>3. QED BY <2>1, <2>2
<1> HIDE DEF A, F, n
<1>9. StepsIn(A, it, n, <<>>, F) BY <1>7, <1>8 DEF StepsIn
<1>10. PICK t : IsRun(t, A, n, <<>>, F, it[1 .. n]) BY <1>1, <1>2, <1>3, <1>9, RunOfSubsets
<1>11. it[1 .. n] \in A
  <2>1. n \in 0 .. n BY <1>1
  <2>2. QED BY <1>10, <2>1 DEF IsRun
<1>12. QED BY <1>6, <1>11 DEF A

LEMMA FlatLength ==
  ASSUME NEW S, NEW ss \in Seq(Seq(S))
  PROVE  Len(FlattenSeq(ss)) = SumOf([k \in DOMAIN ss |-> Len(ss[k])])
<1> DEFINE v == [x \in S |-> 1]
<1>1. v \in [S -> Int] /\ \A x \in S : v[x] = 1 OBVIOUS
<1> HIDE DEF v
<1>2. \A s \in Seq(S) : Sums(v, s) = Len(s)
  <2>1. TAKE s \in Seq(S)
  <2>2. \A j \in DOMAIN s : v[s[j]] = 1 BY <1>1
  <2>3. QED BY <1>1, <2>2, SumsOfSame
<1>3. FlattenSeq(ss) \in Seq(S) BY FlatList
<1>4. Sums(v, FlattenSeq(ss)) = SumOf([k \in DOMAIN ss |-> Sums(v, ss[k])]) BY <1>1, SumsFlattened
<1>5. [k \in DOMAIN ss |-> Sums(v, ss[k])] = [k \in DOMAIN ss |-> Len(ss[k])]
  <2>1. \A k \in DOMAIN ss : Sums(v, ss[k]) = Len(ss[k])
    <3>1. TAKE k \in DOMAIN ss
    <3>2. ss[k] \in Seq(S) OBVIOUS
    <3>3. QED BY <1>2, <3>2
  <2>2. QED BY <2>1
<1>6. Sums(v, FlattenSeq(ss)) = Len(FlattenSeq(ss)) BY <1>2, <1>3
<1>7. QED BY <1>4, <1>5, <1>6

\* The calls in an author's message are those of its events.
LEMMA CallsOfAuthor ==
  ASSUME NEW es, AreEvents(es), NEW a
  PROVE  /\ Len(ToolCalls(es, a)) = Sums(CallsMade(es), Of(es, a))
         /\ Len(ToolCalls(es, a)) \in Nat
         /\ ToolCalls(es, a) = <<>> => Len(ToolCalls(es, a)) = 0
<1> DEFINE mine == Of(es, a)
           S == UNION {Range(e.calls) : e \in Range(es)}
           ss == [k \in DOMAIN mine |-> mine[k].calls]
<1>1. mine \in Seq(Range(es)) BY EventsOfAuthor
<1>2. \A e \in Range(es) : e.calls \in Seq(S)
  <2>1. TAKE e \in Range(es)
  <2>2. e.calls \in Seq(Range(e.calls)) BY DEF AreEvents, IsList, Range
  <2>3. Range(e.calls) \subseteq S OBVIOUS
  <2> HIDE DEF S
  <2>4. DOMAIN e.calls = 1 .. Len(e.calls) /\ Len(e.calls) \in Nat /\ \A k \in 1 .. Len(e.calls) : e.calls[k] \in S
    BY <2>2, <2>3
  <2>5. e.calls = [k \in 1 .. Len(e.calls) |-> e.calls[k]] BY <2>2
  <2>6. QED BY <2>4, <2>5, ListOf
<1> HIDE DEF S, mine
<1>3. ss \in Seq(Seq(S))
  <2>1. DOMAIN mine = 1 .. Len(mine) /\ Len(mine) \in Nat /\ \A k \in 1 .. Len(mine) : mine[k] \in Range(es) BY <1>1
  <2>2. DOMAIN ss = 1 .. Len(mine) /\ ss = [k \in 1 .. Len(mine) |-> ss[k]] /\ \A k \in 1 .. Len(mine) : ss[k] \in Seq(S)
    BY <1>2, <2>1
  <2> HIDE DEF ss
  <2>3. QED BY <2>1, <2>2, ListOf
<1>4. Len(FlattenSeq(ss)) = SumOf([k \in DOMAIN ss |-> Len(ss[k])])
  <2> HIDE DEF ss
  <2>1. QED BY <1>3, FlatLength
<1>5. [k \in DOMAIN ss |-> Len(ss[k])] = [k \in DOMAIN mine |-> Len(mine[k].calls)] OBVIOUS
<1>6. Total(mine, LAMBDA e : Len(e.calls)) = SumOf([k \in DOMAIN mine |-> Len(mine[k].calls)]) BY DEF Total
<1>7. Total(mine, LAMBDA e : Len(e.calls)) = Sums(CallsMade(es), mine) BY <1>1, EventNumbers
<1>8. ToolCalls(es, a) = FlattenSeq(ss) BY DEF ToolCalls, mine
<1> HIDE DEF ss
<1>9. Len(ToolCalls(es, a)) = Sums(CallsMade(es), mine) BY <1>4, <1>5, <1>6, <1>7, <1>8
<1>10. Sums(CallsMade(es), mine) \in Nat
  <2>1. CallsMade(es) \in [Range(es) -> Nat] BY EventNumbers
  <2>2. QED BY <2>1, AuthorSums DEF mine
<1>11. ToolCalls(es, a) = <<>> => Len(ToolCalls(es, a)) = 0 OBVIOUS
<1>12. QED BY <1>9, <1>10, <1>11 DEF mine

Speaks(es, a) == Said(es, a) # <<>> \/ ToolCalls(es, a) # <<>>

\* The places of the names of those who spoke or called.
Speaking(es, byName) ==
  {k \in DOMAIN byName : Contains(Authors(es), byName[k]) /\ Speaks(es, byName[k])}

\* How many calls there are under each name.
CallsUnder(es, byName) == [a \in Range(byName) |-> Len(ToolCalls(es, a))]

\* The names of an instance: each once, and all that are needed.
NamesOK(es, byName) ==
  IsList(byName) /\ IsInjective(byName) /\ \A k \in DOMAIN es : Author(es[k]) \in Range(byName)

LEMMA CallsByName ==
  ASSUME NEW es, AreEvents(es), NEW byName, NamesOK(es, byName)
  PROVE  /\ CallsUnder(es, byName) \in [Range(byName) -> Int]
         /\ Sums(CallsUnder(es, byName), byName) = Total(es, LAMBDA e : Len(e.calls))
<1> DEFINE w == CallsUnder(es, byName)
           n == CallsMade(es)
           q == Weigh(n, es)
           c == [k \in DOMAIN es |-> Author(es[k])]
           x == Weigh(w, byName)
<1>1. \A a \in Range(byName) : w[a] = Len(ToolCalls(es, a)) /\ w[a] \in Nat /\ w[a] = Sums(n, Of(es, a))
  BY CallsOfAuthor DEF CallsUnder
<1>2. w \in [Range(byName) -> Int]
  <2>1. w = [a \in Range(byName) |-> w[a]] BY DEF CallsUnder
  <2> HIDE DEF w
  <2>2. QED BY <1>1, <2>1
<1>3. es \in Seq(Range(es)) /\ byName \in Seq(Range(byName)) BY DEF AreEvents, IsList, NamesOK
<1>4. n \in [Range(es) -> Nat] /\ n \in [Range(es) -> Int]
  <2>1. n \in [Range(es) -> Nat] BY EventNumbers
  <2> HIDE DEF n
  <2>2. QED BY <2>1
<1>5. q \in Seq(Int) /\ DOMAIN q = DOMAIN es
  <2> HIDE DEF n
  <2>1. QED BY <1>3, <1>4, Weights
<1>6. x \in Seq(Int) /\ DOMAIN x = DOMAIN byName /\ \A g \in DOMAIN byName : x[g] = w[byName[g]]
  <2> HIDE DEF w
  <2>1. QED BY <1>2, <1>3, Weights
<1>7. Groups(byName, c) /\ DOMAIN c = DOMAIN q
  <2>1. \A k \in DOMAIN es : \E g \in DOMAIN byName : byName[g] = Author(es[k]) BY DEF NamesOK, Range
  <2>2. \A g, h \in DOMAIN byName : byName[g] = byName[h] => g = h BY DEF NamesOK, IsInjective
  <2> HIDE DEF q
  <2>3. QED BY <1>3, <1>5, <2>1, <2>2 DEF Groups
<1>8. \A g \in DOMAIN byName : x[g] = SumIn(q, {k \in DOMAIN q : c[k] = byName[g]})
  <2>1. TAKE g \in DOMAIN byName
  <2> DEFINE a == byName[g]
  <2>2. a \in Range(byName) BY DEF Range
  <2>3. {k \in DOMAIN q : c[k] = a} = {k \in DOMAIN es : Author(es[k]) = a} BY <1>5
  <2> HIDE DEF a, c, w, x, n
  <2>4. Sums(n, Of(es, a)) = SumIn(Weigh(n, es), {k \in DOMAIN es : Author(es[k]) = a}) BY <1>4, AuthorSums
  <2> HIDE DEF q
  <2>5. x[g] = w[a] BY <1>6 DEF a
  <2>6. x[g] = SumIn(q, {k \in DOMAIN es : Author(es[k]) = a}) BY <1>1, <2>2, <2>4, <2>5 DEF q
  <2>7. QED BY <2>3, <2>6 DEF a
<1> HIDE DEF w, n, q, c, x
<1>9. SumOf(x) = SumOf(q)
  <2>1. DOMAIN c = DOMAIN q /\ Groups(byName, c) BY <1>7
  <2>2. x \in Seq(Int) /\ DOMAIN x = DOMAIN byName /\ q \in Seq(Int) BY <1>5, <1>6
  <2>3. QED BY ONLY <2>1, <2>2, <1>8, SumOfGroups
<1>10. Sums(w, byName) = Sums(n, es) BY <1>9 DEF Sums, x, q
<1>11. Total(es, LAMBDA e : Len(e.calls)) = Sums(n, es) BY <1>3, EventNumbers DEF n
<1>12. QED BY <1>2, <1>10, <1>11 DEF w

LEMMA AuthorsHaveKeys ==
  ASSUME NEW es, AreEvents(es)
  PROVE  /\ Authors(es) \in Seq(Range(Authors(es)))
         /\ \A k \in DOMAIN es : \E g \in DOMAIN Authors(es) : Authors(es)[g] = Author(es[k])
         /\ \A g \in DOMAIN Authors(es) : \E k \in DOMAIN es : Authors(es)[g] = Author(es[k])
<1> DEFINE c == [k \in DOMAIN es |-> Author(es[k])]
<1>1. /\ DOMAIN c = DOMAIN es /\ Authors(es) \in Seq(Range(Authors(es)))
      /\ Groups(Authors(es), c)
      /\ \A g \in DOMAIN Authors(es) : \E k \in DOMAIN es : Authors(es)[g] = c[k]
  BY AuthorsAreKeys
<1>2. \A k \in DOMAIN es : c[k] = Author(es[k]) OBVIOUS
<1> HIDE DEF c
<1>3. QED BY <1>1, <1>2 DEF Groups

\* Who is not in the transcript has called nothing.
LEMMA CallsAreSpoken ==
  ASSUME NEW es, AreEvents(es), NEW byName, NamesOK(es, byName)
  PROVE  LET D == Speaking(es, byName)
         IN  Sums(CallsUnder(es, byName), Arranged(byName, D, InPlace(D))) = Sums(CallsUnder(es, byName), byName)
<1> DEFINE w == CallsUnder(es, byName)
           D == Speaking(es, byName)
           S == Range(byName)
<1>1. w \in [S -> Int] BY CallsByName
<1>2. byName \in Seq(S) /\ D \in SUBSET (DOMAIN byName) BY DEF NamesOK, IsList, Speaking
<1>3. \A k \in DOMAIN byName : k \notin D => w[byName[k]] = 0
  <2>1. TAKE k \in DOMAIN byName
  <2>2. HAVE k \notin D
  <2> DEFINE a == byName[k]
  <2>3. a \in S BY DEF Range
  <2>4. w[a] = Len(ToolCalls(es, a)) BY <2>3 DEF CallsUnder
  <2>5. CASE ToolCalls(es, a) = <<>>
    <3> HIDE DEF a, w
    <3>1. w[a] = 0 BY <2>4, <2>5, CallsOfAuthor
    <3>2. QED BY <3>1 DEF a
  <2>6. CASE ~Contains(Authors(es), a)
    <3> DEFINE K == Authors(es)
               n == CallsMade(es)
               q == Weigh(n, es)
    <3>1. K \in Seq(Range(K)) /\ \A j \in DOMAIN es : \E g \in DOMAIN K : K[g] = Author(es[j]) BY AuthorsHaveKeys
    <3>2. \A j \in DOMAIN es : Author(es[j]) # a
      <4> HIDE DEF K, a
      <4>1. DOMAIN K = 1 .. Len(K) BY <3>1
      <4>2. \A g \in DOMAIN K : K[g] # a BY <2>6, <4>1 DEF Contains, K
      <4>3. QED BY <3>1, <4>2
    <3>3. {j \in DOMAIN es : Author(es[j]) = a} = {} BY <3>2
    <3>4. n \in [Range(es) -> Nat] BY EventNumbers
    <3>5. n \in [Range(es) -> Int] /\ es \in Seq(Range(es))
      <4> HIDE DEF n
      <4>1. QED BY <3>4 DEF AreEvents, IsList
    <3> HIDE DEF n, a
    <3>6. Sums(n, Of(es, a)) = SumIn(q, {j \in DOMAIN es : Author(es[j]) = a}) BY <3>4, AuthorSums
    <3>7. q \in Seq(Int) BY <3>5, Weights
    <3> HIDE DEF q
    <3>8. SumIn(q, {}) = 0 BY <3>7, OverPlaces
    <3>9. Len(ToolCalls(es, a)) = Sums(n, Of(es, a)) BY CallsOfAuthor DEF n
    <3>10. w[a] = 0 BY <2>4, <3>3, <3>6, <3>8, <3>9
    <3>11. QED BY <3>10 DEF a
  <2>7. QED BY <2>2, <2>5, <2>6 DEF Speaking, Speaks
<1> HIDE DEF w, D, S
<1>4. Chooses(w, w, byName, D, S) BY <1>1, <1>2, <1>3 DEF Chooses
<1>5. Sums(w, Arranged(byName, D, InPlace(D))) = Sums(w, byName) BY <1>4, SumsChosen
<1>6. QED BY <1>5 DEF w, D

LEMMA SaidIsClean ==
  ASSUME NEW es, AreEvents(es), NEW a
  PROVE  Unsplit(Redact(Said(es, a)))
<1> DEFINE mine == Of(es, a)
           texts == [k \in DOMAIN mine |-> mine[k].text]
           D == {k \in DOMAIN texts : texts[k] # ""}
<1>1. mine \in Seq(Range(es)) BY EventsOfAuthor
<1> HIDE DEF mine
<1>2. texts \in Seq(Range(texts)) /\ D \in SUBSET (DOMAIN texts)
  <2>1. DOMAIN mine = 1 .. Len(mine) /\ Len(mine) \in Nat BY <1>1
  <2>2. texts = [k \in 1 .. Len(mine) |-> texts[k]] /\ DOMAIN texts = 1 .. Len(mine) BY <2>1
  <2>3. D \in SUBSET (DOMAIN texts) OBVIOUS
  <2> HIDE DEF texts
  <2>4. \A k \in 1 .. Len(mine) : texts[k] \in Range(texts) BY <2>2 DEF Range
  <2>5. texts \in Seq(Range(texts)) BY <2>1, <2>2, <2>4, ListOf
  <2>6. QED BY <2>3, <2>5
<1>3. Said(es, a) = Arranged(texts, D, InPlace(D)) BY DEF Said, Kept, mine
<1> HIDE DEF texts, D
<1>4. Arranged(texts, D, InPlace(D)) \in Seq(Range(texts)) BY <1>2, ArrangedInPlace
<1>5. QED BY <1>3, <1>4, RedactLeavesClean

LEMMA TranscriptParts ==
  ASSUME NEW asked, NEW es, NEW byName
  PROVE  LET D     == Speaking(es, byName)
             order == Arranged(byName, D, InPlace(D))
         IN  Transcript(asked, es, byName) =
               (IF asked = <<>> THEN <<>> ELSE <<[author |-> "user", text |-> Redact(asked), calls |-> <<>>]>>)
                 \o [k \in DOMAIN order |-> Message(es, order[k])]
BY DEF Transcript, Kept, Speaking, Speaks

\* What the parts of a transcript hold.
LEMMA FieldsOfMessages ==
  ASSUME NEW es, NEW a, NEW asked
  PROVE  /\ Message(es, a).author = a /\ Message(es, a).text = Redact(Said(es, a))
         /\ Message(es, a).calls = ToolCalls(es, a)
         /\ [author |-> "user", text |-> Redact(asked), calls |-> <<>>].calls = <<>>
         /\ [author |-> "user", text |-> Redact(asked), calls |-> <<>>].text = Redact(asked)
BY DEF Message

\* What was asked, and one message of each name in the order.
Talk(ms, asked, es, order) ==
  /\ DOMAIN ms = 1 .. Len(ms) /\ Len(ms) \in Nat
  /\ \A k \in DOMAIN ms : \/ ms[k].text = Redact(asked) /\ ms[k].calls = <<>>
                          \/ \E g \in DOMAIN order : ms[k] = Message(es, order[g])
  /\ \A g \in DOMAIN order : \E k \in DOMAIN ms : ms[k] = Message(es, order[g])
  /\ Total(ms, LAMBDA m : Len(m.calls)) = SumOf([g \in DOMAIN order |-> Len(ToolCalls(es, order[g]))])

LEMMA MessagesOfTranscript ==
  ASSUME NEW asked, NEW es, AreEvents(es), NEW S, NEW order \in Seq(S), NEW pre,
         pre = IF asked = <<>> THEN <<>> ELSE <<[author |-> "user", text |-> Redact(asked), calls |-> <<>>]>>
  PROVE  Talk(pre \o [k \in DOMAIN order |-> Message(es, order[k])], asked, es, order)
<1> DEFINE u == [author |-> "user", text |-> Redact(asked), calls |-> <<>>]
           Q == {Message(es, a) : a \in S} \cup {u}
           body == [k \in DOMAIN order |-> Message(es, order[k])]
           v == [m \in Q |-> Len(m.calls)]
           ms == pre \o body
           x == [g \in DOMAIN order |-> Len(ToolCalls(es, order[g]))]
<1>1. u.calls = <<>> /\ u.text = Redact(asked) /\ u \in Q /\ Len(u.calls) = 0 OBVIOUS
<1>2. \A a \in S : Message(es, a) \in Q /\ Message(es, a).calls = ToolCalls(es, a) BY DEF Message
<1>3. \A m \in Q : m = u \/ \E a \in S : m = Message(es, a) OBVIOUS
<1>4. \A m \in Q : v[m] = Len(m.calls) OBVIOUS
<1>5. \A m \in Q : v[m] \in Int
  <2>1. TAKE m \in Q
  <2>2. CASE m = u BY <1>1, <1>4, <2>2
  <2>3. ASSUME NEW a \in S, m = Message(es, a) PROVE v[m] \in Int BY <1>2, <1>4, <2>3, CallsOfAuthor
  <2>4. QED BY <1>3, <2>2, <2>3
<1>6. v = [m \in Q |-> v[m]] BY <1>4
<1>7. DOMAIN order = 1 .. Len(order) /\ Len(order) \in Nat /\ \A k \in DOMAIN order : order[k] \in S OBVIOUS
<1>8. DOMAIN body = DOMAIN order /\ (\A k \in DOMAIN body : body[k] = Message(es, order[k])) OBVIOUS
<1>9. pre = <<>> \/ pre = <<u>> OBVIOUS
<1>10. ms = pre \o body /\ x = [g \in DOMAIN order |-> Len(ToolCalls(es, order[g]))] OBVIOUS
<1>11. body \in Seq(Q) /\ Len(body) = Len(order)
  <2>1. body = [k \in 1 .. Len(order) |-> body[k]] /\ \A k \in 1 .. Len(order) : body[k] \in Q
    <3>1. body = [k \in 1 .. Len(order) |-> body[k]] BY <1>7, <1>8
    <3> HIDE DEF body, Q
    <3>2. QED BY <1>2, <1>7, <1>8, <3>1
  <2> HIDE DEF body, Q
  <2>2. QED BY <1>7, <1>8, <2>1, ListOf
<1> HIDE DEF u, Q, body, v, ms, x
<1>12. v \in [Q -> Int] BY <1>5, <1>6
<1>13. pre \in Seq(Q) BY <1>1, <1>9
<1>14. ms \in Seq(Q) /\ Len(ms) = Len(pre) + Len(body) /\ DOMAIN ms = 1 .. Len(ms) /\ Len(ms) \in Nat
  BY <1>10, <1>11, <1>13
<1>15. \A k \in 1 .. Len(ms) : ms[k] = IF k <= Len(pre) THEN pre[k] ELSE body[k - Len(pre)] BY <1>10, <1>11, <1>13
<1>16. Sums(v, pre) = 0
  <2>1. CASE pre = <<>> BY <1>12, <2>1, SumsOfFew
  <2>2. CASE pre = <<u>>
    <3>1. Sums(v, <<u>>) = v[u] BY <1>1, <1>12, SumsOfFew
    <3>2. v[u] = 0 BY <1>1, <1>4
    <3>3. QED BY <2>2, <3>1, <3>2
  <2>3. QED BY <1>9, <2>1, <2>2
<1>17. Sums(v, body) = SumOf(x)
  <2>1. \A k \in DOMAIN order : v[body[k]] = Len(ToolCalls(es, order[k])) BY <1>2, <1>4, <1>7, <1>8
  <2>2. Weigh(v, body) = x BY <1>8, <1>10, <2>1 DEF Weigh
  <2>3. QED BY <2>2 DEF Sums
<1>18. Sums(v, ms) = SumOf(x)
  <2>1. Sums(v, ms) = Sums(v, pre) + Sums(v, body) BY <1>10, <1>11, <1>12, <1>13, SumsJoined
  <2>2. Weigh(v, body) \in Seq(Int) BY <1>11, <1>12, Weights
  <2>3. Sums(v, body) \in Int BY <2>2, OverPlaces DEF Sums
  <2>4. QED BY <1>16, <1>17, <2>1, <2>3
<1>19. Total(ms, LAMBDA m : Len(m.calls)) = Sums(v, ms)
  <2>1. \A k \in DOMAIN ms : v[ms[k]] = Len(ms[k].calls) BY <1>4, <1>14
  <2>2. Weigh(v, ms) = [k \in DOMAIN ms |-> Len(ms[k].calls)] BY <2>1 DEF Weigh
  <2>3. QED BY <2>2 DEF Sums, Total
<1>20. \A k \in DOMAIN ms : \/ ms[k].text = Redact(asked) /\ ms[k].calls = <<>>
                            \/ \E g \in DOMAIN order : ms[k] = Message(es, order[g])
  <2>1. TAKE k \in DOMAIN ms
  <2>2. CASE k <= Len(pre)
    <3>1. pre = <<u>> /\ k = 1 BY <1>9, <1>14, <2>2
    <3>2. ms[k] = u BY <1>14, <1>15, <2>2, <3>1
    <3>3. QED BY <1>1, <3>2
  <2>3. CASE ~(k <= Len(pre))
    <3>1. ms[k] = body[k - Len(pre)] /\ k - Len(pre) \in 1 .. Len(body) BY <1>13, <1>14, <1>15, <2>3
    <3>2. k - Len(pre) \in DOMAIN order BY <1>7, <1>11, <3>1
    <3>3. QED BY <1>8, <3>1, <3>2
  <2>4. QED BY <2>2, <2>3
<1>21. \A g \in DOMAIN order : \E k \in DOMAIN ms : ms[k] = Message(es, order[g])
  <2>1. TAKE g \in DOMAIN order
  <2> DEFINE n == Len(pre)
  <2>5. n \in Nat /\ g \in 1 .. Len(order) /\ Len(order) \in Nat /\ Len(ms) = n + Len(order)
    BY <1>7, <1>11, <1>13, <1>14
  <2> HIDE DEF n
  <2>6. n + g \in 1 .. Len(ms) /\ ~(n + g <= n) /\ (n + g) - n = g BY <2>5
  <2>2. Len(pre) + g \in DOMAIN ms /\ ~(Len(pre) + g <= Len(pre)) /\ (Len(pre) + g) - Len(pre) = g
    BY <1>14, <2>6 DEF n
  <2>3. ms[Len(pre) + g] = body[g] BY <1>14, <1>15, <2>2
  <2>4. QED BY <1>8, <2>2, <2>3
<1>22. Talk(ms, asked, es, order)
  <2>1. Total(ms, LAMBDA m : Len(m.calls)) = SumOf(x) BY <1>18, <1>19
  <2>2. Total(ms, LAMBDA m : Len(m.calls)) = SumOf([g \in DOMAIN order |-> Len(ToolCalls(es, order[g]))])
    BY <1>10, <2>1
  <2>3. QED BY <1>14, <1>20, <1>21, <2>2 DEF Talk, Total
<1>23. QED BY <1>22 DEF ms, body

LEMMA WhoSpeaks ==
  ASSUME NEW es, AreEvents(es), NEW byName, NamesOK(es, byName), NEW order,
         order = Arranged(byName, Speaking(es, byName), InPlace(Speaking(es, byName)))
  PROVE  /\ order \in Seq(Range(byName))
         /\ \A a \in ToSet(Authors(es)) : Said(es, a) # <<>> => \E g \in DOMAIN order : order[g] = a
<1> DEFINE D == Speaking(es, byName)
<1>1. byName \in Seq(Range(byName)) /\ D \in SUBSET (DOMAIN byName) BY DEF NamesOK, IsList, Speaking
<1>3. \A k \in DOMAIN byName : Contains(Authors(es), byName[k]) /\ Speaks(es, byName[k]) => k \in D BY DEF Speaking
<1> HIDE DEF D
<1>4. /\ order \in Seq(Range(byName))
      /\ \A a \in D : \E k \in DOMAIN order : order[k] = byName[a]
  BY <1>1, ArrangedMembers DEF D
<1>5. ASSUME NEW a \in ToSet(Authors(es)), Said(es, a) # <<>> PROVE \E g \in DOMAIN order : order[g] = a
  <2> DEFINE K == Authors(es)
  <2>1. K \in Seq(Range(K)) /\ (\A g \in DOMAIN K : \E k \in DOMAIN es : K[g] = Author(es[k])) BY AuthorsHaveKeys
  <2>2. PICK g \in DOMAIN K : K[g] = a BY DEF ToSet
  <2>3. PICK k \in DOMAIN es : a = Author(es[k]) BY <2>1, <2>2
  <2>4. PICK j \in DOMAIN byName : byName[j] = a BY <2>3 DEF NamesOK, Range
  <2>5. Contains(K, a)
    <3> HIDE DEF K
    <3>1. DOMAIN K = 1 .. Len(K) BY <2>1
    <3>2. QED BY <2>2, <3>1 DEF Contains
  <2>6. Speaks(es, byName[j]) BY <1>5, <2>4 DEF Speaks
  <2>7. j \in D BY <1>3, <2>4, <2>5, <2>6
  <2>8. QED BY <1>4, <2>4, <2>7
<1>6. QED BY <1>4, <1>5

LEMMA TranscriptAlwaysRedacted ==
  ASSUME NEW asked, IsList(asked), NEW es, AreEvents(es), NEW byName, NamesOK(es, byName)
  PROVE  TranscriptIsRedacted(asked, es, byName)
<1> DEFINE D == Speaking(es, byName)
           order == Arranged(byName, D, InPlace(D))
           pre == IF asked = <<>> THEN <<>> ELSE <<[author |-> "user", text |-> Redact(asked), calls |-> <<>>]>>
           body == [k \in DOMAIN order |-> Message(es, order[k])]
           ms == Transcript(asked, es, byName)
           S == Range(byName)
           w == CallsUnder(es, byName)
<1>1. ms = pre \o body BY TranscriptParts
<1>2. /\ order \in Seq(S)
      /\ \A a \in ToSet(Authors(es)) : Said(es, a) # <<>> => \E g \in DOMAIN order : order[g] = a
  BY WhoSpeaks
<1>3. /\ w \in [S -> Int]
      /\ Sums(w, byName) = Total(es, LAMBDA e : Len(e.calls))
  BY CallsByName
<1>4. Sums(w, order) = Sums(w, byName) BY CallsAreSpoken
<1>5. \A a \in S : w[a] = Len(ToolCalls(es, a)) BY DEF CallsUnder
<1> HIDE DEF D, S, w, order
<1>6. Talk(ms, asked, es, order)
  <2>1. pre = IF asked = <<>> THEN <<>> ELSE <<[author |-> "user", text |-> Redact(asked), calls |-> <<>>]>> OBVIOUS
  <2> HIDE DEF pre, ms
  <2>2. Talk(pre \o body, asked, es, order) BY <1>2, <2>1, MessagesOfTranscript
  <2>3. QED BY <1>1, <2>2
<1> HIDE DEF pre, body, ms
<1>7. Unsplit(Redact(asked))
  <2>1. asked \in Seq(Range(asked)) BY DEF IsList
  <2>2. QED BY <2>1, RedactLeavesClean
<1>8. \A k \in DOMAIN ms : Unsplit(ms[k].text)
  <2>1. TAKE k \in DOMAIN ms
  <2>2. CASE ms[k].text = Redact(asked) BY <1>7, <2>2
  <2>3. ASSUME NEW g \in DOMAIN order, ms[k] = Message(es, order[g]) PROVE Unsplit(ms[k].text)
    <3>1. ms[k].text = Redact(Said(es, order[g])) BY <2>3, FieldsOfMessages
    <3>2. QED BY <3>1, SaidIsClean
  <2>4. QED BY <1>6, <2>2, <2>3 DEF Talk
<1>9. \A k \in DOMAIN ms : \A j \in 1 .. Len(ms[k].text) - 1 :
        ~(ms[k].text[j] = "first" /\ ms[k].text[j + 1] = "second")
  BY <1>8 DEF Unsplit
<1>10. Weigh(w, order) = [g \in DOMAIN order |-> Len(ToolCalls(es, order[g]))]
  <2>1. \A g \in DOMAIN order : order[g] \in S BY <1>2
  <2>2. QED BY <1>5, <2>1 DEF Weigh
<1>11. Total(ms, LAMBDA m : Len(m.calls)) = Total(es, LAMBDA e : Len(e.calls))
  <2>1. Total(ms, LAMBDA m : Len(m.calls)) = SumOf(Weigh(w, order)) BY <1>6, <1>10 DEF Talk, Total
  <2>2. SumOf(Weigh(w, order)) = Sums(w, order) BY DEF Sums
  <2>3. QED BY <1>3, <1>4, <2>1, <2>2 DEF Total
<1>12. \A a \in ToSet(Authors(es)) : Said(es, a) # <<>> => \E k \in DOMAIN ms : ms[k].author = a
  <2>1. TAKE a \in ToSet(Authors(es))
  <2>2. HAVE Said(es, a) # <<>>
  <2>3. PICK g \in DOMAIN order : order[g] = a BY <1>2, <2>2
  <2>4. PICK k \in DOMAIN ms : ms[k] = Message(es, order[g]) BY <1>6 DEF Talk
  <2>5. ms[k].author = a BY <2>3, <2>4, FieldsOfMessages
  <2>6. QED BY <2>5
<1>13. QED BY <1>9, <1>11, <1>12 DEF TranscriptIsRedacted, ms, Total

-----------------------------------------------------------------------------
(* Usage: the page.                                                        *)

\* The places of one kind.
KindAt(s, kind) == {k \in DOMAIN s : s[k].kind = kind}

LEMMA KindsKept ==
  ASSUME NEW S, NEW s \in Seq(S), NEW kind
  PROVE  /\ OfKind(s, kind) = Arranged(s, KindAt(s, kind), InPlace(KindAt(s, kind)))
         /\ OfKind(s, kind) \in Seq(S)
         /\ \E f : Takes(f, OfKind(s, kind), s, KindAt(s, kind))
<1> DEFINE D == KindAt(s, kind)
<1>1. OfKind(s, kind) = Arranged(s, D, InPlace(D)) BY DEF OfKind, Kept, KindAt
<1>2. D \in SUBSET (DOMAIN s) BY DEF KindAt
<1> HIDE DEF D
<1>3. Arranged(s, D, InPlace(D)) \in Seq(S) /\ \E f : Takes(f, Arranged(s, D, InPlace(D)), s, D)
  BY <1>2, ArrangedInPlace
<1>4. OfKind(s, kind) \in Seq(S) /\ \E f : Takes(f, OfKind(s, kind), s, D) BY <1>1, <1>3
<1>5. QED BY <1>1, <1>4 DEF D

\* Keeping one kind goes part by part.
LEMMA KindsJoined ==
  ASSUME NEW S, NEW s \in Seq(S), NEW t \in Seq(S), NEW kind
  PROVE  OfKind(s \o t, kind) = OfKind(s, kind) \o OfKind(t, kind)
<1> DEFINE D == KindAt(s, kind)
           E == KindAt(t, kind)
           u == s \o t
           F == KindAt(u, kind)
           G == D \cup {Len(s) + e : e \in E}
<1>1. OfKind(s, kind) \in Seq(S) /\ \E f : Takes(f, OfKind(s, kind), s, D) BY KindsKept
<1>2. OfKind(t, kind) \in Seq(S) /\ \E f : Takes(f, OfKind(t, kind), t, E) BY KindsKept
<1>3. u \in Seq(S) OBVIOUS
<1>4. OfKind(u, kind) \in Seq(S) /\ \E f : Takes(f, OfKind(u, kind), u, F)
  <2> HIDE DEF u
  <2>1. QED BY <1>3, KindsKept
<1>5. /\ DOMAIN s = 1 .. Len(s) /\ DOMAIN t = 1 .. Len(t) /\ DOMAIN u = 1 .. Len(s) + Len(t)
      /\ Len(s) \in Nat /\ Len(t) \in Nat
      /\ \A k \in 1 .. Len(s) + Len(t) : u[k] = IF k <= Len(s) THEN s[k] ELSE t[k - Len(s)]
  OBVIOUS
<1>6. F = G
  <2>1. ASSUME NEW k \in F PROVE k \in G
    <3>1. k \in 1 .. Len(s) + Len(t) /\ u[k].kind = kind BY <1>5 DEF KindAt
    <3>2. CASE k <= Len(s)
      <4>1. u[k] = s[k] /\ k \in 1 .. Len(s) BY <1>5, <3>1, <3>2
      <4>2. k \in D BY <1>5, <3>1, <4>1 DEF KindAt
      <4>3. QED BY <4>2
    <3>3. CASE ~(k <= Len(s))
      <4>1. u[k] = t[k - Len(s)] /\ k - Len(s) \in 1 .. Len(t) /\ k = Len(s) + (k - Len(s)) BY <1>5, <3>1, <3>3
      <4>2. k - Len(s) \in E BY <1>5, <3>1, <4>1 DEF KindAt
      <4>3. QED BY <4>1, <4>2
    <3>4. QED BY <3>2, <3>3
  <2>2. ASSUME NEW k \in D PROVE k \in F
    <3>1. k \in 1 .. Len(s) + Len(t) /\ k <= Len(s) BY <1>5 DEF KindAt
    <3>2. u[k] = s[k] BY <1>5, <3>1
    <3>3. QED BY <1>5, <3>1, <3>2 DEF KindAt
  <2>3. ASSUME NEW e \in E PROVE Len(s) + e \in F
    <3> DEFINE k == Len(s) + e
    <3>1. k \in 1 .. Len(s) + Len(t) /\ ~(k <= Len(s)) /\ k - Len(s) = e BY <1>5 DEF KindAt
    <3> HIDE DEF k
    <3>2. u[k] = t[e] BY <1>5, <3>1
    <3>3. k \in F BY <1>5, <3>1, <3>2 DEF KindAt
    <3>4. QED BY <3>3 DEF k
  <2>4. QED BY <2>1, <2>2, <2>3
<1>7. D \in SUBSET (DOMAIN s) /\ E \in SUBSET (DOMAIN t) BY DEF KindAt
<1>8. G \in SUBSET Int BY <1>5 DEF KindAt
<1> HIDE DEF D, E, F
<1> DEFINE q == OfKind(s, kind)
           r == OfKind(t, kind)
<1>9. PICK f : Takes(f, q, s, D) BY <1>1
<1>10. PICK g : Takes(g, r, t, E) BY <1>2
<1>11. q \in Seq(S) /\ r \in Seq(S) /\ q \o r \in Seq(S) BY <1>1, <1>2
<1> HIDE DEF q, r
<1>12. PICK h : Takes(h, q \o r, s \o t, G) BY <1>7, <1>9, <1>10, <1>11, TakesBoth
<1>13. PICK e : Takes(e, OfKind(u, kind), u, G) BY <1>4, <1>6
<1> HIDE DEF G
<1>14. OfKind(u, kind) = q \o r BY <1>4, <1>8, <1>11, <1>12, <1>13, TakesOnce DEF u
<1>15. QED BY <1>14 DEF q, r, u

\* A list is its first members and the others.
LEMMA CutAndRest ==
  ASSUME NEW S, NEW s \in Seq(S), NEW n \in Nat
  PROVE  \E t \in Seq(S) : s = Cut(s, n) \o t
<1> DEFINE m == Len(Cut(s, n))
           c == Cut(s, n)
           t == SubSeq(s, m + 1, Len(s))
<1>1. /\ c \in Seq(S) /\ m = (IF n <= Len(s) THEN n ELSE Len(s))
      /\ \A k \in 1 .. m : k \in 1 .. Len(s) /\ c[k] = s[k]
  BY CutTakes
<1> HIDE DEF c
<1>2. m \in Nat /\ m <= Len(s) /\ Len(s) \in Nat /\ m = Len(c) BY <1>1 DEF c
<1> HIDE DEF m
<1>3. t \in Seq(S) /\ Len(t) = Len(s) - m /\ \A k \in 1 .. Len(s) - m : t[k] = s[m + k]
  <2>1. \A k \in 1 .. Len(s) : s[k] \in S OBVIOUS
  <2>2. t = [k \in 1 .. Len(s) - m |-> s[m + k]] BY <1>2
  <2>3. \A k \in 1 .. Len(s) - m : m + k \in 1 .. Len(s) BY <1>2
  <2> HIDE DEF t
  <2>4. Len(s) - m \in Nat BY <1>2
  <2>5. DOMAIN t = 1 .. Len(s) - m /\ \A k \in 1 .. Len(s) - m : t[k] = s[m + k] /\ t[k] \in S BY <2>1, <2>2, <2>3
  <2>6. t = [k \in 1 .. Len(s) - m |-> t[k]] BY <2>2, <2>5
  <2>7. QED BY <2>4, <2>5, <2>6, ListOf
<1> HIDE DEF t
<1>4. c \o t \in Seq(S) /\ Len(c \o t) = Len(s) BY <1>1, <1>2, <1>3
<1>5. \A k \in 1 .. Len(s) : (c \o t)[k] = s[k]
  <2>1. TAKE k \in 1 .. Len(s)
  <2>2. CASE k <= m
    <3>1. k \in 1 .. m BY <1>2, <2>2
    <3>2. (c \o t)[k] = c[k] BY <1>1, <1>2, <1>3, <3>1
    <3>3. QED BY <1>1, <3>1, <3>2
  <2>3. CASE ~(k <= m)
    <3>1. k - m \in 1 .. Len(s) - m /\ m + (k - m) = k BY <1>2, <2>3
    <3>2. (c \o t)[k] = t[k - m] BY <1>1, <1>2, <1>3, <2>3
    <3>3. QED BY <1>3, <3>1, <3>2
  <2>4. QED BY <2>2, <2>3
<1>6. s = c \o t
  <2> DEFINE u == c \o t
  <2>1. u \in Seq(S) /\ Len(u) = Len(s) /\ \A k \in 1 .. Len(s) : u[k] = s[k] BY <1>4, <1>5
  <2> HIDE DEF u
  <2>2. u = s BY <2>1
  <2>3. QED BY <2>2 DEF u
<1>7. QED BY <1>3, <1>6 DEF c

LEMMA PrefixOf ==
  ASSUME NEW S, NEW s \in Seq(S), NEW t \in Seq(S), Len(s) <= Len(t), \A k \in 1 .. Len(s) : s[k] = t[k]
  PROVE  IsPrefix(s, t)
BY DEF IsPrefix

LEMMA RecentAlwaysNewest ==
  ASSUME NEW records, IsList(records), NEW kind, NEW limit \in Nat
  PROVE  RecentIsNewest(records, kind, limit)
<1> DEFINE S == Range(records)
           n == limit * OverFetch
           c == Cut(records, n)
           kc == OfKind(c, kind)
           got == Cut(kc, limit)
           all == OfKind(records, kind)
<1>1. n \in Nat /\ records \in Seq(S) BY DEF IsList, OverFetch
<1> HIDE DEF S, n
<1>2. PICK t \in Seq(S) : records = c \o t BY <1>1, CutAndRest
<1>3. c \in Seq(S) /\ (Len(records) <= n => c = records) BY <1>1, CutTakes
<1> HIDE DEF c
<1>4. all = kc \o OfKind(t, kind) BY <1>2, <1>3, KindsJoined
<1>5. kc \in Seq(S) /\ OfKind(t, kind) \in Seq(S) /\ all \in Seq(S) BY <1>1, <1>2, <1>3, KindsKept
<1>6. Len(records) <= n => all = kc BY <1>3
<1>7. got = Cut(kc, limit) OBVIOUS
<1> HIDE DEF kc, all, got
<1>8. /\ got \in Seq(S) /\ Len(got) = (IF limit <= Len(kc) THEN limit ELSE Len(kc))
      /\ \A k \in 1 .. Len(got) : k \in 1 .. Len(kc) /\ got[k] = kc[k]
  BY <1>5, <1>7, CutTakes
<1>9. Len(kc) <= Len(all) /\ \A k \in 1 .. Len(kc) : all[k] = kc[k] BY <1>4, <1>5
<1>10. Len(kc) \in Nat /\ Len(all) \in Nat /\ Len(got) \in Nat BY <1>5, <1>8
<1>11. Len(got) <= Len(all) /\ \A k \in 1 .. Len(got) : got[k] = all[k] BY <1>8, <1>9, <1>10
<1>12. IsPrefix(got, all) BY <1>5, <1>8, <1>11, PrefixOf
<1>13. Len(got) < Min({limit, Len(all)}) => Len(records) > n
  <2>1. Min({limit, Len(all)}) = IF limit <= Len(all) THEN limit ELSE Len(all) BY <1>10, MinOfTwo
  <2>2. Len(records) \in Nat BY <1>1
  <2>3. QED BY <1>1, <1>6, <1>8, <1>10, <2>1, <2>2
<1>14. QED BY <1>12, <1>13 DEF RecentIsNewest, Recent, got, kc, c, n, all

\* Rows sorted by their counts are the same rows.
LEMMA RowsSorted ==
  ASSUME NEW R, NEW rows \in Seq(R), \A k \in DOMAIN rows : rows[k].count \in Int, NEW w \in [R -> Int]
  PROVE  LET r == Sorted(rows, LAMBDA x, y : x.count > y.count)
         IN  r \in Seq(R) /\ Len(r) = Len(rows) /\ Sums(w, r) = Sums(w, rows)
<1> DEFINE D == DOMAIN rows
           P == {p \in D \X D : rows[p[1]].count > rows[p[2]].count
                                \/ (~(rows[p[2]].count > rows[p[1]].count) /\ p[1] <= p[2])}
           u == [k \in D |-> rows[k].count]
           z == [k \in D |-> 0]
           Q == ByKeys(D, u, z)
           r == Arranged(rows, D, Q)
<1>1. u \in [D -> Int] /\ z \in [D -> Int] /\ \A k \in D : u[k] = rows[k].count /\ z[k] = 0 /\ k \in Int /\ u[k] \in Int
  OBVIOUS
<1>2. Sorted(rows, LAMBDA x, y : x.count > y.count) = Arranged(rows, D, P) BY DEF Sorted
<1>3. P \subseteq D \X D /\ Q \subseteq D \X D BY DEF ByKeys
<1>4. ASSUME NEW p \in D \X D PROVE p \in P <=> p \in Q
  <2>1. p[1] \in D /\ p[2] \in D OBVIOUS
  <2>2. p \in P <=> u[p[1]] > u[p[2]] \/ (~(u[p[2]] > u[p[1]]) /\ p[1] <= p[2]) BY <1>1, <2>1
  <2>3. p \in Q <=> \/ u[p[1]] > u[p[2]]
                    \/ u[p[1]] = u[p[2]] /\ z[p[1]] > z[p[2]]
                    \/ u[p[1]] = u[p[2]] /\ z[p[1]] = z[p[2]] /\ p[1] <= p[2]
    BY DEF ByKeys
  <2>4. u[p[1]] \in Int /\ u[p[2]] \in Int /\ p[1] \in Int /\ p[2] \in Int /\ z[p[1]] = 0 /\ z[p[2]] = 0 BY <1>1, <2>1
  <2> HIDE DEF P, Q, u, z, D
  <2>5. QED BY <2>2, <2>3, <2>4
<1> HIDE DEF P, u, z
<1>5. P = Q
  <2> HIDE DEF Q
  <2>1. QED BY <1>3, <1>4
<1>6. r \in Seq(R) /\ \E f : SortsBy(f, r, rows, u, z) BY <1>1, SortedByKeys
<1> HIDE DEF Q, r
<1>7. PICK f : SortsBy(f, r, rows, u, z) BY <1>6
<1>9. /\ f \in [1 .. Len(rows) -> 1 .. Len(rows)] /\ Len(r) = Len(rows)
      /\ \A a \in 1 .. Len(rows) : \E k \in 1 .. Len(rows) : f[k] = a
      /\ \A k \in 1 .. Len(rows) : r[k] = rows[f[k]]
      /\ \A j, k \in 1 .. Len(rows) : j < k => f[j] # f[k]
  BY <1>7 DEF SortsBy
<1> DEFINE p == Weigh(w, r)
           q == Weigh(w, rows)
<1>10. p \in Seq(Int) /\ DOMAIN p = DOMAIN r /\ \A k \in DOMAIN r : p[k] = w[r[k]] BY <1>6, Weights
<1>11. q \in Seq(Int) /\ DOMAIN q = DOMAIN rows /\ \A k \in DOMAIN rows : q[k] = w[rows[k]] BY Weights
<1>12. DOMAIN r = 1 .. Len(rows) BY <1>6, <1>9
<1> HIDE DEF p, q, D
<1>13. DOMAIN p = 1 .. Len(rows) /\ DOMAIN q = 1 .. Len(rows) BY <1>10, <1>11, <1>12
<1>14. \A k \in 1 .. Len(rows) : q[f[k]] = p[k]
  <2>1. TAKE k \in 1 .. Len(rows)
  <2>2. f[k] \in 1 .. Len(rows) /\ r[k] = rows[f[k]] BY <1>9
  <2>3. q[f[k]] = w[rows[f[k]]] BY <1>11, <1>13, <2>2
  <2>4. p[k] = w[r[k]] BY <1>10, <1>12
  <2>5. QED BY <2>2, <2>3, <2>4
<1>15. \A j, k \in 1 .. Len(rows) : f[j] = f[k] => j = k
  <2>1. TAKE j, k \in 1 .. Len(rows)
  <2>2. j \in Int /\ k \in Int OBVIOUS
  <2>3. j < k \/ k < j \/ j = k BY <2>2
  <2>4. QED BY <1>9, <2>3
<1>16. Moves(f, p, DOMAIN p, q, DOMAIN q)
  <2>1. \A e \in 1 .. Len(rows) : f[e] \in 1 .. Len(rows) BY <1>9
  <2>2. QED BY <1>9, <1>13, <1>14, <1>15, <2>1 DEF Moves, Carries
<1>17. SumOf(p) = SumOf(q) BY <1>10, <1>11, <1>16, SumOfMoved
<1>18. Sums(w, r) = Sums(w, rows) BY <1>17 DEF Sums, p, q
<1>19. Sorted(rows, LAMBDA x, y : x.count > y.count) = r BY <1>2, <1>5 DEF r
<1>20. QED BY <1>6, <1>9, <1>18, <1>19

\* The places of a.
Places(c, a) == {k \in DOMAIN c : c[k] = a}

LEMMA FirstsAreGroups ==
  ASSUME NEW S, NEW s \in Seq(S), NEW c, DOMAIN c = DOMAIN s, c = [k \in DOMAIN s |-> c[k]]
  PROVE  Groups(Firsts(c), c) /\ DOMAIN Firsts(c) = 1 .. Len(Firsts(c)) /\ Len(Firsts(c)) \in Nat
<1> DEFINE K == Firsts(c)
           T == Range(c)
<1>1. DOMAIN s = 1 .. Len(s) /\ Len(s) \in Nat /\ \A k \in 1 .. Len(s) : c[k] \in T BY DEF Range
<1> HIDE DEF T
<1>2. c \in Seq(T) BY <1>1, ListOf
<1>3. /\ K \in Seq(T) /\ \A j, k \in DOMAIN K : K[j] = K[k] => j = k
      /\ \A k \in DOMAIN c : \E g \in DOMAIN K : K[g] = c[k]
  BY <1>2, FirstsAreKeys
<1> HIDE DEF K
<1>4. DOMAIN K = 1 .. Len(K) /\ Len(K) \in Nat /\ K = [g \in 1 .. Len(K) |-> K[g]] BY <1>3
<1>5. K \in Seq(Range(K))
  <2>1. \A g \in 1 .. Len(K) : K[g] \in Range(K) BY <1>4 DEF Range
  <2>2. QED BY <1>4, <2>1, ListOf
<1>6. QED BY <1>3, <1>4, <1>5 DEF Groups, K

\* x is the sum of s for each key of K.
SumsEach(x, S, v, s, c, K) ==
  /\ s \in Seq(S) /\ v \in [S -> Int] /\ DOMAIN c = DOMAIN s /\ Groups(K, c)
  /\ DOMAIN x = DOMAIN K /\ x = [g \in DOMAIN x |-> x[g]]
  /\ \A g \in DOMAIN K : x[g] = Sums(v, Arranged(s, Places(c, K[g]), InPlace(Places(c, K[g]))))

\* A sum over all, key by key.
LEMMA SumsByGroup ==
  ASSUME NEW S, NEW s, NEW v, NEW c, NEW K, NEW x, SumsEach(x, S, v, s, c, K)
  PROVE  SumOf(x) = Sums(v, s)
<1> DEFINE q == Weigh(v, s)
<1>1. /\ s \in Seq(S) /\ v \in [S -> Int] /\ DOMAIN c = DOMAIN s /\ Groups(K, c)
      /\ DOMAIN x = DOMAIN K /\ x = [g \in DOMAIN x |-> x[g]]
  BY DEF SumsEach
<1>2. q \in Seq(Int) /\ DOMAIN q = DOMAIN s BY <1>1, Weights
<1> HIDE DEF q
<1>3. DOMAIN K = 1 .. Len(K) /\ Len(K) \in Nat BY <1>1 DEF Groups
<1>4. ASSUME NEW g \in DOMAIN K PROVE x[g] = SumIn(q, {k \in DOMAIN q : c[k] = K[g]}) /\ x[g] \in Int
  <2> DEFINE E == Places(c, K[g])
  <2>1. E \in SUBSET (DOMAIN s) /\ E = {k \in DOMAIN q : c[k] = K[g]} BY <1>1, <1>2 DEF Places
  <2>2. x[g] = Sums(v, Arranged(s, E, InPlace(E))) BY DEF SumsEach
  <2> HIDE DEF E
  <2>3. Sums(v, Arranged(s, E, InPlace(E))) = SumIn(Weigh(v, s), E) BY <1>1, <2>1, SumsTaken
  <2>4. SumIn(q, E) \in Int BY <1>2, <2>1, OverPlaces
  <2>5. QED BY <2>1, <2>2, <2>3, <2>4 DEF q
<1>5. x \in Seq(Int) BY <1>1, <1>3, <1>4, ListOf
<1>6. SumOf(x) = SumOf(q)
  <2>1. \A g \in DOMAIN K : x[g] = SumIn(q, {k \in DOMAIN q : c[k] = K[g]}) BY <1>4
  <2>2. QED BY <1>1, <1>2, <1>5, <2>1, SumOfGroups
<1>7. QED BY <1>6 DEF Sums, q

\* What a record counts for.
OneEach(S) == [r \in S |-> 1]
FeeOf(S) == [r \in S |-> IF r.cost = None THEN 0 ELSE r.cost]
OneOfKind(S, kind) == [r \in S |-> IF r.kind = kind THEN 1 ELSE 0]
NamesOf(s) == [k \in DOMAIN s |-> s[k].name]
HoursOf(s) == [k \in DOMAIN s |-> s[k].hour]

Billed(S) == \A r \in S : r.cost \in Nat \cup {None}

LEMMA RecordNumbers ==
  ASSUME NEW S, Billed(S)
  PROVE  /\ OneEach(S) \in [S -> Int] /\ FeeOf(S) \in [S -> Int] /\ \A kind : OneOfKind(S, kind) \in [S -> Int]
         /\ \A r \in S : OneEach(S)[r] = 1 /\ FeeOf(S)[r] = (IF r.cost = None THEN 0 ELSE r.cost)
BY DEF OneEach, FeeOf, OneOfKind, Billed

LEMMA RecordSums ==
  ASSUME NEW S, Billed(S), NEW s \in Seq(S)
  PROVE  /\ Len(s) = Sums(OneEach(S), s) /\ Len(s) \in Nat
         /\ Total(s, LAMBDA r : IF r.cost = None THEN 0 ELSE r.cost) = Sums(FeeOf(S), s)
         /\ Sums(FeeOf(S), s) \in Int
<1>1. \A j \in DOMAIN s : s[j] \in S OBVIOUS
<1>2. Len(s) = Sums(OneEach(S), s)
  <2>1. \A j \in DOMAIN s : OneEach(S)[s[j]] = 1 BY <1>1, RecordNumbers
  <2>2. OneEach(S) \in [S -> Int] BY RecordNumbers
  <2>3. QED BY <2>1, <2>2, SumsOfSame
<1>3. Total(s, LAMBDA r : IF r.cost = None THEN 0 ELSE r.cost) = Sums(FeeOf(S), s)
  <2>1. \A j \in DOMAIN s : FeeOf(S)[s[j]] = IF s[j].cost = None THEN 0 ELSE s[j].cost BY <1>1, RecordNumbers
  <2>2. Weigh(FeeOf(S), s) = [k \in DOMAIN s |-> IF s[k].cost = None THEN 0 ELSE s[k].cost] BY <2>1 DEF Weigh
  <2>3. QED BY <2>2 DEF Sums, Total
<1>4. Sums(FeeOf(S), s) \in Int
  <2>1. FeeOf(S) \in [S -> Int] BY RecordNumbers
  <2>2. Weigh(FeeOf(S), s) \in Seq(Int) BY <2>1, Weights
  <2>3. QED BY <2>2, OverPlaces DEF Sums
<1>5. QED BY <1>2, <1>3, <1>4 DEF Total

LEMMA KindsCounted ==
  ASSUME NEW S, Billed(S), NEW s \in Seq(S), NEW kind
  PROVE  Len(OfKind(s, kind)) = Sums(OneOfKind(S, kind), s)
<1> DEFINE D == KindAt(s, kind)
           u == OneOfKind(S, kind)
<1>1. D \in SUBSET (DOMAIN s) /\ \A k \in DOMAIN s : k \in D <=> s[k].kind = kind BY DEF KindAt
<1>2. u \in [S -> Int] BY RecordNumbers
<1>3. \A k \in DOMAIN s : u[s[k]] = IF k \in D THEN 1 ELSE 0
  <2>1. TAKE k \in DOMAIN s
  <2>2. s[k] \in S OBVIOUS
  <2>3. QED BY <1>1, <2>2 DEF OneOfKind
<1>4. OfKind(s, kind) = Arranged(s, D, InPlace(D)) BY KindsKept
<1> HIDE DEF D, u
<1>5. Chooses(u, [x \in S |-> 1], s, D, S)
  <2>1. \A k \in DOMAIN s : [x \in S |-> 1][s[k]] = 1 OBVIOUS
  <2>2. [x \in S |-> 1] \in [S -> Int] OBVIOUS
  <2>3. QED BY <1>1, <1>2, <1>3, <2>1, <2>2 DEF Chooses
<1>6. Len(Arranged(s, D, InPlace(D))) = Sums(u, s) BY <1>5, CountsChosen
<1>7. QED BY <1>4, <1>6 DEF u

\* The row of a name.
LEMMA RowOfName ==
  ASSUME NEW S, Billed(S), NEW s \in Seq(S), NEW a
  PROVE  LET E == Places(NamesOf(s), a)
         IN  /\ RowOf(s, a).count = Sums(OneEach(S), Arranged(s, E, InPlace(E)))
             /\ RowOf(s, a).cost = Sums(FeeOf(S), Arranged(s, E, InPlace(E)))
             /\ RowOf(s, a).count \in Int /\ RowOf(s, a).cost \in Int
<1> DEFINE D == {k \in DOMAIN s : s[k].name = a}
           E == Places(NamesOf(s), a)
           mine == Arranged(s, D, InPlace(D))
<1>1. D = E BY DEF Places, NamesOf
<1>2. D \in SUBSET (DOMAIN s) OBVIOUS
<1>3. RowOf(s, a).count = Len(mine) /\ RowOf(s, a).cost = Total(mine, LAMBDA r : IF r.cost = None THEN 0 ELSE r.cost)
  BY DEF RowOf, Kept, Total
<1> HIDE DEF D, E
<1>4. mine \in Seq(S) BY <1>2, ArrangedInPlace
<1> HIDE DEF mine
<1>5. /\ Len(mine) = Sums(OneEach(S), mine) /\ Len(mine) \in Nat
      /\ Total(mine, LAMBDA r : IF r.cost = None THEN 0 ELSE r.cost) = Sums(FeeOf(S), mine)
      /\ Sums(FeeOf(S), mine) \in Int
  BY <1>4, RecordSums
<1>6. /\ RowOf(s, a).count = Sums(OneEach(S), mine) /\ RowOf(s, a).count \in Int
      /\ RowOf(s, a).cost = Sums(FeeOf(S), mine) /\ RowOf(s, a).cost \in Int
  <2>1. RowOf(s, a).cost = Sums(FeeOf(S), mine) BY <1>3, <1>5 DEF Total
  <2>2. QED BY <1>3, <1>5, <2>1 DEF Total
<1>7. mine = Arranged(s, E, InPlace(E)) BY <1>1 DEF mine
<1>8. QED BY <1>6, <1>7 DEF E

NamesIn(s) == Firsts(NamesOf(s))
Rows(s) == [k \in DOMAIN NamesIn(s) |-> RowOf(s, NamesIn(s)[k])]

LEMMA FieldsAreGroups ==
  ASSUME NEW S, NEW s \in Seq(S)
  PROVE  /\ Groups(NamesIn(s), NamesOf(s)) /\ DOMAIN NamesOf(s) = DOMAIN s
         /\ DOMAIN NamesIn(s) = 1 .. Len(NamesIn(s)) /\ Len(NamesIn(s)) \in Nat
         /\ Groups(Firsts(HoursOf(s)), HoursOf(s)) /\ DOMAIN HoursOf(s) = DOMAIN s
<1>1. DOMAIN NamesOf(s) = DOMAIN s /\ NamesOf(s) = [k \in DOMAIN s |-> NamesOf(s)[k]] BY DEF NamesOf
<1>2. DOMAIN HoursOf(s) = DOMAIN s /\ HoursOf(s) = [k \in DOMAIN s |-> HoursOf(s)[k]] BY DEF HoursOf
<1>3. QED BY <1>1, <1>2, FirstsAreGroups DEF NamesIn

\* There are as many rows as names.
LEMMA NamesCounted ==
  ASSUME NEW S, NEW s \in Seq(S)
  PROVE  Cardinality({s[k].name : k \in DOMAIN s}) = Len(NamesIn(s))
<1> DEFINE c == NamesOf(s)
           K == NamesIn(s)
           N == {s[k].name : k \in DOMAIN s}
<1>1. DOMAIN s = 1 .. Len(s) /\ Len(s) \in Nat /\ DOMAIN c = DOMAIN s /\ c = [k \in DOMAIN s |-> c[k]]
      /\ \A k \in DOMAIN s : c[k] = s[k].name
  BY DEF NamesOf
<1>2. K = Firsts(c) BY DEF NamesIn
<1>3. \A k \in DOMAIN s : c[k] \in N BY <1>1
<1>4. \A a \in N : \E k \in DOMAIN s : a = c[k] BY <1>1
<1> HIDE DEF c, K, N
<1>5. c \in Seq(N) BY <1>1, <1>3, ListOf
<1>6. /\ Firsts(c) \in Seq(N)
      /\ \A j, k \in DOMAIN Firsts(c) : Firsts(c)[j] = Firsts(c)[k] => j = k
      /\ \A k \in DOMAIN c : \E g \in DOMAIN Firsts(c) : Firsts(c)[g] = c[k]
  BY <1>5, FirstsAreKeys
<1>7. /\ K \in Seq(N)
      /\ \A j, k \in DOMAIN K : K[j] = K[k] => j = k
      /\ \A k \in DOMAIN c : \E g \in DOMAIN K : K[g] = c[k]
  BY <1>2, <1>6
<1>8. DOMAIN K = 1 .. Len(K) /\ Len(K) \in Nat /\ K \in [1 .. Len(K) -> N] BY <1>7
<1>9. \A a \in N : \E g \in 1 .. Len(K) : K[g] = a BY <1>1, <1>4, <1>7, <1>8
<1>10. K \in Bijection(1 .. Len(K), N) BY <1>7, <1>8, <1>9 DEF Bijection, Injection, Surjection, IsInjective
<1>11. IsFiniteSet(1 .. Len(K)) /\ Cardinality(1 .. Len(K)) = Len(K)
  <2> DEFINE n == Len(K)
  <2>1. n \in Nat BY <1>8
  <2> HIDE DEF n
  <2>2. IsFiniteSet(1 .. n) /\ Cardinality(1 .. n) = n BY <2>1, FS_Interval
  <2>3. QED BY <2>2 DEF n
<1>12. Cardinality(N) = Len(K) BY <1>10, <1>11, FS_Bijection DEF ExistsBijection
<1>13. QED BY <1>12 DEF N, K

\* The rows of all names add up.
LEMMA RowsAddUp ==
  ASSUME NEW S, Billed(S), NEW s \in Seq(S)
  PROVE  LET rows == Rows(s)
         IN  /\ rows \in Seq(Range(rows)) /\ Len(rows) = Len(NamesIn(s))
             /\ \A k \in DOMAIN rows : rows[k].count \in Int /\ rows[k].cost \in Int
             /\ SumOf([k \in DOMAIN rows |-> rows[k].count]) = Len(s)
             /\ SumOf([k \in DOMAIN rows |-> rows[k].cost]) = Sums(FeeOf(S), s)
<1> DEFINE K == NamesIn(s)
           rows == Rows(s)
           x == [k \in DOMAIN rows |-> rows[k].count]
           y == [k \in DOMAIN rows |-> rows[k].cost]
           E(a) == Places(NamesOf(s), a)
<1>1. Groups(K, NamesOf(s)) /\ DOMAIN NamesOf(s) = DOMAIN s /\ DOMAIN K = 1 .. Len(K) /\ Len(K) \in Nat
  BY FieldsAreGroups
<1>2. DOMAIN rows = DOMAIN K /\ rows = [k \in DOMAIN K |-> rows[k]] /\ \A k \in DOMAIN K : rows[k] = RowOf(s, K[k])
  BY DEF Rows
<1>3. \A a : /\ RowOf(s, a).count = Sums(OneEach(S), Arranged(s, E(a), InPlace(E(a)))) /\ RowOf(s, a).count \in Int
             /\ RowOf(s, a).cost = Sums(FeeOf(S), Arranged(s, E(a), InPlace(E(a)))) /\ RowOf(s, a).cost \in Int
  BY RowOfName
<1> HIDE DEF E, K, rows
<1>4. rows \in Seq(Range(rows)) /\ Len(rows) = Len(K)
  <2>1. \A k \in 1 .. Len(K) : rows[k] \in Range(rows) BY <1>1, <1>2 DEF Range
  <2>2. rows = [k \in 1 .. Len(K) |-> rows[k]] BY <1>1, <1>2
  <2>3. QED BY <1>1, <1>2, <2>1, <2>2, ListOf
<1>5. \A k \in DOMAIN rows : rows[k].count \in Int /\ rows[k].cost \in Int BY <1>2, <1>3
<1>6. DOMAIN x = DOMAIN K /\ x = [g \in DOMAIN x |-> x[g]] /\ DOMAIN y = DOMAIN K /\ y = [g \in DOMAIN y |-> y[g]]
  BY <1>2
<1>7. \A g \in DOMAIN K : x[g] = Sums(OneEach(S), Arranged(s, E(K[g]), InPlace(E(K[g]))))
  <2>1. \A g \in DOMAIN K : x[g] = rows[g].count BY <1>2
  <2> HIDE DEF x
  <2>2. QED BY <1>2, <1>3, <2>1
<1>8. \A g \in DOMAIN K : y[g] = Sums(FeeOf(S), Arranged(s, E(K[g]), InPlace(E(K[g]))))
  <2>1. \A g \in DOMAIN K : y[g] = rows[g].cost BY <1>2
  <2> HIDE DEF y
  <2>2. QED BY <1>2, <1>3, <2>1
<1> HIDE DEF x, y
<1>9. OneEach(S) \in [S -> Int] /\ FeeOf(S) \in [S -> Int] BY RecordNumbers
<1>14. \A g \in DOMAIN K : x[g] = Sums(OneEach(S), Arranged(s, Places(NamesOf(s), K[g]), InPlace(Places(NamesOf(s), K[g]))))
  BY <1>7 DEF E
<1>15. \A g \in DOMAIN K : y[g] = Sums(FeeOf(S), Arranged(s, Places(NamesOf(s), K[g]), InPlace(Places(NamesOf(s), K[g]))))
  BY <1>8 DEF E
<1>10. SumOf(x) = Sums(OneEach(S), s)
  <2>1. SumsEach(x, S, OneEach(S), s, NamesOf(s), K) BY <1>1, <1>6, <1>9, <1>14 DEF SumsEach
  <2>2. QED BY <2>1, SumsByGroup
<1>11. SumOf(y) = Sums(FeeOf(S), s)
  <2>1. SumsEach(y, S, FeeOf(S), s, NamesOf(s), K) BY <1>1, <1>6, <1>9, <1>15 DEF SumsEach
  <2>2. QED BY <2>1, SumsByGroup
<1>12. Len(s) = Sums(OneEach(S), s) BY RecordSums
<1>13. QED BY <1>4, <1>5, <1>10, <1>11, <1>12 DEF x, y, rows, K

\* A total is the same in any order of the rows.
LEMMA TotalsSorted ==
  ASSUME NEW rows, rows \in Seq(Range(rows)), \A k \in DOMAIN rows : rows[k].count \in Int /\ rows[k].cost \in Int
  PROVE  LET r == Sorted(rows, LAMBDA x, y : x.count > y.count)
         IN  /\ r \in Seq(Range(rows)) /\ Len(r) = Len(rows)
             /\ SumOf([k \in DOMAIN r |-> r[k].count]) = SumOf([k \in DOMAIN rows |-> rows[k].count])
             /\ SumOf([k \in DOMAIN r |-> r[k].cost]) = SumOf([k \in DOMAIN rows |-> rows[k].cost])
<1> DEFINE R == Range(rows)
           r == Sorted(rows, LAMBDA x, y : x.count > y.count)
           v == [row \in R |-> row.count]
           w == [row \in R |-> row.cost]
<1>1. v \in [R -> Int] /\ w \in [R -> Int] /\ \A row \in R : v[row] = row.count /\ w[row] = row.cost
  <2>1. \A row \in R : row.count \in Int /\ row.cost \in Int BY DEF Range
  <2> HIDE DEF R
  <2>2. QED BY <2>1
<1> HIDE DEF R, v, w
<1>2. rows \in Seq(R) BY DEF R
<1>3. r \in Seq(R) /\ Len(r) = Len(rows) /\ Sums(v, r) = Sums(v, rows) BY <1>1, <1>2, RowsSorted
<1>4. Sums(w, r) = Sums(w, rows) BY <1>1, <1>2, RowsSorted
<1> HIDE DEF r
<1>5. \A s \in Seq(R) : /\ Weigh(v, s) = [k \in DOMAIN s |-> s[k].count]
                        /\ Weigh(w, s) = [k \in DOMAIN s |-> s[k].cost]
  <2>1. TAKE s \in Seq(R)
  <2>2. \A k \in DOMAIN s : s[k] \in R OBVIOUS
  <2>3. \A k \in DOMAIN s : v[s[k]] = s[k].count /\ w[s[k]] = s[k].cost BY <1>1, <2>2
  <2>4. QED BY <2>3 DEF Weigh
<1>6. /\ SumOf([k \in DOMAIN r |-> r[k].count]) = Sums(v, r) /\ SumOf([k \in DOMAIN r |-> r[k].cost]) = Sums(w, r)
      /\ SumOf([k \in DOMAIN rows |-> rows[k].count]) = Sums(v, rows)
      /\ SumOf([k \in DOMAIN rows |-> rows[k].cost]) = Sums(w, rows)
  <2>1. Weigh(v, r) = [k \in DOMAIN r |-> r[k].count] /\ Weigh(w, r) = [k \in DOMAIN r |-> r[k].cost] BY <1>3, <1>5
  <2>2. Weigh(v, rows) = [k \in DOMAIN rows |-> rows[k].count] /\ Weigh(w, rows) = [k \in DOMAIN rows |-> rows[k].cost]
    BY <1>2, <1>5
  <2>3. QED BY <2>1, <2>2 DEF Sums
<1>7. /\ r \in Seq(Range(rows)) /\ Len(r) = Len(rows)
      /\ SumOf([k \in DOMAIN r |-> r[k].count]) = SumOf([k \in DOMAIN rows |-> rows[k].count])
      /\ SumOf([k \in DOMAIN r |-> r[k].cost]) = SumOf([k \in DOMAIN rows |-> rows[k].cost])
  BY <1>3, <1>4, <1>6 DEF R
<1>8. QED BY <1>7 DEF r

\* The totals, when every name is shown.
LEMMA TotalsOfNames ==
  ASSUME NEW S, Billed(S), NEW records \in Seq(S), NEW kind, NEW top \in Nat,
         Cardinality({OfKind(records, kind)[k].name : k \in DOMAIN OfKind(records, kind)}) <= top
  PROVE  /\ Total(ByName(records, kind, top), LAMBDA row : row.count) = Len(OfKind(records, kind))
         /\ Total(ByName(records, kind, top), LAMBDA row : row.cost) = Sums(FeeOf(S), OfKind(records, kind))
<1> DEFINE rs == OfKind(records, kind)
           rows == Rows(rs)
           r == Sorted(rows, LAMBDA x, y : x.count > y.count)
<1>1. rs \in Seq(S) BY KindsKept
<1>2. ByName(records, kind, top) = Cut(r, top) BY DEF ByName, Rows, NamesIn, NamesOf
<1>3. Cardinality({rs[k].name : k \in DOMAIN rs}) <= top OBVIOUS
<1> HIDE DEF rs
<1>4. Len(NamesIn(rs)) <= top BY <1>1, <1>3, NamesCounted
<1>5. /\ rows \in Seq(Range(rows)) /\ Len(rows) = Len(NamesIn(rs))
      /\ \A k \in DOMAIN rows : rows[k].count \in Int /\ rows[k].cost \in Int
      /\ SumOf([k \in DOMAIN rows |-> rows[k].count]) = Len(rs)
      /\ SumOf([k \in DOMAIN rows |-> rows[k].cost]) = Sums(FeeOf(S), rs)
  BY <1>1, RowsAddUp
<1> HIDE DEF rows
<1>6. /\ r \in Seq(Range(rows)) /\ Len(r) = Len(rows)
      /\ SumOf([k \in DOMAIN r |-> r[k].count]) = SumOf([k \in DOMAIN rows |-> rows[k].count])
      /\ SumOf([k \in DOMAIN r |-> r[k].cost]) = SumOf([k \in DOMAIN rows |-> rows[k].cost])
  BY <1>5, TotalsSorted
<1> HIDE DEF r
<1>7. Cut(r, top) = r BY <1>4, <1>5, <1>6, CutTakes
<1>9. ByName(records, kind, top) = r BY <1>2, <1>7
<1>10. QED BY <1>5, <1>6, <1>9 DEF rs, Total

\* The records of an hour.
LEMMA HourOfRecords ==
  ASSUME NEW S, Billed(S), NEW records \in Seq(S), NEW h
  PROVE  LET E == Places(HoursOf(records), h)
         IN  /\ \A kind \in UsageKind :
                  ByHour(records, h).count[kind] = Sums(OneOfKind(S, kind), Arranged(records, E, InPlace(E)))
             /\ ByHour(records, h).cost = Sums(FeeOf(S), Arranged(records, E, InPlace(E)))
<1> DEFINE D == {k \in DOMAIN records : records[k].hour = h}
           E == Places(HoursOf(records), h)
           rs == Arranged(records, D, InPlace(D))
<1>1. D = E BY DEF Places, HoursOf
<1>2. D \in SUBSET (DOMAIN records) OBVIOUS
<1>3. /\ \A kind \in UsageKind : ByHour(records, h).count[kind] = Len(OfKind(rs, kind))
      /\ ByHour(records, h).cost = Total(rs, LAMBDA r : IF r.cost = None THEN 0 ELSE r.cost)
  BY DEF ByHour, Kept, Total
<1> HIDE DEF D, E
<1>4. rs \in Seq(S) BY <1>2, ArrangedInPlace
<1> HIDE DEF rs
<1>5. \A kind \in UsageKind : ByHour(records, h).count[kind] = Sums(OneOfKind(S, kind), rs)
  BY <1>3, <1>4, KindsCounted
<1>6. ByHour(records, h).cost = Sums(FeeOf(S), rs)
  <2>1. Total(rs, LAMBDA r : IF r.cost = None THEN 0 ELSE r.cost) = Sums(FeeOf(S), rs) BY <1>4, RecordSums
  <2>2. QED BY <1>3, <2>1 DEF Total
<1>7. rs = Arranged(records, E, InPlace(E)) BY <1>1 DEF rs
<1>8. QED BY <1>5, <1>6, <1>7 DEF E

\* The time series adds up.
LEMMA TotalsOfHours ==
  ASSUME NEW S, Billed(S), NEW records \in Seq(S)
  PROVE  /\ \A kind \in UsageKind :
              Total(Firsts(HoursOf(records)), LAMBDA h : ByHour(records, h).count[kind]) = Sums(OneOfKind(S, kind), records)
         /\ Total(Firsts(HoursOf(records)), LAMBDA h : ByHour(records, h).cost) = Sums(FeeOf(S), records)
<1> DEFINE K == Firsts(HoursOf(records))
           y == [g \in DOMAIN K |-> ByHour(records, K[g]).cost]
<1>1. Groups(K, HoursOf(records)) /\ DOMAIN HoursOf(records) = DOMAIN records BY FieldsAreGroups
<1> HIDE DEF K
<1>2. \A kind \in UsageKind : Total(K, LAMBDA h : ByHour(records, h).count[kind]) = Sums(OneOfKind(S, kind), records)
  <2>1. TAKE kind \in UsageKind
  <2> DEFINE x == [g \in DOMAIN K |-> ByHour(records, K[g]).count[kind]]
  <2>2. DOMAIN x = DOMAIN K /\ x = [g \in DOMAIN x |-> x[g]] /\ \A g \in DOMAIN K : x[g] = ByHour(records, K[g]).count[kind]
    OBVIOUS
  <2> HIDE DEF x
  <2>3. \A g \in DOMAIN K : x[g] = Sums(OneOfKind(S, kind), Arranged(records, Places(HoursOf(records), K[g]), InPlace(Places(HoursOf(records), K[g]))))
    BY <2>1, <2>2, HourOfRecords
  <2>4. OneOfKind(S, kind) \in [S -> Int] BY RecordNumbers
  <2>5. SumsEach(x, S, OneOfKind(S, kind), records, HoursOf(records), K) BY <1>1, <2>2, <2>3, <2>4 DEF SumsEach
  <2>6. SumOf(x) = Sums(OneOfKind(S, kind), records) BY <2>5, SumsByGroup
  <2>7. QED BY <2>6 DEF Total, x
<1>3. Total(K, LAMBDA h : ByHour(records, h).cost) = Sums(FeeOf(S), records)
  <2>2. DOMAIN y = DOMAIN K /\ y = [g \in DOMAIN y |-> y[g]] /\ \A g \in DOMAIN K : y[g] = ByHour(records, K[g]).cost
    OBVIOUS
  <2> HIDE DEF y
  <2>3. \A g \in DOMAIN K : y[g] = Sums(FeeOf(S), Arranged(records, Places(HoursOf(records), K[g]), InPlace(Places(HoursOf(records), K[g]))))
    BY <2>2, HourOfRecords
  <2>4. FeeOf(S) \in [S -> Int] BY RecordNumbers
  <2>5. SumsEach(y, S, FeeOf(S), records, HoursOf(records), K) BY <1>1, <2>2, <2>3, <2>4 DEF SumsEach
  <2>6. SumOf(y) = Sums(FeeOf(S), records) BY <2>5, SumsByGroup
  <2>7. QED BY <2>6 DEF Total, y
<1>4. QED BY <1>2, <1>3 DEF K, Total

\* Only calls of a model are billed.
LEMMA TotalsAlwaysAgree ==
  ASSUME NEW records, IsList(records), Billed(Range(records)),
         \A k \in DOMAIN records : records[k].kind = "model" \/ records[k].cost = None,
         NEW top \in Nat
  PROVE  TotalsAgree(records, top)
<1> DEFINE S == Range(records)
           names(kind) == {OfKind(records, kind)[k].name : k \in DOMAIN OfKind(records, kind)}
<1>1. records \in Seq(S) /\ Billed(S) BY DEF IsList
<1>2. \A k \in DOMAIN records : records[k] \in S BY DEF Range
<1> HIDE DEF S
<1>3. ASSUME NEW kind \in UsageKind, Cardinality(names(kind)) <= top
      PROVE  TotalOf(records, kind, top) = Total(Firsts(HoursOf(records)), LAMBDA h : ByHour(records, h).count[kind])
  <2>1. Total(ByName(records, kind, top), LAMBDA row : row.count) = Len(OfKind(records, kind))
    BY <1>1, <1>3, TotalsOfNames
  <2>2. Len(OfKind(records, kind)) = Sums(OneOfKind(S, kind), records) BY <1>1, KindsCounted
  <2>3. Total(Firsts(HoursOf(records)), LAMBDA h : ByHour(records, h).count[kind]) = Sums(OneOfKind(S, kind), records)
    BY <1>1, TotalsOfHours
  <2>4. QED BY <2>1, <2>2, <2>3 DEF TotalOf, Total
<1>4. ASSUME Cardinality(names("model")) <= top
      PROVE  TotalCost(records, top) = Total(Firsts(HoursOf(records)), LAMBDA h : ByHour(records, h).cost)
  <2> DEFINE D == KindAt(records, "model")
  <2>1. Total(ByName(records, "model", top), LAMBDA row : row.cost) = Sums(FeeOf(S), OfKind(records, "model"))
    BY <1>1, <1>4, TotalsOfNames
  <2>2. OfKind(records, "model") = Arranged(records, D, InPlace(D)) BY <1>1, KindsKept
  <2>3. D \in SUBSET (DOMAIN records) /\ \A k \in DOMAIN records : k \notin D => records[k].cost = None BY DEF KindAt
  <2> HIDE DEF D
  <2>4. \A k \in DOMAIN records : FeeOf(S)[records[k]] = IF records[k].cost = None THEN 0 ELSE records[k].cost
    BY <1>1, <1>2, RecordNumbers
  <2>5. \A k \in DOMAIN records : FeeOf(S)[records[k]] = IF k \in D THEN FeeOf(S)[records[k]] ELSE 0 BY <2>3, <2>4
  <2>6. FeeOf(S) \in [S -> Int] BY <1>1, RecordNumbers
  <2>7. Chooses(FeeOf(S), FeeOf(S), records, D, S) BY <1>1, <2>3, <2>5, <2>6 DEF Chooses
  <2>8. Sums(FeeOf(S), OfKind(records, "model")) = Sums(FeeOf(S), records) BY <2>2, <2>7, SumsChosen
  <2>9. Total(Firsts(HoursOf(records)), LAMBDA h : ByHour(records, h).cost) = Sums(FeeOf(S), records)
    BY <1>1, TotalsOfHours
  <2>10. QED BY <2>1, <2>8, <2>9 DEF TotalCost, Total
<1>5. QED BY <1>3, <1>4 DEF TotalsAgree, HoursOf, Total

-----------------------------------------------------------------------------
(* What is checked and accounted for.                                      *)

LEMMA AnyQuestionOfAccounts ==
  ASSUME NEW q, QuestionOK(q)
  PROVE  /\ q.of = "answer" =>
              /\ BlocksWhatItSees(q.default, q.name, q.answer, q.fate)
              /\ PassMeansChecked(q.default, q.name, q.answer, q.fate)
              /\ StrictIsStricter(q.answer, q.fate)
         /\ q.of = "turn" => TokensAreAccounted(q.events, q.ok) /\ WorkIsAttributed(q.events, q.ok)
         /\ q.of = "transcript" => TranscriptIsRedacted(q.asked, q.events, q.names)
         /\ q.of = "page" => TotalsAgree(q.rs, q.top)
         /\ q.of = "recent" => RecentIsNewest(q.rs, "tool", q.limit)
<1>1. ASSUME q.of = "answer"
      PROVE  /\ BlocksWhatItSees(q.default, q.name, q.answer, q.fate)
             /\ PassMeansChecked(q.default, q.name, q.answer, q.fate)
             /\ StrictIsStricter(q.answer, q.fate)
  <2>1. q.answer.size \in Nat BY <1>1 DEF QuestionOK
  <2>2. QED BY <2>1, BlocksAlwaysWhatItSees, PassAlwaysMeansChecked, StrictAlwaysStricter
<1>2. ASSUME q.of = "turn" PROVE TokensAreAccounted(q.events, q.ok) /\ WorkIsAttributed(q.events, q.ok)
  <2>1. AreEvents(q.events) BY <1>2 DEF QuestionOK
  <2>2. QED BY <2>1, TokensAlwaysAccounted, WorkAlwaysAttributed
<1>3. ASSUME q.of = "transcript" PROVE TranscriptIsRedacted(q.asked, q.events, q.names)
  <2>1. IsList(q.asked) /\ AreEvents(q.events) /\ NamesOK(q.events, q.names) BY <1>3 DEF QuestionOK, NamesOK
  <2>2. QED BY <2>1, TranscriptAlwaysRedacted
<1>4. ASSUME q.of = "page" PROVE TotalsAgree(q.rs, q.top)
  <2>1. /\ IsList(q.rs) /\ q.top \in Nat
        /\ \A k \in DOMAIN q.rs : /\ q.rs[k].cost \in Nat \cup {None}
                                  /\ q.rs[k].kind = "model" \/ q.rs[k].cost = None
    BY <1>4 DEF QuestionOK
  <2>2. Billed(Range(q.rs)) BY <2>1 DEF Billed, Range
  <2>3. QED BY <2>1, <2>2, TotalsAlwaysAgree
<1>5. ASSUME q.of = "recent" PROVE RecentIsNewest(q.rs, "tool", q.limit)
  <2>1. IsList(q.rs) /\ q.limit \in Nat BY <1>5 DEF QuestionOK
  <2>2. QED BY <2>1, RecentAlwaysNewest
<1>6. QED BY <1>1, <1>2, <1>3, <1>4, <1>5

\* What an agent answered is checked and accounted for as it was: for any answer,
\* any stream of events, any transcript and any page of records.
THEOREM AnswersAreAlwaysAccounted == AllSpec => []AnswersAreAccounted
<1>1. ASSUME query = NoQuestion \/ QuestionOK(query) PROVE AnswersAreAccounted
  <2>1. CASE query = NoQuestion
    <3>1. query.of = "nothing" BY <2>1 DEF NoQuestion
    <3>2. QED BY <3>1 DEF AnswersAreAccounted
  <2>2. CASE QuestionOK(query) BY <2>2, AnyQuestionOfAccounts DEF AnswersAreAccounted
  <2>3. QED BY <1>1, <2>1, <2>2
<1>2. QED BY <1>1, QuestionsKeepShape, PTL

-----------------------------------------------------------------------------
(* Memory.                                                                 *)

\* What a scrubbed conversation is made of, and what is remembered of it.
Clean == {token \in Words \cup {Redacted} : token \cap Range(Patterns) = {}}
CleanEvent == [role : {"user", "model"}, token : Clean]
CleanMemory == [scope : Scopes, fact : Clean]

EventsAt(s, D) ==
  LET lines == Arranged(s, D, InPlace(D))
  IN  [k \in DOMAIN lines |-> [role |-> Role(lines[k]), token |-> lines[k].token]]

\* What Sent(text) takes is what the scrub left.
LEMMA KeptLinesAreClean ==
  ASSUME NEW S, NEW s \in Seq(Line(S)), NEW D \in SUBSET (DOMAIN s)
  PROVE  EventsAt(s, D) \in Seq([role : {"user", "model"}, token : S])
<1> DEFINE lines == Arranged(s, D, InPlace(D))
           T == [role : {"user", "model"}, token : S]
           Ev(l) == [role |-> Role(l), token |-> l.token]
<1>1. lines \in Seq(Line(S)) BY ArrangedInPlace
<1>2. \A l \in Line(S) : Ev(l) \in T BY DEF Line, Role
<1> HIDE DEF lines, T, Ev
<1>3. DOMAIN lines = 1 .. Len(lines) /\ Len(lines) \in Nat /\ \A k \in 1 .. Len(lines) : lines[k] \in Line(S) BY <1>1
<1>4. [k \in DOMAIN lines |-> Ev(lines[k])] \in [1 .. Len(lines) -> T] BY <1>2, <1>3
<1>5. [k \in DOMAIN lines |-> Ev(lines[k])] \in Seq(T) BY <1>3, <1>4
<1>6. QED BY <1>5 DEF Ev, T, lines, EventsAt

\* Every event that is sent was scrubbed, whichever service sends it.
LEMMA SentIsClean ==
  ASSUME NEW text \in Texts
  PROVE  Sent(text) \in Seq(CleanEvent)
<1> DEFINE s == Scrubbed(text).text
<1>1. text \in Seq(RawLine) /\ text \in Seq(ScrubbedLine)
  <2>1. RawLine \in SUBSET ScrubbedLine BY DEF RawLine, ScrubbedLine, Line
  <2>2. text \in Seq(RawLine) BY TextsAssumption
  <2>3. QED BY <2>1, <2>2
<1>2. s \in Seq(ScrubbedLine) /\ Len(s) = Len(text) BY <1>1, ScrubEffect
<1>3. \A j \in 1 .. Len(text) : /\ s[j].token \cap Range(Patterns) = {}
                                /\ s[j].token \in {text[j].token, Redacted}
  BY <1>1, ScrubLeavesNothing
<1>4. \A j \in 1 .. Len(text) : text[j].token \in Words BY <1>1 DEF Words
<1>5. \A j \in 1 .. Len(text) : s[j].token \in Clean BY <1>3, <1>4 DEF Clean
<1> HIDE DEF s
<1>6. s \in Seq(Line(Clean))
  <2>1. DOMAIN s = 1 .. Len(text) /\ Len(text) \in Nat BY <1>1, <1>2
  <2>2. \A j \in 1 .. Len(text) : s[j] \in ScrubbedLine BY <1>2, <2>1
  <2>3. \A j \in 1 .. Len(text) : s[j] \in Line(Clean) BY <1>5, <2>2 DEF ScrubbedLine, Line
  <2>4. s \in [1 .. Len(text) -> Line(Clean)]
    <3>1. s = [j \in DOMAIN s |-> s[j]] BY <1>2
    <3>2. QED BY <2>1, <2>3, <3>1
  <2>5. QED BY <2>1, <2>4
<1>7. ClientEvents(s) \in Seq(CleanEvent)
  <2> DEFINE D == {k \in DOMAIN s : ~(s[k].speaker = "" /\ s[k].token = Blank)}
  <2>1. D \in SUBSET (DOMAIN s) OBVIOUS
  <2>2. ClientEvents(s) = EventsAt(s, D) BY DEF ClientEvents, Kept, EventsAt
  <2> HIDE DEF D
  <2>3. QED BY <1>6, <2>1, <2>2, KeptLinesAreClean DEF CleanEvent
<1>8. NativeEvents(s) \in Seq(CleanEvent)
  <2> DEFINE D == {k \in DOMAIN s : s[k].token # Blank}
  <2>1. D \in SUBSET (DOMAIN s) OBVIOUS
  <2>2. NativeEvents(s) = EventsAt(s, D) BY DEF NativeEvents, Kept, EventsAt
  <2> HIDE DEF D
  <2>3. QED BY <1>6, <2>1, <2>2, KeptLinesAreClean DEF CleanEvent
<1>9. QED BY <1>7, <1>8 DEF Sent, s

\* What of the user a bank holds, and a wipe that stands: while every deletion so
\* far succeeded, what is left of the user is still to be deleted or is new.
Mine(memories) == {m \in memories : m.scope = "user"}

WipeStands(w) ==
  /\ IsFiniteSet(wipe[w].todo)
  /\ wipe[w].deleted + Cardinality(wipe[w].todo) <= wipe[w].listed
  /\ wipe[w].pc # "deleting" => wipe[w].todo = {}
  /\ wipe[w].pc \in {"deleting", "over"} /\ wipe[w].deleted + Cardinality(wipe[w].todo) = wipe[w].listed
     => Mine(bank) \subseteq late[w] \cup wipe[w].todo

WipeStates ==
  [pc : {"idle", "deleting", "over", "refused"}, todo : SUBSET Mine(CleanMemory), deleted : Nat, listed : Nat]

\* The inductive invariant of the memories.
MemInvariant ==
  /\ capture \in [Captures -> [pc : {"idle", "sent", "over"}, scope : Scopes, events : Seq(CleanEvent)]]
  /\ bank \in SUBSET CleanMemory /\ IsFiniteSet(bank)
  /\ wipe \in [Wipes -> WipeStates]
  /\ late \in [Wipes -> SUBSET CleanMemory]
  /\ \A w \in Wipes : WipeStands(w)

LEMMA MemStarts == MemInit => MemInvariant
<1> SUFFICES ASSUME MemInit PROVE MemInvariant OBVIOUS
<1>1. <<>> \in Seq(CleanEvent) /\ "user" \in Scopes BY DEF Scopes
<1>2. capture \in [Captures -> [pc : {"idle", "sent", "over"}, scope : Scopes, events : Seq(CleanEvent)]]
  BY <1>1 DEF MemInit
<1>3. bank \in SUBSET CleanMemory /\ IsFiniteSet(bank) BY FS_EmptySet DEF MemInit
<1>4. wipe \in [Wipes -> WipeStates] /\ late \in [Wipes -> SUBSET CleanMemory] BY DEF MemInit, WipeStates
<1>5. \A w \in Wipes : WipeStands(w)
  <2>1. \A w \in Wipes : wipe[w].pc = "idle" /\ wipe[w].todo = {} /\ wipe[w].deleted = 0 /\ wipe[w].listed = 0
    BY DEF MemInit
  <2>2. IsFiniteSet({}) /\ Cardinality({}) = 0 BY FS_EmptySet
  <2>3. QED BY <2>1, <2>2 DEF WipeStands
<1>6. QED BY <1>2, <1>3, <1>4, <1>5 DEF MemInvariant

\* What the bank may remember of a capture is clean.
LEMMA ExtractedIsClean ==
  ASSUME NEW c, capture[c].events \in Seq(CleanEvent)
  PROVE  IsFiniteSet(Extracted(c)) /\ Extracted(c) \subseteq Clean
<1> DEFINE e == capture[c].events
           T == {e[k].token : k \in DOMAIN e}
           f == [k \in DOMAIN e |-> e[k].token]
<1>1. DOMAIN e = 1 .. Len(e) /\ Len(e) \in Nat /\ 1 \in Int /\ Len(e) \in Int /\ \A k \in 1 .. Len(e) : e[k] \in CleanEvent
  OBVIOUS
<1>2. IsFiniteSet(DOMAIN e) BY <1>1, FS_Interval
<1>3. f \in Surjection(DOMAIN e, T) BY DEF Surjection
<1>4. IsFiniteSet(T)
  <2> HIDE DEF f, T, e
  <2>1. QED BY <1>2, <1>3, FS_Surjection
<1>5. T \in SUBSET Clean BY <1>1 DEF CleanEvent
<1>6. Extracted(c) = T \ {Blank} BY DEF Extracted
<1> HIDE DEF T
<1>7. Extracted(c) \in SUBSET T BY <1>6
<1>8. QED BY <1>4, <1>5, <1>7, FS_Subset

\* One case for each action of Memory.
LEMMA MemKeeps == MemInvariant /\ [MemNext]_memVars => MemInvariant'
<1> SUFFICES ASSUME MemInvariant, [MemNext]_memVars PROVE MemInvariant' OBVIOUS
<1>1. /\ capture \in [Captures -> [pc : {"idle", "sent", "over"}, scope : Scopes, events : Seq(CleanEvent)]]
      /\ bank \in SUBSET CleanMemory /\ IsFiniteSet(bank)
      /\ wipe \in [Wipes -> WipeStates]
      /\ late \in [Wipes -> SUBSET CleanMemory]
      /\ \A w \in Wipes : WipeStands(w)
  BY DEF MemInvariant
<1>2. ASSUME NEW c \in Captures, BeginCapture(c) PROVE MemInvariant'
  <2>1. PICK scope \in Scopes, text \in Texts :
          capture' = [capture EXCEPT ![c] = [pc |-> IF backend = "native" /\ Sent(text) = <<>> THEN "over" ELSE "sent",
                                             scope |-> scope, events |-> Sent(text)]]
    BY <1>2 DEF BeginCapture
  <2>2. Sent(text) \in Seq(CleanEvent) BY SentIsClean
  <2>3. capture' \in [Captures -> [pc : {"idle", "sent", "over"}, scope : Scopes, events : Seq(CleanEvent)]]
    BY <1>1, <2>1, <2>2
  <2>4. UNCHANGED <<bank, wipe, late>> BY <1>2 DEF BeginCapture
  <2>5. QED BY <1>1, <2>3, <2>4 DEF MemInvariant, WipeStands
<1>3. ASSUME NEW c \in Captures, EndCapture(c) PROVE MemInvariant'
  <2> DEFINE New(facts) == {[scope |-> capture[c].scope, fact |-> f] : f \in facts}
  <2>1. PICK facts \in SUBSET Extracted(c) :
          /\ bank' = bank \cup New(facts)
          /\ late' = [w \in Wipes |-> IF wipe[w].pc = "idle" THEN {} ELSE late[w] \cup New(facts)]
    BY <1>3 DEF EndCapture
  <2>2. capture[c].events \in Seq(CleanEvent) /\ capture[c].scope \in Scopes BY <1>1
  <2>3. IsFiniteSet(facts) /\ facts \subseteq Clean BY <2>2, ExtractedIsClean, FS_Subset
  <2>4. IsFiniteSet(New(facts)) /\ New(facts) \in SUBSET CleanMemory
    <3> DEFINE f == [x \in facts |-> [scope |-> capture[c].scope, fact |-> x]]
    <3>1. f \in Surjection(facts, New(facts)) BY DEF Surjection
    <3>2. New(facts) \in SUBSET CleanMemory BY <2>2, <2>3 DEF CleanMemory
    <3> HIDE DEF f, New
    <3>3. QED BY <2>3, <3>1, <3>2, FS_Surjection
  <2> HIDE DEF New
  <2>5. bank' \in SUBSET CleanMemory /\ IsFiniteSet(bank') BY <1>1, <2>1, <2>4, FS_Union
  <2>6. late' \in [Wipes -> SUBSET CleanMemory] BY <1>1, <2>1, <2>4
  <2>7. capture' \in [Captures -> [pc : {"idle", "sent", "over"}, scope : Scopes, events : Seq(CleanEvent)]]
    <3>1. capture' = [capture EXCEPT ![c].pc = "over", ![c].events = <<>>] /\ <<>> \in Seq(CleanEvent)
      BY <1>3 DEF EndCapture
    <3>2. QED BY <1>1, <3>1
  <2>8. wipe' = wipe BY <1>3 DEF EndCapture
  <2>9. ASSUME NEW w \in Wipes PROVE WipeStands(w)'
    <3>1. WipeStands(w) BY <1>1
    <3>2. Mine(bank') \subseteq Mine(bank) \cup New(facts) BY <2>1 DEF Mine
    <3>3. wipe[w].pc \in {"deleting", "over"} => late'[w] = late[w] \cup New(facts) BY <2>1
    <3>4. QED BY <2>8, <3>1, <3>2, <3>3 DEF WipeStands
  <2>10. QED BY <1>1, <2>5, <2>6, <2>7, <2>8, <2>9 DEF MemInvariant
<1>4. ASSUME NEW w \in Wipes, List(w) PROVE MemInvariant'
  <2> DEFINE mine == {m \in bank : m.scope = "user"}
             begun == [pc |-> "deleting", todo |-> mine, deleted |-> 0, listed |-> Cardinality(mine)]
  <2>1. /\ \/ wipe' = [wipe EXCEPT ![w] = begun]
           \/ wipe' = [wipe EXCEPT ![w].pc = "refused"]
        /\ late' = [late EXCEPT ![w] = {}]
        /\ UNCHANGED <<bank, capture>> /\ wipe[w].pc = "idle"
    BY <1>4 DEF List
  <2>2. mine \in SUBSET bank /\ mine \in SUBSET Mine(CleanMemory) /\ mine = Mine(bank) BY <1>1 DEF Mine
  <2>3. IsFiniteSet(mine) /\ Cardinality(mine) \in Nat
    <3> HIDE DEF mine
    <3>1. QED BY <1>1, <2>2, FS_Subset, FS_CardinalityType
  <2> HIDE DEF mine
  <2>4. begun \in WipeStates BY <2>2, <2>3 DEF WipeStates
  <2>5. wipe[w] \in WipeStates /\ wipe[w].todo = {} BY <1>1, <2>1 DEF WipeStands
  <2>6. wipe' \in [Wipes -> WipeStates] BY <1>1, <2>1, <2>4, <2>5 DEF WipeStates
  <2>7. late' \in [Wipes -> SUBSET CleanMemory] BY <1>1, <2>1
  <2>8. ASSUME NEW v \in Wipes PROVE WipeStands(v)'
    <3>1. WipeStands(v) BY <1>1
    <3>2. CASE v # w
      <4>1. wipe'[v] = wipe[v] /\ late'[v] = late[v] /\ bank' = bank BY <1>1, <2>1, <3>2
      <4>2. QED BY <3>1, <4>1 DEF WipeStands
    <3>3. CASE v = w /\ wipe' = [wipe EXCEPT ![w] = begun]
      <4>1. wipe'[v] = begun /\ bank' = bank BY <1>1, <2>1, <3>3
      <4>2. wipe'[v].todo = mine /\ wipe'[v].deleted = 0 /\ wipe'[v].listed = Cardinality(mine) /\ wipe'[v].pc = "deleting"
        BY <4>1
      <4>3. QED BY <2>2, <2>3, <4>1, <4>2 DEF WipeStands
    <3>4. CASE v = w /\ wipe' = [wipe EXCEPT ![w].pc = "refused"]
      <4>1. wipe'[v].todo = wipe[v].todo /\ wipe'[v].deleted = wipe[v].deleted /\ wipe'[v].listed = wipe[v].listed
            /\ wipe'[v].pc = "refused"
        BY <1>1, <3>4 DEF WipeStates
      <4>2. QED BY <2>5, <3>1, <3>4, <4>1 DEF WipeStands
    <3>5. QED BY <2>1, <3>2, <3>3, <3>4
  <2>9. QED BY <1>1, <2>1, <2>6, <2>7, <2>8 DEF MemInvariant
<1>5. ASSUME NEW w \in Wipes, Delete(w) PROVE MemInvariant'
  <2>1. wipe[w].pc = "deleting" /\ UNCHANGED <<capture, late>> BY <1>5 DEF Delete
  <2>2. PICK m \in wipe[w].todo :
          \/ bank' = bank \ {m} /\ wipe' = [wipe EXCEPT ![w].todo = @ \ {m}, ![w].deleted = @ + 1]
          \/ wipe' = [wipe EXCEPT ![w].todo = @ \ {m}] /\ bank' = bank
    BY <1>5 DEF Delete
  <2>3. wipe[w] \in WipeStates /\ WipeStands(w) BY <1>1
  <2>4. wipe' \in [Wipes -> WipeStates]
    <3>1. /\ wipe[w].todo \ {m} \in SUBSET Mine(CleanMemory) /\ wipe[w].deleted + 1 \in Nat
          /\ wipe[w].deleted \in Nat /\ wipe[w].listed \in Nat
      BY <2>3 DEF WipeStates
    <3>2. \A n \in Nat : [wipe[w] EXCEPT !.todo = @ \ {m}, !.deleted = n] \in WipeStates BY <2>3, <3>1 DEF WipeStates
    <3>3. [wipe[w] EXCEPT !.todo = @ \ {m}] \in WipeStates BY <2>3, <3>1 DEF WipeStates
    <3>4. [wipe[w] EXCEPT !.todo = @ \ {m}, !.deleted = @ + 1] \in WipeStates BY <3>1, <3>2
    <3>5. \/ wipe' = [wipe EXCEPT ![w] = [wipe[w] EXCEPT !.todo = @ \ {m}, !.deleted = @ + 1]]
          \/ wipe' = [wipe EXCEPT ![w] = [wipe[w] EXCEPT !.todo = @ \ {m}]]
      BY <1>1, <2>2
    <3> HIDE DEF WipeStates
    <3>6. QED BY <1>1, <3>3, <3>4, <3>5
  <2>5. bank' \in SUBSET bank BY <2>2
  <2>6. bank' \in SUBSET CleanMemory /\ IsFiniteSet(bank') BY <1>1, <2>5, FS_Subset
  <2>7. ASSUME NEW v \in Wipes PROVE WipeStands(v)'
    <3>1. WipeStands(v) /\ Mine(bank') \subseteq Mine(bank) BY <1>1, <2>5 DEF Mine
    <3>2. CASE v # w
      <4>1. wipe'[v] = wipe[v] /\ late'[v] = late[v] BY <1>1, <2>1, <2>2, <3>2
      <4>2. QED BY <3>1, <4>1 DEF WipeStands
    <3>3. CASE v = w
      <4>1. /\ IsFiniteSet(wipe[w].todo \ {m}) /\ Cardinality(wipe[w].todo \ {m}) = Cardinality(wipe[w].todo) - 1
            /\ Cardinality(wipe[w].todo) \in Nat
        BY <2>3, FS_RemoveElement, FS_CardinalityType DEF WipeStands
      <4>2. /\ wipe'[w].todo = wipe[w].todo \ {m} /\ wipe'[w].pc = "deleting" /\ wipe'[w].listed = wipe[w].listed
            /\ wipe[w].listed \in Nat /\ wipe[w].deleted \in Nat
        BY <1>1, <2>1, <2>2, <2>3 DEF WipeStates
      <4>3. /\ wipe[w].deleted + Cardinality(wipe[w].todo) <= wipe[w].listed
            /\ wipe[w].deleted + Cardinality(wipe[w].todo) = wipe[w].listed
               => Mine(bank) \subseteq late[w] \cup wipe[w].todo
        BY <2>1, <2>3 DEF WipeStands
      <4>4. CASE bank' = bank \ {m} /\ wipe' = [wipe EXCEPT ![w].todo = @ \ {m}, ![w].deleted = @ + 1]
        <5>1. wipe'[w].deleted = wipe[w].deleted + 1 BY <1>1, <2>3, <4>4 DEF WipeStates
        <5>2. wipe'[w].deleted + Cardinality(wipe'[w].todo) = wipe[w].deleted + Cardinality(wipe[w].todo)
          BY <4>1, <4>2, <5>1
        <5>3. Mine(bank') = Mine(bank) \ {m} BY <4>4 DEF Mine
        <5>4. QED BY <2>1, <3>3, <4>1, <4>2, <4>3, <5>2, <5>3 DEF WipeStands
      <4>5. CASE wipe' = [wipe EXCEPT ![w].todo = @ \ {m}]
        <5>1. wipe'[w].deleted = wipe[w].deleted BY <1>1, <2>3, <4>5 DEF WipeStates
        <5>2. /\ wipe'[w].deleted + Cardinality(wipe'[w].todo) <= wipe'[w].listed
              /\ wipe'[w].deleted + Cardinality(wipe'[w].todo) # wipe'[w].listed
              /\ IsFiniteSet(wipe'[w].todo)
          BY <4>1, <4>2, <4>3, <5>1
        <5>3. QED BY <3>3, <4>2, <5>2 DEF WipeStands
      <4>6. QED BY <2>2, <4>4, <4>5
    <3>4. QED BY <3>2, <3>3
  <2>8. QED BY <1>1, <2>1, <2>4, <2>6, <2>7 DEF MemInvariant
<1>6. ASSUME NEW w \in Wipes, WipeEnds(w) PROVE MemInvariant'
  <2>1. /\ wipe[w].pc = "deleting" /\ wipe[w].todo = {} /\ wipe' = [wipe EXCEPT ![w].pc = "over"]
        /\ UNCHANGED <<bank, capture, late>>
    BY <1>6 DEF WipeEnds
  <2>2. wipe' \in [Wipes -> WipeStates] BY <1>1, <2>1 DEF WipeStates
  <2>3. ASSUME NEW v \in Wipes PROVE WipeStands(v)'
    <3>1. WipeStands(v) BY <1>1
    <3>2. CASE v # w
      <4>1. wipe'[v] = wipe[v] /\ late'[v] = late[v] /\ bank' = bank BY <1>1, <2>1, <3>2
      <4>2. QED BY <3>1, <4>1 DEF WipeStands
    <3>3. CASE v = w
      <4>1. /\ wipe'[v].todo = wipe[v].todo /\ wipe'[v].deleted = wipe[v].deleted /\ wipe'[v].listed = wipe[v].listed
            /\ wipe'[v].pc = "over"
        BY <1>1, <2>1, <3>3 DEF WipeStates
      <4>2. QED BY <2>1, <3>1, <3>3, <4>1 DEF WipeStands
    <3>4. QED BY <3>2, <3>3
  <2>4. QED BY <1>1, <2>1, <2>2, <2>3 DEF MemInvariant
<1>7. CASE DeleteFact
  <2>1. bank' \in SUBSET bank /\ UNCHANGED <<capture, wipe, late>> BY <1>7 DEF DeleteFact
  <2>2. bank' \in SUBSET CleanMemory /\ IsFiniteSet(bank') /\ Mine(bank') \subseteq Mine(bank)
    BY <1>1, <2>1, FS_Subset DEF Mine
  <2>3. QED BY <1>1, <2>1, <2>2 DEF MemInvariant, WipeStands
<1>8. CASE UNCHANGED memVars BY <1>1, <1>8 DEF MemInvariant, WipeStands, memVars
<1>9. QED BY <1>2, <1>3, <1>4, <1>5, <1>6, <1>7, <1>8 DEF MemNext

\* A wipe deletes memories of the user scope alone.
LEMMA DeletionsAreOfTheUser ==
  ASSUME MemInvariant, NEW w \in Wipes, Delete(w)
  PROVE  {m \in bank' : m.scope = "agent"} = {m \in bank : m.scope = "agent"}
<1>1. PICK m \in wipe[w].todo : bank' = bank \ {m} \/ bank' = bank BY DEF Delete
<1>2. m.scope = "user" BY DEF MemInvariant, WipeStates, Mine
<1>3. QED BY <1>1, <1>2

\* What users say is stored without what is personal in it, and a wipe that
\* reports that it is complete is.
THEOREM MemoriesAreAlwaysSafe == MemSpec => MemoriesAreSafe
<1>1. MemInvariant => MemTypeOK /\ NothingPersonalIsStored /\ WipedStaysGone
  <2> SUFFICES ASSUME MemInvariant PROVE MemTypeOK /\ NothingPersonalIsStored /\ WipedStaysGone OBVIOUS
  <2>1. MemTypeOK BY DEF MemInvariant, MemTypeOK, WipeStands, WipeStates, CleanMemory, Clean
  <2>2. NothingPersonalIsStored BY DEF MemInvariant, NothingPersonalIsStored, CleanMemory, Clean
  <2>3. WipedStaysGone
    <3> SUFFICES ASSUME NEW w \in Wipes, wipe[w].pc = "over", wipe[w].deleted = wipe[w].listed
                 PROVE  {m \in bank : m.scope = "user"} \subseteq late[w]
      BY DEF WipedStaysGone
    <3>1. WipeStands(w) /\ wipe[w].deleted \in Nat BY DEF MemInvariant, WipeStates
    <3>2. wipe[w].todo = {} /\ Cardinality({}) = 0 BY <3>1, FS_EmptySet DEF WipeStands
    <3>3. QED BY <3>1, <3>2 DEF WipeStands, Mine
  <2>4. QED BY <2>1, <2>2, <2>3
<1>2. MemInvariant /\ [MemNext]_memVars => [\A w \in Wipes : Delete(w) =>
          {m \in bank' : m.scope = "agent"} = {m \in bank : m.scope = "agent"}]_memVars
  BY DeletionsAreOfTheUser
<1>3. QED BY <1>1, <1>2, MemStarts, MemKeeps, PTL DEF MemSpec, MemoriesAreSafe, WipesSpareAgents
=============================================================================
