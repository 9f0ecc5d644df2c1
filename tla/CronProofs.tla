----------------------------- MODULE CronProofs -----------------------------
(***************************************************************************)
(* Counters and alerts follow the failures, and only a lost update undoes  *)
(* an edit or a count: for any crons, triggers, threads, threshold and     *)
(* faults, however executions and edits overlap.  One request at a time,   *)
(* streaks, one-shots and cooldowns are exact.                             *)
(*                                                                         *)
(* A stored counter was computed from a copy that somebody read, so the    *)
(* invariant IInv bounds the counter of every copy that is still held.     *)
(***************************************************************************)
EXTENDS Cron, TLAPS

\* A copy of c claims no more failures than there were.
Honest(d, c) == d \in CronDoc /\ d.errors <= hist[c].failures

\* What an execution carries across its awaits; a failing dispatch has been
\* observed, but is not in the copy yet.
ExecsHonest ==
  \A x \in Triggers : exec[x].pc # "idle" =>
    /\ exec[x].cron \in Crons /\ Honest(exec[x].seen, exec[x].cron)
    /\ exec[x].pc = "record_failure" => exec[x].seen.errors < hist[exec[x].cron].failures
    /\ exec[x].pc = "alert" => exec[x].seen.errors >= After

SameCounters(d, e) == d.errors = e.errors /\ d.alertAt = e.alertAt

\* What an edit is about to store differs from its copy in the edited fields.
EditsHonest ==
  \A h \in Threads :
    /\ route[h].pc # "idle" => route[h].cron \in Crons
    /\ route[h].pc = "set" =>
         /\ Honest(route[h].seen, route[h].cron) /\ route[h].pending \in CronDoc
         /\ SameCounters(route[h].pending, route[h].seen)

IInv == TypeOK /\ ErrorsNeverOvercount /\ ExecsHonest /\ EditsHonest

\* The history only grows.
Grows == \A c \in Crons : hist'[c].failures >= hist[c].failures

-----------------------------------------------------------------------------
(* Copies.                                                                 *)

\* What an execution writes is a document; only counters differ.
LEMMA CopiesAreDocuments ==
  ASSUME TypeOK, NEW d \in CronDoc
  PROVE  /\ RecordRun(d) \in CronDoc /\ RecordRun(d).errors = 0
         /\ RecordFailure(d) \in CronDoc /\ RecordFailure(d).errors = d.errors + 1
         /\ Alerted(d) \in CronDoc /\ Alerted(d).errors = d.errors
         /\ \A e \in {RecordRun(d), RecordFailure(d), Alerted(d)} :
              <<e.enabled, e.once, e.kind, e.alert, e.assignee>>
                = <<d.enabled, d.once, d.kind, d.alert, d.assignee>>
<1>1. now \in Int
  BY CronAssumption DEF TypeOK
<1>2. d = [enabled |-> d.enabled, once |-> d.once, alert |-> d.alert, assignee |-> d.assignee,
           kind |-> d.kind, errors |-> d.errors, alertAt |-> d.alertAt]
      /\ d.errors \in Nat
  BY DEF CronDoc
<1>3. RecordRun(d) = [enabled |-> d.enabled, once |-> d.once, alert |-> d.alert, assignee |-> d.assignee,
                      kind |-> d.kind, errors |-> 0, alertAt |-> d.alertAt]
  BY <1>2 DEF RecordRun, CronDoc
<1>4. RecordFailure(d) = [enabled |-> d.enabled, once |-> d.once, alert |-> d.alert, assignee |-> d.assignee,
                          kind |-> d.kind, errors |-> d.errors + 1, alertAt |-> d.alertAt]
  BY <1>2 DEF RecordFailure, CronDoc
<1>5. Alerted(d) = [enabled |-> d.enabled, once |-> d.once, alert |-> d.alert, assignee |-> d.assignee,
                    kind |-> d.kind, errors |-> d.errors, alertAt |-> now]
  BY <1>2 DEF Alerted, CronDoc
<1> QED
  BY <1>1, <1>2, <1>3, <1>4, <1>5 DEF CronDoc

\* Fired counts one failure, or none.
LEMMA FiredCounts ==
  ASSUME TypeOK, NEW x \in Triggers, exec[x].cron \in Crons, NEW ok \in BOOLEAN, Fired(x, ok)
  PROVE  /\ hist' \in [Crons -> History] /\ Grows
         /\ ~ok => hist'[exec[x].cron].failures = hist[exec[x].cron].failures + 1
<1> DEFINE c == exec[x].cron
           h == hist[c]
<1>1. hist \in [Crons -> History] /\ h \in History
  BY DEF TypeOK
<1>2. hist'[c] = [failures |-> IF ok THEN h.failures ELSE h.failures + 1,
                  streak |-> IF ok THEN 0 ELSE h.streak + 1,
                  shots |-> IF ok /\ exec[x].seen.once /\ h.shots < 2 THEN h.shots + 1 ELSE h.shots,
                  alertAt |-> h.alertAt]
      /\ (\A b \in Crons : b # c => hist'[b] = hist[b])
      /\ hist' = [b \in Crons |-> hist'[b]]
  BY <1>1 DEF Fired, History
<1>3. hist'[c] \in History
  BY <1>1, <1>2 DEF History
<1>4. \A b \in Crons : hist[b].failures \in Nat
  BY <1>1 DEF History
<1> QED
  BY <1>1, <1>2, <1>3, <1>4 DEF Grows

\* A copy that was honest stays so, as the history grows.
LEMMA HonestStays ==
  ASSUME Grows, hist \in [Crons -> History], hist' \in [Crons -> History],
         NEW c \in Crons, NEW d, Honest(d, c)
  PROVE  d \in CronDoc /\ d.errors <= hist'[c].failures
BY DEF Honest, Grows, History, CronDoc

-----------------------------------------------------------------------------
(* Steps.                                                                  *)

LEMMA InitHonest == Init => IInv
<1> SUFFICES ASSUME Init PROVE IInv
  OBVIOUS
<1>1. TypeOK
  BY CronAssumption DEF Init, TypeOK, NoExec, NoRoute, ExecOp, RouteOp, History
<1>2. ErrorsNeverOvercount /\ ExecsHonest /\ EditsHonest
  BY DEF Init, NoExec, NoRoute, ErrorsNeverOvercount, ExecsHonest, EditsHonest
<1> QED
  BY <1>1, <1>2 DEF IInv

\* The stored document of one cron is replaced by an honest one, or removed.
Stores(c, d) == crons' = [crons EXCEPT ![c] = d] /\ (d = None \/ Honest(d, c))

\* What such a step does to the documents.
LEMMA StoresKeeps ==
  ASSUME IInv, NEW c \in Crons, NEW d, Stores(c, d), UNCHANGED hist
  PROVE  crons' \in [Crons -> CronDoc \cup {None}] /\ ErrorsNeverOvercount'
BY DEF IInv, TypeOK, Stores, Honest, ErrorsNeverOvercount

\* A step of the execution x to o, where everything else holds already.
LEMMA ExecMoves ==
  ASSUME IInv, NEW x \in Triggers, NEW o \in ExecOp, exec' = [exec EXCEPT ![x] = o],
         hist' \in [Crons -> History], Grows,
         o.pc # "idle" =>
           /\ o.cron \in Crons /\ o.seen \in CronDoc /\ o.seen.errors <= hist'[o.cron].failures
           /\ o.pc = "record_failure" => o.seen.errors < hist'[o.cron].failures
           /\ o.pc = "alert" => o.seen.errors >= After
  PROVE  exec' \in [Triggers -> ExecOp] /\ ExecsHonest'
<1>1. exec \in [Triggers -> ExecOp] /\ hist \in [Crons -> History]
  BY DEF IInv, TypeOK
<1>2. ASSUME NEW y \in Triggers, exec'[y].pc # "idle"
      PROVE  /\ exec'[y].cron \in Crons /\ exec'[y].seen \in CronDoc
             /\ exec'[y].seen.errors <= hist'[exec'[y].cron].failures
             /\ exec'[y].pc = "record_failure" => exec'[y].seen.errors < hist'[exec'[y].cron].failures
             /\ exec'[y].pc = "alert" => exec'[y].seen.errors >= After
  <2>1. CASE y = x
    BY <1>1, <1>2, <2>1
  <2>2. CASE y # x
    <3>1. exec'[y] = exec[y]
      BY <1>1, <2>2
    <3>2. /\ exec[y].cron \in Crons /\ Honest(exec[y].seen, exec[y].cron)
          /\ exec[y].pc = "record_failure" => exec[y].seen.errors < hist[exec[y].cron].failures
          /\ exec[y].pc = "alert" => exec[y].seen.errors >= After
      BY <1>2, <3>1 DEF IInv, ExecsHonest
    <3>3. exec[y].seen.errors \in Nat /\ hist[exec[y].cron].failures \in Nat
          /\ hist'[exec[y].cron].failures \in Nat
          /\ hist'[exec[y].cron].failures >= hist[exec[y].cron].failures
      BY <1>1, <3>2 DEF Honest, CronDoc, History, Grows
    <3> QED
      BY <3>1, <3>2, <3>3 DEF Honest
  <2> QED
    BY <2>1, <2>2
<1>3. exec' \in [Triggers -> ExecOp]
  BY <1>1
<1> QED
  BY <1>2, <1>3 DEF ExecsHonest, Honest

\* Edits in progress stay honest while their operations stay.
LEMMA EditsStay ==
  ASSUME IInv, UNCHANGED route, hist' \in [Crons -> History], Grows
  PROVE  EditsHonest'
<1> SUFFICES ASSUME NEW h \in Threads, route[h].pc = "set"
             PROVE  Honest(route[h].seen, route[h].cron)'
  BY DEF IInv, EditsHonest, SameCounters
<1>1. route[h].cron \in Crons /\ Honest(route[h].seen, route[h].cron)
  BY DEF IInv, EditsHonest
<1> QED
  BY <1>1, HonestStays DEF IInv, TypeOK, Honest

\* Executions in progress stay honest while their operations stay.
LEMMA ExecsStay ==
  ASSUME IInv, UNCHANGED exec, hist' \in [Crons -> History], Grows
  PROVE  ExecsHonest'
<1> SUFFICES ASSUME NEW x \in Triggers, exec[x].pc # "idle"
             PROVE  /\ Honest(exec[x].seen, exec[x].cron)'
                    /\ exec[x].pc = "record_failure" => exec[x].seen.errors < hist'[exec[x].cron].failures
  BY DEF IInv, ExecsHonest
<1>1. exec[x].cron \in Crons /\ Honest(exec[x].seen, exec[x].cron)
      /\ (exec[x].pc = "record_failure" => exec[x].seen.errors < hist[exec[x].cron].failures)
  BY DEF IInv, ExecsHonest
<1>2. exec[x].seen.errors \in Nat /\ hist[exec[x].cron].failures \in Nat
      /\ hist'[exec[x].cron].failures \in Nat
      /\ hist'[exec[x].cron].failures >= hist[exec[x].cron].failures
  BY <1>1 DEF IInv, TypeOK, Honest, CronDoc, History, Grows
<1> QED
  BY <1>1, <1>2 DEF Honest

\* The documents stay honest while they stay.
LEMMA DocumentsStay ==
  ASSUME IInv, UNCHANGED crons, hist' \in [Crons -> History], Grows
  PROVE  ErrorsNeverOvercount'
<1> SUFFICES ASSUME NEW c \in Crons, crons[c] # None
             PROVE  crons[c].errors <= hist'[c].failures
  BY DEF ErrorsNeverOvercount
<1>1. Honest(crons[c], c)
  BY DEF IInv, TypeOK, ErrorsNeverOvercount, Honest
<1> QED
  BY <1>1, HonestStays DEF IInv, TypeOK

\* A history that stays grows, in the weak sense.
LEMMA NoGrowth ==
  ASSUME TypeOK, UNCHANGED hist
  PROVE  Grows /\ hist' \in [Crons -> History]
BY DEF TypeOK, Grows, History

LEMMA ExecStep ==
  ASSUME IInv, NEW x \in Triggers, Execute(x) \/ \E c \in Crons : Trigger(x, c)
  PROVE  IInv'
<1> DEFINE o == exec[x]
<1>0. TypeOK /\ o \in ExecOp /\ hist \in [Crons -> History]
      /\ crons \in [Crons -> CronDoc \cup {None}]
  BY DEF IInv, TypeOK
<1>1. ASSUME NEW c \in Crons, Trigger(x, c)
      PROVE  IInv'
  <2> DEFINE n == [pc |-> "dispatch", cron |-> c, seen |-> crons[c]]
  <2>1. crons[c] \in CronDoc /\ crons[c].errors <= hist[c].failures
    BY <1>0, <1>1 DEF Trigger, Readable, IInv, ErrorsNeverOvercount
  <2>2. n \in ExecOp /\ exec' = [exec EXCEPT ![x] = n] /\ UNCHANGED <<crons, route, hist>>
    BY <2>1, <1>1 DEF Trigger, ExecOp
  <2>3. Grows /\ hist' \in [Crons -> History]
    BY <2>2, <1>0, NoGrowth
  <2>4. exec' \in [Triggers -> ExecOp] /\ ExecsHonest'
    BY <2>1, <2>2, <2>3, ExecMoves
  <2>5. TypeOK'
    BY <1>1, <2>2, <2>4 DEF IInv, TypeOK, Trigger
  <2> QED
    BY <2>2, <2>3, <2>4, <2>5, EditsStay, DocumentsStay DEF IInv
<1> SUFFICES ASSUME Execute(x), o.pc # "idle" PROVE IInv'
  BY <1>1 DEF Execute, DispatchTask, DispatchEvent, WriteRun, Delivered, WriteFailure, AlertSent
<1>2. /\ o.cron \in Crons /\ o.seen \in CronDoc /\ o.seen.errors <= hist[o.cron].failures
      /\ o.pc = "record_failure" => o.seen.errors < hist[o.cron].failures
      /\ o.pc = "alert" => o.seen.errors >= After
      /\ o.seen.errors \in Nat /\ hist[o.cron].failures \in Nat
  BY <1>0 DEF IInv, ExecsHonest, Honest, CronDoc, History
\* The operation at another place, with its copy.
<1> DEFINE At(pc) == [o EXCEPT !.pc = pc]
<1>3. \A pc \in {"record_run", "record_failure", "deliver", "alert"} :
        /\ At(pc) \in ExecOp /\ At(pc).pc = pc /\ At(pc).cron = o.cron /\ At(pc).seen = o.seen
        /\ Go(x, pc) => exec' = [exec EXCEPT ![x] = At(pc)]
  BY <1>0 DEF ExecOp, Go, IInv, TypeOK
<1>4. End(x) => /\ exec' = [exec EXCEPT ![x] = NoExec]
                /\ NoExec \in ExecOp /\ NoExec.pc = "idle"
  BY DEF End, NoExec, ExecOp
<1>5. CASE DispatchTask(x)
  <2>1. UNCHANGED <<crons, freshCrons, route, queue, target, unused, now>>
    BY <1>5 DEF DispatchTask
  <2>2. CASE Go(x, "record_run") /\ Fired(x, TRUE)
    <3>1. Grows /\ hist' \in [Crons -> History]
      BY <1>0, <1>2, <2>2, FiredCounts
    <3>2. hist'[o.cron].failures \in Nat /\ hist'[o.cron].failures >= hist[o.cron].failures
      BY <3>1, <1>2 DEF Grows, History
    <3>3. exec' \in [Triggers -> ExecOp] /\ ExecsHonest'
      <4>1. /\ At("record_run") \in ExecOp /\ At("record_run").pc = "record_run"
            /\ At("record_run").cron = o.cron /\ At("record_run").seen = o.seen
            /\ exec' = [exec EXCEPT ![x] = At("record_run")]
        BY <1>3, <2>2
      <4>2. o.seen.errors <= hist'[o.cron].failures
        BY <1>2, <3>2
      <4> HIDE DEF At
      <4> QED
        BY <1>2, <3>1, <4>1, <4>2, ExecMoves
    <3>4. TypeOK'
      BY <2>1, <3>1, <3>3 DEF IInv, TypeOK
    <3> QED
      BY <2>1, <3>1, <3>3, <3>4, EditsStay, DocumentsStay DEF IInv
  <2>3. CASE Go(x, "record_failure") /\ Fired(x, FALSE)
    <3>1. Grows /\ hist' \in [Crons -> History]
          /\ hist'[o.cron].failures = hist[o.cron].failures + 1
      BY <1>0, <1>2, <2>3, FiredCounts
    <3>2. exec' \in [Triggers -> ExecOp] /\ ExecsHonest'
      <4>1. /\ At("record_failure") \in ExecOp /\ At("record_failure").pc = "record_failure"
            /\ At("record_failure").cron = o.cron /\ At("record_failure").seen = o.seen
            /\ exec' = [exec EXCEPT ![x] = At("record_failure")]
        BY <1>3, <2>3
      <4>2. o.seen.errors < hist'[o.cron].failures /\ o.seen.errors <= hist'[o.cron].failures
        BY <1>2, <3>1
      <4> HIDE DEF At
      <4> QED
        BY <1>2, <3>1, <4>1, <4>2, ExecMoves
    <3>3. TypeOK'
      BY <2>1, <3>1, <3>2 DEF IInv, TypeOK
    <3> QED
      BY <2>1, <3>1, <3>2, <3>3, EditsStay, DocumentsStay DEF IInv
  <2> QED
    BY <1>5, <2>2, <2>3 DEF DispatchTask
<1>6. CASE DispatchEvent(x)
  <2>1. /\ UNCHANGED <<crons, freshCrons, route, now>> /\ Go(x, "record_run")
        /\ \E ok \in BOOLEAN : Fired(x, ok)
    BY <1>6 DEF DispatchEvent
  <2>2. Grows /\ hist' \in [Crons -> History]
    BY <1>0, <1>2, <2>1, FiredCounts
  <2>3. hist'[o.cron].failures \in Nat /\ hist'[o.cron].failures >= hist[o.cron].failures
    BY <2>2, <1>2 DEF Grows, History
  <2>4. exec' \in [Triggers -> ExecOp] /\ ExecsHonest'
    <3>1. /\ At("record_run") \in ExecOp /\ At("record_run").pc = "record_run"
          /\ At("record_run").cron = o.cron /\ At("record_run").seen = o.seen
          /\ exec' = [exec EXCEPT ![x] = At("record_run")]
      BY <1>3, <2>1
    <3>2. o.seen.errors <= hist'[o.cron].failures
      BY <1>2, <2>3
    <3> HIDE DEF At
    <3> QED
      BY <1>2, <2>2, <3>1, <3>2, ExecMoves
  <2>5. queue' \subseteq Events /\ unused' \subseteq Events /\ target' \in [Events -> Agents \cup {None}]
    <3>1. o.seen.assignee \in Agents
      BY <1>2 DEF CronDoc
    <3> QED
      BY <1>6, <3>1 DEF DispatchEvent, IInv, TypeOK
  <2>6. TypeOK'
    BY <2>1, <2>2, <2>4, <2>5 DEF IInv, TypeOK
  <2> QED
    BY <2>1, <2>2, <2>4, <2>6, EditsStay, DocumentsStay DEF IInv
<1>7. CASE WriteRun(x)
  <2> DEFINE d == RecordRun(o.seen)
  <2>1. UNCHANGED <<freshCrons, route, queue, target, unused, now, hist>>
    BY <1>7 DEF WriteRun
  <2>2. Grows /\ hist' \in [Crons -> History]
    BY <2>1, <1>0, NoGrowth
  <2>3. Honest(d, o.cron)
    BY <1>0, <1>2, CopiesAreDocuments DEF Honest
  <2>4. exec' \in [Triggers -> ExecOp] /\ ExecsHonest'
    <3>1. CASE Go(x, "deliver")
      BY <1>2, <1>3, <2>1, <2>2, <3>1, ExecMoves
    <3>2. CASE End(x)
      BY <1>4, <2>2, <3>2, ExecMoves
    <3> QED
      BY <1>7, <3>1, <3>2 DEF WriteRun
  <2>5. crons' \in [Crons -> CronDoc \cup {None}] /\ ErrorsNeverOvercount'
    <3>1. CASE crons' = [crons EXCEPT ![o.cron] = d]
      BY <1>2, <2>1, <2>3, <3>1, StoresKeeps DEF Stores
    <3>2. CASE UNCHANGED crons
      BY <1>0, <2>2, <3>2, DocumentsStay
    <3> QED
      BY <1>7, <3>1, <3>2 DEF WriteRun
  <2>6. TypeOK'
    BY <2>1, <2>2, <2>4, <2>5 DEF IInv, TypeOK
  <2> QED
    BY <2>1, <2>2, <2>4, <2>5, <2>6, EditsStay DEF IInv
<1>8. CASE Delivered(x)
  <2>1. UNCHANGED <<freshCrons, route, queue, target, unused, now, hist>>
    BY <1>8 DEF Delivered
  <2>2. Grows /\ hist' \in [Crons -> History]
    BY <2>1, <1>0, NoGrowth
  <2>3. exec' \in [Triggers -> ExecOp] /\ ExecsHonest'
    BY <1>4, <1>8, <2>2, ExecMoves DEF Delivered
  <2>4. crons' \in [Crons -> CronDoc \cup {None}] /\ ErrorsNeverOvercount'
    <3>1. CASE crons' = [crons EXCEPT ![o.cron] = None]
      BY <1>2, <2>1, <3>1, StoresKeeps DEF Stores
    <3>2. CASE UNCHANGED crons
      BY <1>0, <2>2, <3>2, DocumentsStay
    <3> QED
      BY <1>8, <3>1, <3>2 DEF Delivered
  <2>5. TypeOK'
    BY <2>1, <2>2, <2>3, <2>4 DEF IInv, TypeOK
  <2> QED
    BY <2>1, <2>2, <2>3, <2>4, <2>5, EditsStay DEF IInv
<1>9. CASE WriteFailure(x)
  <2> DEFINE d == RecordFailure(o.seen)
             n == [o EXCEPT !.pc = "alert", !.seen = d]
  <2>1. /\ o.pc = "record_failure"
        /\ UNCHANGED <<freshCrons, route, queue, target, unused, now>>
    BY <1>9 DEF WriteFailure
  <2>2. d \in CronDoc /\ d.errors = o.seen.errors + 1 /\ Honest(d, o.cron)
    BY <1>0, <1>2, <2>1, CopiesAreDocuments DEF Honest
  <2>3. Grows /\ hist' \in [Crons -> History] /\ \A c \in Crons : hist'[c].failures = hist[c].failures
    <3>1. CASE UNCHANGED hist
      BY <1>0, <3>1, NoGrowth
    <3>2. CASE hist' = [hist EXCEPT ![o.cron].alertAt = now]
      <4>1. now \in Int
        BY CronAssumption DEF IInv, TypeOK
      <4>2. hist'[o.cron] = [failures |-> hist[o.cron].failures, streak |-> hist[o.cron].streak,
                             shots |-> hist[o.cron].shots, alertAt |-> now]
            /\ hist' = [c \in Crons |-> IF c = o.cron THEN hist'[c] ELSE hist[c]]
        BY <1>0, <1>2, <3>2 DEF History
      <4> QED
        BY <1>0, <1>2, <4>1, <4>2 DEF History, Grows
    <3> QED
      BY <1>9, <3>1, <3>2 DEF WriteFailure
  <2>4. exec' \in [Triggers -> ExecOp] /\ ExecsHonest'
    <3>1. CASE AlertDue(d) /\ exec' = [exec EXCEPT ![x].pc = "alert", ![x].seen = d]
      <4>1. n \in ExecOp /\ n.pc = "alert" /\ n.cron = o.cron /\ n.seen = d
            /\ exec' = [exec EXCEPT ![x] = n]
        BY <1>0, <2>2, <3>1 DEF ExecOp, IInv, TypeOK
      <4>2. d.errors >= After /\ d.errors <= hist'[o.cron].failures
        BY <1>2, <2>2, <2>3, <3>1 DEF AlertDue, Honest
      <4> QED
        BY <1>2, <2>2, <2>3, <4>1, <4>2, ExecMoves
    <3>2. CASE End(x)
      BY <1>4, <2>3, <3>2, ExecMoves
    <3> QED
      BY <1>9, <3>1, <3>2 DEF WriteFailure
  <2>5. crons' \in [Crons -> CronDoc \cup {None}] /\ ErrorsNeverOvercount'
    <3>1. CASE crons' = [crons EXCEPT ![o.cron] = d]
      BY <1>0, <1>2, <2>2, <2>3, <3>1 DEF IInv, ErrorsNeverOvercount, Honest
    <3>2. CASE UNCHANGED crons
      BY <1>0, <2>3, <3>2, DocumentsStay
    <3> QED
      BY <1>9, <3>1, <3>2 DEF WriteFailure
  <2>6. TypeOK'
    BY <2>1, <2>3, <2>4, <2>5 DEF IInv, TypeOK
  <2> QED
    BY <2>1, <2>3, <2>4, <2>5, <2>6, EditsStay DEF IInv
<1>10. CASE AlertSent(x)
  <2>1. UNCHANGED <<freshCrons, route, queue, target, unused, now, hist>>
    BY <1>10 DEF AlertSent
  <2>2. Grows /\ hist' \in [Crons -> History]
    BY <2>1, <1>0, NoGrowth
  <2>3. Honest(Alerted(o.seen), o.cron)
    BY <1>0, <1>2, CopiesAreDocuments DEF Honest
  <2>4. exec' \in [Triggers -> ExecOp] /\ ExecsHonest'
    BY <1>4, <1>10, <2>2, ExecMoves DEF AlertSent
  <2>5. crons' \in [Crons -> CronDoc \cup {None}] /\ ErrorsNeverOvercount'
    <3>1. CASE crons' = [crons EXCEPT ![o.cron] = Alerted(o.seen)]
      BY <1>2, <2>1, <2>3, <3>1, StoresKeeps DEF Stores
    <3>2. CASE UNCHANGED crons
      BY <1>0, <2>2, <3>2, DocumentsStay
    <3> QED
      BY <1>10, <3>1, <3>2 DEF AlertSent
  <2>6. TypeOK'
    BY <2>1, <2>2, <2>4, <2>5 DEF IInv, TypeOK
  <2> QED
    BY <2>1, <2>2, <2>4, <2>5, <2>6, EditsStay DEF IInv
<1> QED
  BY <1>5, <1>6, <1>7, <1>8, <1>9, <1>10 DEF Execute

\* A step of the edit h to o, where everything else holds already.
LEMMA EditMoves ==
  ASSUME IInv, NEW h \in Threads, NEW o \in RouteOp, route' = [route EXCEPT ![h] = o],
         UNCHANGED hist,
         o.pc # "idle" => o.cron \in Crons,
         o.pc = "set" => Honest(o.seen, o.cron) /\ o.pending \in CronDoc /\ SameCounters(o.pending, o.seen)
  PROVE  route' \in [Threads -> RouteOp] /\ EditsHonest'
<1>1. route \in [Threads -> RouteOp]
  BY DEF IInv, TypeOK
<1>2. \A k \in Threads : route'[k] = IF k = h THEN o ELSE route[k]
  BY <1>1
<1>3. EditsHonest'
  BY <1>2 DEF IInv, EditsHonest, Honest, SameCounters
<1> QED
  BY <1>1, <1>3

\* A write that is prepared from the stored document.
LEMMA PreparedWrite ==
  ASSUME IInv, NEW h \in Threads, NEW c \in Crons, crons[c] \in CronDoc, NEW d \in CronDoc,
         SameCounters(d, crons[c]), WillWrite(h, c, d), UNCHANGED hist
  PROVE  route' \in [Threads -> RouteOp] /\ EditsHonest'
<1> DEFINE o == [pc |-> "set", cron |-> c, enable |-> FALSE, seen |-> crons[c], pending |-> d]
<1>1. o \in RouteOp /\ route' = [route EXCEPT ![h] = o]
  BY DEF WillWrite, RouteOp
<1>2. Honest(crons[c], c)
  <2>1. crons[c] # None => crons[c].errors <= hist[c].failures
    BY DEF IInv, ErrorsNeverOvercount
  <2> QED
    BY <2>1, NoneIsNoDocument DEF Honest
<1> QED
  BY <1>1, <1>2, EditMoves

LEMMA EditStep ==
  ASSUME IInv, NEW h \in Threads, BeginRoute(h) \/ PauseOrResume(h) \/ RouteWrite(h)
  PROVE  IInv'
<1> DEFINE o == route[h]
<1>0. TypeOK /\ o \in RouteOp /\ hist \in [Crons -> History]
      /\ crons \in [Crons -> CronDoc \cup {None}] /\ route \in [Threads -> RouteOp]
  BY DEF IInv, TypeOK
<1>1. UNCHANGED <<exec, queue, target, unused, now, hist>>
  BY DEF BeginRoute, Create, Update, Toggle, Delete, PauseOrResume, RouteWrite
<1>2. Grows /\ hist' \in [Crons -> History]
  BY <1>0, <1>1, NoGrowth
<1>3. ExecsHonest'
  BY <1>1, <1>2, ExecsStay
<1>4. SUFFICES /\ crons' \in [Crons -> CronDoc \cup {None}] /\ ErrorsNeverOvercount'
               /\ route' \in [Threads -> RouteOp] /\ EditsHonest'
               /\ freshCrons' \subseteq Crons
  BY <1>1, <1>2, <1>3 DEF IInv, TypeOK
<1>5. ASSUME NEW c \in Crons, NEW on \in BOOLEAN, NEW once \in BOOLEAN, NEW alert \in BOOLEAN,
             NEW kind \in Kinds \ {"malformed"}, NEW a \in Agents, Create(h, c, on, once, alert, kind, a)
      PROVE  /\ crons' \in [Crons -> CronDoc \cup {None}] /\ ErrorsNeverOvercount'
             /\ route' \in [Threads -> RouteOp] /\ EditsHonest'
             /\ freshCrons' \subseteq Crons
  <2> DEFINE d == [enabled |-> on, once |-> once, alert |-> alert, assignee |-> a, kind |-> kind,
                   errors |-> 0, alertAt |-> -1]
  <2>1. Stores(c, d)
    BY <1>0, <1>5, CronAssumption DEF Create, Stores, Honest, CronDoc, History
  <2>2. UNCHANGED route /\ freshCrons' \subseteq Crons
    BY <1>0, <1>5 DEF Create, TypeOK
  <2> QED
    BY <1>0, <1>1, <1>2, <2>1, <2>2, StoresKeeps, EditsStay
<1>6. ASSUME NEW c \in Crons, NEW on \in BOOLEAN, NEW once \in BOOLEAN, NEW alert \in BOOLEAN,
             NEW kind \in Kinds, NEW a \in Agents, Update(h, c, on, once, alert, kind, a)
      PROVE  /\ crons' \in [Crons -> CronDoc \cup {None}] /\ ErrorsNeverOvercount'
             /\ route' \in [Threads -> RouteOp] /\ EditsHonest'
             /\ freshCrons' \subseteq Crons
  <2> DEFINE d == [crons[c] EXCEPT !.enabled = on, !.once = once, !.alert = alert,
                                   !.kind = kind, !.assignee = a]
  <2>1. crons[c] \in CronDoc /\ WillWrite(h, c, d) /\ UNCHANGED <<crons, freshCrons>>
    BY <1>0, <1>6 DEF Update, Readable
  <2>2. d \in CronDoc /\ SameCounters(d, crons[c])
    BY <2>1, CronAssumption DEF CronDoc, SameCounters
  <2> QED
    BY <1>0, <1>1, <1>2, <2>1, <2>2, PreparedWrite, DocumentsStay DEF TypeOK
<1>7. ASSUME NEW c \in Crons, Toggle(h, c)
      PROVE  /\ crons' \in [Crons -> CronDoc \cup {None}] /\ ErrorsNeverOvercount'
             /\ route' \in [Threads -> RouteOp] /\ EditsHonest'
             /\ freshCrons' \subseteq Crons
  <2> DEFINE n == [NoRoute EXCEPT !.pc = "get", !.cron = c, !.enable = ~crons[c].enabled]
  <2>1. n \in RouteOp /\ n.pc = "get" /\ n.cron = c
    BY DEF NoRoute, RouteOp
  <2>2. route' = [route EXCEPT ![h] = n] /\ UNCHANGED <<crons, freshCrons>>
    BY <1>7 DEF Toggle
  <2>3. route' \in [Threads -> RouteOp] /\ EditsHonest'
    BY <1>1, <2>1, <2>2, EditMoves
  <2> QED
    BY <1>0, <1>2, <2>2, <2>3, DocumentsStay DEF TypeOK
<1>8. ASSUME NEW c \in Crons, Delete(h, c)
      PROVE  /\ crons' \in [Crons -> CronDoc \cup {None}] /\ ErrorsNeverOvercount'
             /\ route' \in [Threads -> RouteOp] /\ EditsHonest'
             /\ freshCrons' \subseteq Crons
  <2>1. Stores(c, None) /\ UNCHANGED <<route, freshCrons>>
    BY <1>8 DEF Delete, Stores
  <2> QED
    BY <1>0, <1>1, <1>2, <2>1, StoresKeeps, EditsStay DEF TypeOK
<1>9. CASE PauseOrResume(h)
  <2>1. o.pc = "get" /\ o.cron \in Crons /\ UNCHANGED <<crons, freshCrons>>
    BY <1>9 DEF PauseOrResume, IInv, EditsHonest
  <2>2. CASE Readable(o.cron) /\ WillWrite(h, o.cron, [crons[o.cron] EXCEPT !.enabled = o.enable])
    <3> DEFINE d == [crons[o.cron] EXCEPT !.enabled = o.enable]
    <3>1. crons[o.cron] \in CronDoc /\ o.enable \in BOOLEAN
      BY <1>0, <2>1, <2>2 DEF Readable, RouteOp
    <3>2. d \in CronDoc /\ SameCounters(d, crons[o.cron])
      BY <3>1 DEF CronDoc, SameCounters
    <3> QED
      BY <1>0, <1>1, <1>2, <2>1, <2>2, <3>1, <3>2, PreparedWrite, DocumentsStay DEF TypeOK
  <2>3. CASE route' = [route EXCEPT ![h] = NoRoute]
    <3>1. NoRoute \in RouteOp /\ NoRoute.pc = "idle"
      BY DEF NoRoute, RouteOp
    <3>2. route' \in [Threads -> RouteOp] /\ EditsHonest'
      BY <1>1, <2>3, <3>1, EditMoves
    <3> QED
      BY <1>0, <1>2, <2>1, <3>2, DocumentsStay DEF TypeOK
  <2> QED
    BY <1>9, <2>2, <2>3 DEF PauseOrResume
<1>10. CASE RouteWrite(h)
  <2>1. /\ o.cron \in Crons /\ Honest(o.seen, o.cron) /\ o.pending \in CronDoc
        /\ SameCounters(o.pending, o.seen)
    BY <1>10 DEF RouteWrite, IInv, EditsHonest
  <2>2. Stores(o.cron, o.pending)
    BY <1>10, <2>1 DEF RouteWrite, Stores, Honest, SameCounters
  <2>3. NoRoute \in RouteOp /\ NoRoute.pc = "idle"
    BY DEF NoRoute, RouteOp
  <2>4. route' = [route EXCEPT ![h] = NoRoute] /\ UNCHANGED freshCrons
    BY <1>10 DEF RouteWrite
  <2>5. route' \in [Threads -> RouteOp] /\ EditsHonest'
    BY <1>1, <2>3, <2>4, EditMoves
  <2> QED
    BY <1>0, <1>1, <2>1, <2>2, <2>4, <2>5, StoresKeeps DEF TypeOK
<1> QED
  BY <1>5, <1>6, <1>7, <1>8, <1>9, <1>10 DEF BeginRoute

LEMMA StepHonest == IInv /\ [Next]_cronVars => IInv'
<1> SUFFICES ASSUME IInv, [Next]_cronVars PROVE IInv'
  OBVIOUS
<1>1. ASSUME NEW x \in Triggers, Execute(x) \/ \E c \in Crons : Trigger(x, c)
      PROVE  IInv'
  BY <1>1, ExecStep
<1>2. ASSUME NEW h \in Threads, BeginRoute(h) \/ PauseOrResume(h) \/ RouteWrite(h)
      PROVE  IInv'
  BY <1>2, EditStep
<1>3. CASE Tick
  <2>1. now' \in 0 .. MaxNow
    BY <1>3, CronAssumption DEF Tick, IInv, TypeOK
  <2> QED
    BY <1>3, <2>1 DEF Tick, IInv, TypeOK, ErrorsNeverOvercount, ExecsHonest, EditsHonest, Honest
<1>4. CASE UNCHANGED cronVars
  BY <1>4 DEF cronVars, IInv, TypeOK, ErrorsNeverOvercount, ExecsHonest, EditsHonest, Honest
<1> QED
  BY <1>1, <1>2, <1>3, <1>4 DEF Next

-----------------------------------------------------------------------------
(* Theorems.                                                               *)

\* An alert that is on its way follows enough failures.
LEMMA HonestImpliesFollow == IInv => CountsFollowFailures
<1> SUFFICES ASSUME IInv, NEW x \in Triggers, exec[x].pc = "alert"
             PROVE  hist[exec[x].cron].failures >= After
  BY DEF IInv, CountsFollowFailures, AlertsNeedFailures
<1>1. /\ exec[x].cron \in Crons /\ exec[x].seen \in CronDoc
      /\ exec[x].seen.errors <= hist[exec[x].cron].failures /\ exec[x].seen.errors >= After
  BY DEF IInv, ExecsHonest, Honest
<1> QED
  BY <1>1, CronAssumption DEF IInv, TypeOK, CronDoc, History

\* However executions and edits overlap, consecutive_errors never claims more
\* failures than there were, and an alert goes out only of a cron that failed
\* often enough: CronService.execute, _handle_failure and the cron routes.
THEOREM CountersFollowFailures == Spec => []CountsFollowFailures
<1>1. IInv /\ [Next]_cronVars => IInv'
  BY StepHonest
<1> QED
  BY InitHonest, <1>1, HonestImpliesFollow, PTL DEF Spec

\* The writes of one cron, by cases: created, deleted, known, or stale.
LEMMA ExecChangesOwn ==
  ASSUME IInv, NEW x \in Triggers, Execute(x) \/ \E b \in Crons : Trigger(x, b),
         NEW c \in Crons, crons'[c] # crons[c]
  PROVE  crons'[c] = None \/ OwnChange(c) \/ StaleWriter(c)
<1> DEFINE o == exec[x]
<1>1. /\ WriteRun(x) \/ Delivered(x) \/ WriteFailure(x) \/ AlertSent(x)
      /\ o.pc # "idle"
  BY DEF Execute, Trigger, DispatchTask, DispatchEvent, WriteRun, Delivered, WriteFailure, AlertSent
<1>2. o.cron \in Crons /\ o.seen \in CronDoc
  BY <1>1 DEF IInv, ExecsHonest, Honest
<1>3. crons \in [Crons -> CronDoc \cup {None}] /\ TypeOK
  BY DEF IInv, TypeOK
<1>4. PICK d \in {None, RecordRun(o.seen), RecordFailure(o.seen), Alerted(o.seen)} :
        crons' = [crons EXCEPT ![o.cron] = d]
  BY <1>1 DEF WriteRun, Delivered, WriteFailure, AlertSent
<1>5. c = o.cron /\ crons'[c] = d
  BY <1>3, <1>4
<1>6. CASE o.seen # crons[c]
  BY <1>5, <1>6 DEF StaleWriter
<1>7. CASE o.seen = crons[c] /\ d # None
  <2>1. /\ d \in CronDoc
        /\ <<d.enabled, d.once, d.kind, d.alert, d.assignee>>
             = <<o.seen.enabled, o.seen.once, o.seen.kind, o.seen.alert, o.seen.assignee>>
    BY <1>2, <1>3, <1>4, <1>7, CopiesAreDocuments
  <2> QED
    BY <1>2, <1>5, <1>7, <2>1, NoneIsNoDocument DEF OwnChange
<1> QED
  BY <1>5, <1>6, <1>7

LEMMA EditChangesOwn ==
  ASSUME IInv, NEW h \in Threads, BeginRoute(h) \/ PauseOrResume(h) \/ RouteWrite(h),
         NEW c \in Crons, crons'[c] # crons[c]
  PROVE  c \in freshCrons \/ crons'[c] = None \/ OwnChange(c) \/ StaleWriter(c)
<1> DEFINE o == route[h]
<1>1. crons \in [Crons -> CronDoc \cup {None}]
  BY DEF IInv, TypeOK
<1>2. ASSUME NEW b \in Crons, NEW on, NEW once, NEW alert, NEW kind, NEW a,
             Create(h, b, on, once, alert, kind, a)
      PROVE  c \in freshCrons
  BY <1>1, <1>2 DEF Create
<1>3. ASSUME NEW b \in Crons, Delete(h, b)
      PROVE  crons'[c] = None
  BY <1>1, <1>3 DEF Delete
<1>4. CASE RouteWrite(h)
  <2>1. /\ o.pc = "set" /\ o.cron \in Crons /\ Honest(o.seen, o.cron) /\ o.pending \in CronDoc
        /\ SameCounters(o.pending, o.seen)
    BY <1>4 DEF RouteWrite, IInv, EditsHonest
  <2>2. c = o.cron /\ crons'[c] = o.pending
    BY <1>1, <1>4 DEF RouteWrite
  <2>3. CASE o.seen # crons[c]
    BY <2>1, <2>2, <2>3 DEF StaleWriter
  <2>4. CASE o.seen = crons[c]
    BY <2>1, <2>2, <2>4, NoneIsNoDocument DEF OwnChange, SameCounters, Honest
  <2> QED
    BY <2>3, <2>4
<1> QED
  BY <1>2, <1>3, <1>4 DEF BeginRoute, Update, Toggle, PauseOrResume

\* An execution undoes an edit, and an edit a count, only by a lost update: when
\* its copy is no longer what is stored (CronRepo.update sets the whole document).
THEOREM EditsUndoneByLostUpdates == Spec => OnlyLostUpdatesUndoEdits
<1> DEFINE A == \A c \in Crons : crons'[c] # crons[c] =>
                  c \in freshCrons \/ crons'[c] = None \/ OwnChange(c) \/ StaleWriter(c)
<1>1. IInv /\ [Next]_cronVars => [A]_cronVars
  <2> SUFFICES ASSUME IInv, Next, NEW c \in Crons, crons'[c] # crons[c]
               PROVE  c \in freshCrons \/ crons'[c] = None \/ OwnChange(c) \/ StaleWriter(c)
    OBVIOUS
  <2>1. ASSUME NEW x \in Triggers, Execute(x) \/ \E b \in Crons : Trigger(x, b)
        PROVE  crons'[c] = None \/ OwnChange(c) \/ StaleWriter(c)
    BY <2>1, ExecChangesOwn
  <2>2. ASSUME NEW h \in Threads, BeginRoute(h) \/ PauseOrResume(h) \/ RouteWrite(h)
        PROVE  c \in freshCrons \/ crons'[c] = None \/ OwnChange(c) \/ StaleWriter(c)
    BY <2>2, EditChangesOwn
  <2>3. ~Tick
    BY DEF Tick
  <2> QED
    BY <2>1, <2>2, <2>3 DEF Next
<1>2. IInv /\ [Next]_cronVars => IInv'
  BY StepHonest
<1> QED
  BY InitHonest, <1>1, <1>2, PTL DEF Spec, OnlyLostUpdatesUndoEdits

-----------------------------------------------------------------------------
(* One request at a time, with a store that answers.                       *)
(*                                                                         *)
(* Between requests a document tells its counters exactly (Tells); during  *)
(* an execution it lags behind by what was observed and is not written yet *)
(* (Lags says by how much at each stage), so the invariant follows it.     *)

NoHistory == [failures |-> 0, streak |-> 0, shots |-> 0, alertAt |-> -1]

\* The document d, or its absence, tells the history h of its cron.
Tells(d, h) == IF d = None THEN h.shots <= 1
               ELSE d.errors = h.streak /\ d.alertAt = h.alertAt /\ h.shots = 0

\* What the document d of the execution o is to the history h, stage by stage.
Lags(o, d, h) ==
  /\ o.pc = "dispatch" => d = o.seen /\ o.seen.errors = h.streak /\ o.seen.alertAt = h.alertAt /\ h.shots = 0
  /\ o.pc \in {"record_run", "deliver"} =>
       /\ d = IF o.pc = "deliver" THEN RecordRun(o.seen) ELSE o.seen
       /\ h.streak = 0 /\ o.seen.alertAt = h.alertAt /\ h.shots = IF o.seen.once THEN 1 ELSE 0
  /\ o.pc = "record_failure" =>
       d = o.seen /\ h.streak = o.seen.errors + 1 /\ o.seen.alertAt = h.alertAt /\ h.shots = 0
  /\ o.pc = "alert" => d = o.seen /\ h.streak = o.seen.errors /\ h.alertAt = now /\ h.shots = 0

Active(x) == exec[x].pc # "idle"
Editing(h) == route[h].pc # "idle"

Alone ==
  /\ \A x \in Triggers : Active(x) => (\A y \in Triggers \ {x} : ~Active(y)) /\ (\A h \in Threads : ~Editing(h))
  /\ \A h \in Threads : Editing(h) => \A g \in Threads \ {h} : ~Editing(g)

FreshUntouched == \A c \in freshCrons : crons[c] = None /\ hist[c] = NoHistory

Exact ==
  /\ \A c \in Crons : (\A x \in Triggers : Active(x) => exec[x].cron # c) => Tells(crons[c], hist[c])
  /\ \A x \in Triggers : Active(x) =>
       /\ exec[x].cron \notin freshCrons
       /\ Lags(exec[x], crons[exec[x].cron], hist[exec[x].cron])
  /\ \A h \in Threads : route[h].pc = "set" => route[h].seen = crons[route[h].cron]

SerialInv == IInv /\ Alone /\ FreshUntouched /\ Exact

LEMMA SerialStepsAreSteps == SerialNext => Next
BY DEF SerialNext, Next

\* An execution moves to n, and only its own cron with it.
LEMMA SerialMoves ==
  ASSUME SerialInv, NEW x \in Triggers, NEW n \in ExecOp, NEW c \in Crons,
         exec' = [exec EXCEPT ![x] = n], UNCHANGED <<freshCrons, route, now>>,
         \A y \in Triggers \ {x} : ~Active(y), \A h \in Threads : ~Editing(h),
         Active(x) => exec[x].cron = c,
         c \notin freshCrons,
         \A b \in Crons \ {c} : crons'[b] = crons[b] /\ hist'[b] = hist[b],
         IF n.pc = "idle" THEN Tells(crons'[c], hist'[c]) ELSE n.cron = c /\ Lags(n, crons'[c], hist'[c])
  PROVE  (Alone /\ FreshUntouched /\ Exact)'
<1>1. /\ exec'[x] = n /\ \A y \in Triggers \ {x} : exec'[y] = exec[y]
      /\ freshCrons \subseteq Crons
  BY DEF SerialInv, IInv, TypeOK
<1>2. \A y \in Triggers \ {x} : exec'[y].pc = "idle"
  BY <1>1 DEF Active
<1>3. Alone'
  BY <1>1, <1>2 DEF Alone, Active, Editing
<1>4. FreshUntouched'
  BY <1>1 DEF SerialInv, FreshUntouched
<1>5. ASSUME NEW b \in Crons, \A y \in Triggers : exec'[y].pc # "idle" => exec'[y].cron # b
      PROVE  Tells(crons'[b], hist'[b])
  <2>1. CASE b = c
    BY <1>1, <1>5, <2>1
  <2>2. CASE b # c
    <3>1. \A y \in Triggers : Active(y) => exec[y].cron # b
      BY <2>2
    <3>2. Tells(crons[b], hist[b])
      BY <3>1 DEF SerialInv, Exact
    <3> QED
      BY <2>2, <3>2
  <2> QED
    BY <2>1, <2>2
<1>6. ASSUME NEW y \in Triggers, exec'[y].pc # "idle"
      PROVE  exec'[y].cron \notin freshCrons' /\ Lags(exec'[y], crons'[exec'[y].cron], hist'[exec'[y].cron])
  <2>1. y = x
    BY <1>2, <1>6
  <2> QED
    BY <1>1, <1>6, <2>1
<1>7. \A h \in Threads : route'[h].pc # "set"
  BY DEF Editing
<1>8. Exact'
  BY <1>5, <1>6, <1>7 DEF Exact, Active, Lags, Tells
<1> QED
  BY <1>3, <1>4, <1>8

\* A firing counts for the streak and, of a one-shot, as its shot.
LEMMA FiredTells ==
  ASSUME TypeOK, NEW x \in Triggers, NEW c \in Crons, exec[x].cron = c, NEW ok \in BOOLEAN, Fired(x, ok)
  PROVE  /\ hist'[c].streak = IF ok THEN 0 ELSE hist[c].streak + 1
         /\ hist'[c].shots = IF ok /\ exec[x].seen.once /\ hist[c].shots < 2 THEN hist[c].shots + 1 ELSE hist[c].shots
         /\ hist'[c].alertAt = hist[c].alertAt
         /\ \A b \in Crons \ {c} : hist'[b] = hist[b]
<1> DEFINE h == hist[c]
<1>1. hist \in [Crons -> History] /\ h \in History
  BY DEF TypeOK
<1>2. hist'[c] = [failures |-> IF ok THEN h.failures ELSE h.failures + 1,
                  streak |-> IF ok THEN 0 ELSE h.streak + 1,
                  shots |-> IF ok /\ exec[x].seen.once /\ h.shots < 2 THEN h.shots + 1 ELSE h.shots,
                  alertAt |-> h.alertAt]
      /\ (\A b \in Crons : b # c => hist'[b] = hist[b])
  BY <1>1 DEF Fired, History
<1> QED
  BY <1>2

\* Where the execution of x goes next, with the copy it holds then.
LEMMA SerialExec ==
  ASSUME SerialInv, NEW x \in Triggers, Execute(x), Faults \subseteq {"create_task"}
  PROVE  (Alone /\ FreshUntouched /\ Exact)'
<1>1. PICK o \in ExecOp, c \in Crons : o = exec[x] /\ c = o.cron /\ o.pc # "idle" /\ o.seen \in CronDoc
  <2>1. exec[x] \in ExecOp /\ exec[x].pc # "idle"
    BY DEF Execute, DispatchTask, DispatchEvent, WriteRun, Delivered, WriteFailure, AlertSent, SerialInv, IInv, TypeOK
  <2> QED
    BY <2>1 DEF SerialInv, IInv, ExecsHonest, Honest
<1>2. /\ TypeOK /\ exec \in [Triggers -> ExecOp] /\ crons \in [Crons -> CronDoc \cup {None}]
      /\ hist \in [Crons -> History] /\ hist[c] \in History
  BY DEF SerialInv, IInv, TypeOK
<1>3. /\ \A y \in Triggers \ {x} : ~Active(y)
      /\ \A h \in Threads : ~Editing(h)
      /\ Active(x) /\ c \notin freshCrons /\ Lags(o, crons[c], hist[c])
  BY <1>1 DEF SerialInv, Alone, Active, Exact
<1>4. UNCHANGED <<freshCrons, route, now>>
  BY DEF Execute, DispatchTask, DispatchEvent, WriteRun, Delivered, WriteFailure, AlertSent
\* The operation at another place, with its copy.
<1>5. \A pc \in {"record_run", "record_failure", "deliver"} : Go(x, pc) =>
        \E n \in ExecOp : n.pc = pc /\ n.cron = c /\ n.seen = o.seen /\ exec' = [exec EXCEPT ![x] = n]
  <2>1. ASSUME NEW pc \in {"record_run", "record_failure", "deliver"}, Go(x, pc)
        PROVE  LET n == [o EXCEPT !.pc = pc]
               IN n \in ExecOp /\ n.pc = pc /\ n.cron = c /\ n.seen = o.seen /\ exec' = [exec EXCEPT ![x] = n]
    BY <1>1, <1>2, <2>1 DEF ExecOp, Go
  <2> QED
    BY <2>1
<1>6. End(x) => NoExec \in ExecOp /\ NoExec.pc = "idle" /\ exec' = [exec EXCEPT ![x] = NoExec]
  BY DEF End, NoExec, ExecOp
<1>7. /\ RecordRun(o.seen) \in CronDoc /\ RecordRun(o.seen).errors = 0 /\ RecordRun(o.seen).alertAt = o.seen.alertAt
      /\ RecordFailure(o.seen) \in CronDoc /\ RecordFailure(o.seen).errors = o.seen.errors + 1
      /\ RecordFailure(o.seen).alertAt = o.seen.alertAt
      /\ Alerted(o.seen) \in CronDoc /\ Alerted(o.seen).errors = o.seen.errors /\ Alerted(o.seen).alertAt = now
  <2>1. RecordRun(o.seen).alertAt = o.seen.alertAt /\ RecordFailure(o.seen).alertAt = o.seen.alertAt
        /\ Alerted(o.seen).alertAt = now
    BY <1>1 DEF RecordRun, RecordFailure, Alerted, CronDoc
  <2> QED
    BY <1>1, <1>2, <2>1, CopiesAreDocuments
\* A step that only moves, observes or ends.
<1>8. ASSUME NEW n \in ExecOp, exec' = [exec EXCEPT ![x] = n], \A b \in Crons \ {c} : crons'[b] = crons[b] /\ hist'[b] = hist[b],
             IF n.pc = "idle" THEN Tells(crons'[c], hist'[c]) ELSE n.cron = c /\ Lags(n, crons'[c], hist'[c])
      PROVE  (Alone /\ FreshUntouched /\ Exact)'
  BY <1>1, <1>3, <1>4, <1>8, SerialMoves
<1>9. CASE DispatchTask(x) \/ DispatchEvent(x)
  <2>1. o.pc = "dispatch" /\ crons' = crons
    BY <1>1, <1>9 DEF DispatchTask, DispatchEvent
  <2>2. crons[c] = o.seen /\ o.seen.errors = hist[c].streak /\ o.seen.alertAt = hist[c].alertAt /\ hist[c].shots = 0
    BY <1>3, <2>1 DEF Lags
  <2>3. CASE Go(x, "record_run") /\ Fired(x, TRUE)
    <3>1. PICK n \in ExecOp : n.pc = "record_run" /\ n.cron = c /\ n.seen = o.seen /\ exec' = [exec EXCEPT ![x] = n]
      BY <1>5, <2>3
    <3>2. /\ hist'[c].streak = 0 /\ hist'[c].alertAt = hist[c].alertAt
          /\ hist'[c].shots = IF o.seen.once THEN 1 ELSE 0
          /\ \A b \in Crons \ {c} : hist'[b] = hist[b]
      <4>1. /\ hist'[c].streak = 0 /\ hist'[c].alertAt = hist[c].alertAt
            /\ hist'[c].shots = IF exec[x].seen.once /\ hist[c].shots < 2 THEN hist[c].shots + 1 ELSE hist[c].shots
            /\ \A b \in Crons \ {c} : hist'[b] = hist[b]
        BY <1>1, <1>2, <2>3, FiredTells
      <4> QED
        BY <1>1, <2>2, <4>1
    <3>3. Lags(n, crons'[c], hist'[c])
      BY <2>1, <2>2, <3>1, <3>2 DEF Lags
    <3> QED
      BY <1>8, <2>1, <3>1, <3>2, <3>3
  <2>4. CASE Go(x, "record_failure") /\ Fired(x, FALSE)
    <3>1. PICK n \in ExecOp : n.pc = "record_failure" /\ n.cron = c /\ n.seen = o.seen /\ exec' = [exec EXCEPT ![x] = n]
      BY <1>5, <2>4
    <3>2. /\ hist'[c].streak = hist[c].streak + 1 /\ hist'[c].alertAt = hist[c].alertAt /\ hist'[c].shots = 0
          /\ \A b \in Crons \ {c} : hist'[b] = hist[b]
      BY <1>1, <1>2, <2>2, <2>4, FiredTells
    <3>3. Lags(n, crons'[c], hist'[c])
      BY <2>1, <2>2, <3>1, <3>2 DEF Lags
    <3> QED
      BY <1>8, <2>1, <3>1, <3>2, <3>3
  <2> QED
    BY <1>9, <2>3, <2>4 DEF DispatchTask, DispatchEvent
<1>10. CASE WriteRun(x)
  <2>1. o.pc = "record_run" /\ crons' = [crons EXCEPT ![c] = RecordRun(o.seen)] /\ Go(x, "deliver") /\ hist' = hist
    BY <1>1, <1>10 DEF WriteRun
  <2>2. PICK n \in ExecOp : n.pc = "deliver" /\ n.cron = c /\ n.seen = o.seen /\ exec' = [exec EXCEPT ![x] = n]
    BY <1>5, <2>1
  <2>3. crons'[c] = RecordRun(o.seen) /\ \A b \in Crons \ {c} : crons'[b] = crons[b]
    BY <1>2, <2>1
  <2>4. Lags(n, crons'[c], hist'[c])
    BY <1>3, <2>1, <2>2, <2>3 DEF Lags
  <2> QED
    BY <1>8, <2>1, <2>2, <2>3, <2>4
<1>11. CASE Delivered(x)
  <2>1. o.pc = "deliver" /\ End(x) /\ hist' = hist
    BY <1>1, <1>11 DEF Delivered
  <2>2. /\ crons[c] = RecordRun(o.seen) /\ hist[c].streak = 0 /\ o.seen.alertAt = hist[c].alertAt
        /\ hist[c].shots = IF o.seen.once THEN 1 ELSE 0
    BY <1>3, <2>1 DEF Lags
  <2>3. /\ o.seen.once => crons' = [crons EXCEPT ![c] = None]
        /\ ~o.seen.once => crons' = crons
    BY <1>1, <1>11 DEF Delivered
  <2>4. Tells(crons'[c], hist'[c]) /\ \A b \in Crons \ {c} : crons'[b] = crons[b]
    BY <1>2, <1>7, <2>1, <2>2, <2>3 DEF Tells
  <2> QED
    BY <1>6, <1>8, <2>1, <2>4
<1>12. CASE WriteFailure(x)
  <2>1. o.pc = "record_failure" /\ crons' = [crons EXCEPT ![c] = RecordFailure(o.seen)]
    BY <1>1, <1>12 DEF WriteFailure
  <2>2. crons[c] = o.seen /\ hist[c].streak = o.seen.errors + 1 /\ o.seen.alertAt = hist[c].alertAt /\ hist[c].shots = 0
    BY <1>3, <2>1 DEF Lags
  <2>3. crons'[c] = RecordFailure(o.seen) /\ \A b \in Crons \ {c} : crons'[b] = crons[b]
    BY <1>2, <2>1
  <2>4. CASE exec' = [exec EXCEPT ![x].pc = "alert", ![x].seen = RecordFailure(o.seen)]
             /\ hist' = [hist EXCEPT ![c].alertAt = now]
    <3> DEFINE n == [o EXCEPT !.pc = "alert", !.seen = RecordFailure(o.seen)]
    <3>1. /\ n \in ExecOp /\ n.pc = "alert" /\ n.cron = c /\ n.seen = RecordFailure(o.seen)
          /\ exec' = [exec EXCEPT ![x] = n]
      BY <1>1, <1>2, <1>7, <2>4 DEF ExecOp
    <3>2. /\ hist'[c].streak = hist[c].streak /\ hist'[c].alertAt = now /\ hist'[c].shots = hist[c].shots
          /\ \A b \in Crons \ {c} : hist'[b] = hist[b]
      BY <1>2, <2>4 DEF History
    <3> HIDE DEF n
    <3>3. Lags(n, crons'[c], hist'[c])
      BY <1>7, <2>2, <2>3, <3>1, <3>2 DEF Lags
    <3> QED
      BY <1>8, <2>3, <3>1, <3>2, <3>3
  <2>5. CASE End(x) /\ hist' = hist
    <3>1. Tells(crons'[c], hist'[c])
      BY <1>7, <2>2, <2>3, <2>5, NoneIsNoDocument DEF Tells
    <3> QED
      BY <1>6, <1>8, <2>3, <2>5, <3>1
  <2> QED
    BY <1>1, <1>12, <2>4, <2>5 DEF WriteFailure
<1>13. CASE AlertSent(x)
  <2>1. o.pc = "alert" /\ End(x) /\ hist' = hist /\ crons' = [crons EXCEPT ![c] = Alerted(o.seen)]
    BY <1>1, <1>13 DEF AlertSent
  <2>2. hist[c].streak = o.seen.errors /\ hist[c].alertAt = now /\ hist[c].shots = 0
    BY <1>3, <2>1 DEF Lags
  <2>3. Tells(crons'[c], hist'[c]) /\ \A b \in Crons \ {c} : crons'[b] = crons[b]
    BY <1>2, <1>7, <2>1, <2>2, NoneIsNoDocument DEF Tells
  <2> QED
    BY <1>6, <1>8, <2>1, <2>3
<1> QED
  BY <1>9, <1>10, <1>11, <1>12, <1>13 DEF Execute

LEMMA SerialTrigger ==
  ASSUME SerialInv, NEW x \in Triggers, NEW c \in Crons, Trigger(x, c), Quiet
  PROVE  (Alone /\ FreshUntouched /\ Exact)'
<1> DEFINE n == [pc |-> "dispatch", cron |-> c, seen |-> crons[c]]
<1>1. /\ crons[c] # None /\ crons[c] \in CronDoc /\ c \notin freshCrons
      /\ crons' = crons /\ hist' = hist /\ UNCHANGED <<freshCrons, route, now>>
  BY DEF Trigger, Readable, SerialInv, IInv, TypeOK, FreshUntouched
<1>2. /\ n \in ExecOp /\ n.pc = "dispatch" /\ n.cron = c /\ n.seen = crons[c]
      /\ exec' = [exec EXCEPT ![x] = n]
  BY <1>1 DEF ExecOp, Trigger
<1> HIDE DEF n
<1>3. (\A y \in Triggers : ~Active(y)) /\ (\A h \in Threads : ~Editing(h))
  BY DEF Quiet, Active, Editing
<1>4. Tells(crons[c], hist[c])
  BY <1>3 DEF SerialInv, Exact
<1>5. Lags(n, crons'[c], hist'[c])
  BY <1>1, <1>2, <1>4 DEF Tells, Lags
<1> QED
  BY <1>1, <1>2, <1>3, <1>5, SerialMoves

\* One cron is created, changed or deleted, and no execution is under way.
LEMMA EditTells ==
  ASSUME SerialInv, UNCHANGED <<exec, now, hist>>, \A x \in Triggers : ~Active(x),
         NEW c \in Crons, NEW d, crons' = [crons EXCEPT ![c] = d], Tells(d, hist[c]),
         freshCrons' \subseteq freshCrons, c \notin freshCrons', \A h \in Threads : route'[h].pc = "idle"
  PROVE  (Alone /\ FreshUntouched /\ Exact)'
<1>1. crons'[c] = d /\ \A b \in Crons \ {c} : crons'[b] = crons[b]
  BY DEF SerialInv, IInv, TypeOK
<1>2. Alone'
  BY DEF Alone, Active, Editing
<1>3. FreshUntouched'
  BY <1>1 DEF SerialInv, FreshUntouched, IInv, TypeOK
<1>4. \A b \in Crons : Tells(crons'[b], hist[b])
  BY <1>1 DEF SerialInv, Exact
<1> QED
  BY <1>2, <1>3, <1>4 DEF Exact, Active, Tells, Lags

LEMMA SerialEdit ==
  ASSUME SerialInv, NEW h \in Threads, (Quiet /\ BeginRoute(h)) \/ PauseOrResume(h) \/ RouteWrite(h)
  PROVE  (Alone /\ FreshUntouched /\ Exact)'
<1>1. UNCHANGED <<exec, now, hist>>
  BY DEF BeginRoute, Create, Update, Toggle, Delete, PauseOrResume, RouteWrite
<1>2. /\ \A x \in Triggers : ~Active(x)
      /\ \A g \in Threads \ {h} : route[g].pc = "idle"
  BY DEF Quiet, Active, PauseOrResume, RouteWrite, SerialInv, Alone, Editing
<1>3. /\ crons \in [Crons -> CronDoc \cup {None}] /\ route \in [Threads -> RouteOp]
      /\ \A c \in Crons : Tells(crons[c], hist[c])
  BY <1>2 DEF SerialInv, IInv, TypeOK, Exact
\* The edit goes on, to o, and nothing is stored yet.
<1>4. ASSUME NEW o, route' = [route EXCEPT ![h] = o], UNCHANGED <<crons, freshCrons>>,
             o.pc = "set" => o.seen = crons[o.cron]
      PROVE  (Alone /\ FreshUntouched /\ Exact)'
  <2>1. route'[h] = o /\ \A g \in Threads \ {h} : route'[g].pc = "idle"
    BY <1>2, <1>3, <1>4
  <2>2. Alone'
    BY <1>1, <1>2, <2>1 DEF Alone, Active, Editing
  <2>3. FreshUntouched'
    BY <1>1, <1>4 DEF SerialInv, FreshUntouched
  <2>4. \A g \in Threads : route'[g].pc = "set" => route'[g].seen = crons'[route'[g].cron]
    BY <1>4, <2>1
  <2>5. Exact'
    BY <1>1, <1>2, <1>3, <1>4, <2>4 DEF Exact, Active, Tells, Lags
  <2> QED
    BY <2>2, <2>3, <2>5
\* The edit is stored.
<1>5. ASSUME NEW c \in Crons, NEW d, crons' = [crons EXCEPT ![c] = d], Tells(d, hist[c]),
             freshCrons' \subseteq freshCrons, c \notin freshCrons', route'[h].pc = "idle",
             \A g \in Threads \ {h} : route'[g] = route[g]
      PROVE  (Alone /\ FreshUntouched /\ Exact)'
  BY <1>1, <1>2, <1>5, EditTells
<1>6. ASSUME NEW c \in Crons, NEW on, NEW once, NEW alert, NEW kind, NEW a, Create(h, c, on, once, alert, kind, a)
      PROVE  (Alone /\ FreshUntouched /\ Exact)'
  <2> DEFINE d == [enabled |-> on, once |-> once, alert |-> alert, assignee |-> a, kind |-> kind,
                   errors |-> 0, alertAt |-> -1]
  <2>1. hist[c] = NoHistory /\ crons' = [crons EXCEPT ![c] = d] /\ freshCrons' = freshCrons \ {c} /\ route' = route
        /\ route[h].pc = "idle"
    BY <1>6 DEF Create, SerialInv, FreshUntouched
  <2>2. d.errors = 0 /\ d.alertAt = -1
    OBVIOUS
  <2> HIDE DEF d
  <2>3. d = None \/ (d.errors = hist[c].streak /\ d.alertAt = hist[c].alertAt /\ hist[c].shots = 0)
    BY <2>1, <2>2 DEF NoHistory
  <2>4. hist[c].shots <= 1
    BY <2>1 DEF NoHistory
  <2> QED
    BY <1>5, <2>1, <2>3, <2>4 DEF Tells
<1>7. ASSUME NEW c \in Crons, Delete(h, c)
      PROVE  (Alone /\ FreshUntouched /\ Exact)'
  <2>1. Tells(None, hist[c])
    BY <1>3 DEF Tells
  <2> QED
    BY <1>5, <1>7, <2>1 DEF Delete
<1>8. ASSUME NEW c, NEW d, WillWrite(h, c, d), UNCHANGED <<crons, freshCrons>>
      PROVE  (Alone /\ FreshUntouched /\ Exact)'
  <2> DEFINE o == [pc |-> "set", cron |-> c, enable |-> FALSE, seen |-> crons[c], pending |-> d]
  <2>1. route' = [route EXCEPT ![h] = o] /\ o.seen = crons[o.cron]
    BY <1>8 DEF WillWrite
  <2> HIDE DEF o
  <2> QED
    BY <1>4, <1>8, <2>1
<1>9. ASSUME NEW c \in Crons, Toggle(h, c)
      PROVE  (Alone /\ FreshUntouched /\ Exact)'
  <2> DEFINE o == [NoRoute EXCEPT !.pc = "get", !.cron = c, !.enable = ~crons[c].enabled]
  <2>1. route' = [route EXCEPT ![h] = o] /\ o.pc = "get" /\ UNCHANGED <<crons, freshCrons>>
    BY <1>9 DEF Toggle, NoRoute
  <2> HIDE DEF o
  <2> QED
    BY <1>4, <2>1
<1>10. CASE PauseOrResume(h)
  <2>1. UNCHANGED <<crons, freshCrons>>
    BY <1>10 DEF PauseOrResume
  <2>2. NoRoute.pc = "idle"
    BY DEF NoRoute
  <2> QED
    BY <1>4, <1>8, <1>10, <2>1, <2>2 DEF PauseOrResume
<1>11. CASE RouteWrite(h)
  <2>1. PICK o \in RouteOp, c \in Crons :
          /\ o = route[h] /\ c = o.cron /\ o.pc = "set" /\ o.seen = crons[c]
          /\ o.seen \in CronDoc /\ o.pending \in CronDoc /\ SameCounters(o.pending, o.seen)
    BY <1>3, <1>11 DEF RouteWrite, SerialInv, IInv, EditsHonest, Honest, Exact
  <2>2. crons' = [crons EXCEPT ![c] = o.pending] /\ freshCrons' = freshCrons /\ route' = [route EXCEPT ![h] = NoRoute]
    BY <1>11, <2>1 DEF RouteWrite
  <2>3. Tells(o.pending, hist[c]) /\ c \notin freshCrons
    BY <1>3, <2>1, NoneIsNoDocument DEF Tells, SameCounters, SerialInv, FreshUntouched
  <2>4. route'[h].pc = "idle" /\ \A g \in Threads \ {h} : route'[g] = route[g]
    BY <1>3, <2>2 DEF NoRoute
  <2> QED
    BY <1>5, <2>2, <2>3, <2>4
<1>12. \A c \in Crons : \A on, once, alert, kind, a : Update(h, c, on, once, alert, kind, a) => (Alone /\ FreshUntouched /\ Exact)'
  BY <1>8 DEF Update
<1> QED
  BY <1>6, <1>7, <1>9, <1>10, <1>11, <1>12 DEF BeginRoute

LEMMA SerialStep == ASSUME SerialInv, [SerialNext]_cronVars, Faults \subseteq {"create_task"} PROVE SerialInv'
<1>1. IInv'
  BY StepHonest, SerialStepsAreSteps DEF SerialInv
<1>2. CASE UNCHANGED cronVars
  <2>1. Alone' /\ FreshUntouched'
    BY <1>2 DEF cronVars, SerialInv, Alone, FreshUntouched, Active, Editing
  <2>2. Exact'
    BY <1>2 DEF cronVars, SerialInv, Exact, Active, Tells, Lags
  <2> QED
    BY <1>1, <2>1, <2>2 DEF SerialInv
<1>3. CASE Quiet /\ Tick
  <2>1. \A x \in Triggers : ~Active(x)
    BY <1>3 DEF Quiet, Active
  <2>2. UNCHANGED <<crons, freshCrons, exec, route, hist>>
    BY <1>3 DEF Tick
  <2>3. Alone' /\ FreshUntouched'
    BY <2>2 DEF SerialInv, Alone, FreshUntouched, Active, Editing
  <2>4. Exact'
    BY <2>1, <2>2 DEF SerialInv, Exact, Active, Tells, Lags
  <2> QED
    BY <1>1, <2>3, <2>4 DEF SerialInv
<1> QED
  BY <1>1, <1>2, <1>3, SerialExec, SerialTrigger, SerialEdit DEF SerialNext, SerialInv

\* An alert goes out in a period in which none went out before.
LEMMA SerialAlerts ==
  ASSUME SerialInv, [SerialNext]_cronVars, NEW x \in Triggers, exec[x].pc # "alert", exec'[x].pc = "alert"
  PROVE  hist[exec[x].cron].alertAt # now
<1>1. exec \in [Triggers -> ExecOp]
  BY DEF SerialInv, IInv, TypeOK
<1>2. WriteFailure(x) /\ AlertDue(RecordFailure(exec[x].seen))
  <2>1. exec' # exec
    OBVIOUS
  <2>2. PICK y \in Triggers : Execute(y) \/ \E c \in Crons : Trigger(y, c)
    BY <2>1 DEF SerialNext, cronVars, BeginRoute, Create, Update, Toggle, Delete, PauseOrResume, RouteWrite, Tick
  <2>3. y = x
    BY <1>1, <2>2 DEF Execute, Trigger, DispatchTask, DispatchEvent, WriteRun, Delivered, WriteFailure, AlertSent, Go, End
  <2>4. ASSUME NEW c \in Crons, Trigger(x, c) PROVE FALSE
    <3>1. exec'[x] = [pc |-> "dispatch", cron |-> c, seen |-> crons[c]]
      BY <1>1, <2>4 DEF Trigger
    <3> QED
      BY <3>1
  <2>5. NoExec.pc = "idle"
    BY DEF NoExec
  <2>6. ASSUME NEW pc, Go(x, pc), pc # "alert" PROVE FALSE
    BY <1>1, <2>6 DEF Go, ExecOp
  <2>7. ~End(x)
    BY <1>1, <2>5 DEF End
  <2>8. WriteFailure(x)
    BY <2>2, <2>3, <2>4, <2>6, <2>7 DEF Execute, DispatchTask, DispatchEvent, WriteRun, Delivered, AlertSent
  <2> QED
    BY <2>7, <2>8 DEF WriteFailure
<1>3. exec[x].pc = "record_failure" /\ exec[x].seen \in CronDoc
  BY <1>2 DEF WriteFailure, SerialInv, IInv, ExecsHonest, Honest
<1>4. RecordFailure(exec[x].seen).alertAt = exec[x].seen.alertAt
  BY <1>3 DEF RecordFailure, CronDoc
<1>5. exec[x].seen.alertAt = hist[exec[x].cron].alertAt
  BY <1>3 DEF SerialInv, Exact, Active, Lags
<1> QED
  BY <1>2, <1>4, <1>5 DEF AlertDue

LEMMA SerialInit == Init => SerialInv
<1> SUFFICES ASSUME Init PROVE SerialInv
  OBVIOUS
<1>1. IInv
  BY InitHonest
<1>2. /\ \A x \in Triggers : ~Active(x)
      /\ \A h \in Threads : route[h].pc = "idle"
      /\ \A c \in Crons : crons[c] = None /\ hist[c] = NoHistory
      /\ freshCrons = Crons
  BY DEF Init, NoExec, NoRoute, Active, NoHistory
<1>3. \A c \in Crons : Tells(crons[c], hist[c])
  BY <1>2 DEF Tells, NoHistory
<1> QED
  BY <1>1, <1>2, <1>3 DEF SerialInv, Alone, FreshUntouched, Exact, Editing

\* Served one request at a time and with a store and a queue that answer,
\* consecutive_errors is the number of failures since the last success, a
\* one-shot takes effect once, and the alerts keep to their cooldown, whatever
\* tasks cannot be created: for any crons, agents and threshold.
THEOREM SerialCountsAreExact == Faults \subseteq {"create_task"} => (SerialSpec => CountsAreExact)
<1> SUFFICES ASSUME Faults \subseteq {"create_task"} PROVE SerialSpec => CountsAreExact
  OBVIOUS
<1>1. SerialInv /\ [SerialNext]_cronVars => SerialInv'
  BY SerialStep
<1>2. SerialSpec => []SerialInv
  BY SerialInit, <1>1, PTL DEF SerialSpec
<1>3. ASSUME SerialInv PROVE TypeOK /\ StreakIsExact /\ OneShotFiresOnce
  <2>1. TypeOK
    BY <1>3 DEF SerialInv, IInv
  <2>2. StreakIsExact
    BY <1>3 DEF SerialInv, Exact, Tells, StreakIsExact, Quiet, Active
  <2>3. OneShotFiresOnce
    <3>1. ASSUME NEW c \in Crons, NEW x \in Triggers, Active(x), exec[x].cron = c PROVE hist[c].shots <= 1
      <4>1. Lags(exec[x], crons[c], hist[c]) /\ exec[x].pc \in {"dispatch", "record_run", "record_failure", "deliver", "alert"}
        BY <1>3, <3>1 DEF SerialInv, Exact, IInv, TypeOK, ExecOp, Active
      <4> QED
        BY <4>1 DEF Lags
    <3>2. ASSUME NEW c \in Crons, Tells(crons[c], hist[c]) PROVE hist[c].shots <= 1
      BY <3>2 DEF Tells
    <3> QED
      BY <1>3, <3>1, <3>2 DEF SerialInv, Exact, OneShotFiresOnce
  <2> QED
    BY <2>1, <2>2, <2>3
<1>4. ASSUME SerialInv, [SerialNext]_cronVars
      PROVE  [\A x \in Triggers : exec[x].pc # "alert" /\ exec'[x].pc = "alert"
                => hist[exec[x].cron].alertAt # now]_cronVars
  BY <1>4, SerialAlerts
<1>5. SerialSpec => AlertsRespectCooldown
  BY <1>2, <1>4, PTL DEF SerialSpec, AlertsRespectCooldown
<1>6. SerialSpec => []TypeOK /\ []StreakIsExact /\ []OneShotFiresOnce
  BY <1>2, <1>3, PTL
<1> QED
  BY <1>5, <1>6 DEF CountsAreExact
=============================================================================
