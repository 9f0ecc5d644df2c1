-------------------------------- MODULE Cron --------------------------------
(***************************************************************************)
(* Scheduled work: CronService over CronRepo, CronDeliveryService, the     *)
(* cron routes and the writing end of the cron event queue.                *)
(*                                                                         *)
(* An external scheduler (or a user) triggers a cron; execute runs on the  *)
(* event loop, reads the definition, dispatches it (a board task, or an    *)
(* event for the assignee's next heartbeat), writes back a copy of what it *)
(* read with the new counters, and awaits the delivery of a message in     *)
(* between.  Executions interleave at these awaits only; the routes run in *)
(* worker threads and interleave with every call to Firestore.             *)
(*                                                                         *)
(* Definitions named Slip_... are wrong variants, used by no specification *)
(* (see module Board).                                                     *)
(***************************************************************************)
EXTENDS Integers, FiniteSets

CONSTANTS
  Crons,         \* cron ids; a new cron takes one that was never used
  Agents,        \* assignees
  Events,        \* document ids of the event queue
  Triggers,      \* trigger requests that may be in flight together
  Threads,       \* worker threads that run the other routes
  Kinds,         \* kinds of cron that are created and edited: see CronDoc
  After,         \* failure_alert.after
  Faults,        \* the calls that may fail: see Fault
  MaxFailures,   \* bound: failing dispatches of one cron
  MaxNow,        \* bound: cooldown periods
  None

VARIABLES
  crons,         \* crons[c]: the stored definition, or None
  freshCrons,    \* ids that no create has drawn
  exec,          \* exec[x]: the execution started by trigger x
  route,         \* route[h]: the edit that thread h is making
  queue,         \* events pending in the queue
  target,        \* target[e]: the agent that event e is for
  unused,        \* event ids not drawn yet
  now,           \* the cooldown period we are in
  hist           \* hist[c]: what really happened to c (observed by properties only)

cronVars == <<crons, freshCrons, exec, route, queue, target, unused, now, hist>>

Fault == {"create_task", "enqueue", "record", "delete"}

ASSUME CronAssumption ==
  /\ After \in Nat \ {0} /\ MaxFailures \in Nat /\ MaxNow \in Nat
  /\ Faults \subseteq Fault
  /\ Kinds \subseteq {"task", "event", "now", "malformed"}

\* A Cron.  "kind" is the payload with its wake_mode: a board task, an event
\* for the next heartbeat, or wake_mode "now", which does nothing; "malformed"
\* is a document that no longer parses.  enabled and status are kept equal by
\* every writer.  "alertAt" is last_alert_at, -1 when None.
CronDoc == [enabled : BOOLEAN, once : BOOLEAN, alert : BOOLEAN, assignee : Agents,
            kind : {"task", "event", "now", "malformed"},
            errors : Nat, alertAt : Int]

\* The mark of an absent document is none of the documents.
ASSUME NoneIsNoDocument == None \notin CronDoc

-----------------------------------------------------------------------------
(* Copies.                                                                 *)

\* Slip: a run keeps the error counter.
Slip_KeepErrors(d) == d

\* Slip: a one-shot cron is disabled by its run.
Slip_DisableOneShot(d) == [d EXCEPT !.errors = 0, !.enabled = ~d.once]

\* Slip: the alert is counted as one more failure.
Slip_CountAlert(d) == [d EXCEPT !.alertAt = now, !.errors = @ + 1]

\* Slip: the time of the alert is left out of the copy.
Slip_NoAlertTime(d) == [d EXCEPT !.alertAt = None]

RecordRun(d) == [d EXCEPT !.errors = 0]
RecordFailure(d) == [d EXCEPT !.errors = @ + 1]
Alerted(d) == [d EXCEPT !.alertAt = now]

\* Slip: the cooldown is not looked at.
Slip_NoCooldown(d) == d.alert /\ d.errors >= After

\* Slip: the alert goes out one failure early.
Slip_EarlyAlert(d) == d.alert /\ d.errors + 1 >= After /\ d.alertAt # now

\* deliver_failure_alert passes its threshold and its cooldown.
AlertDue(d) == d.alert /\ d.errors >= After /\ d.alertAt # now

\* get returns a definition; it raises on a document that does not parse.
Readable(c) == crons[c] # None /\ crons[c].kind # "malformed"

\* list_all raises if any document does not parse.
AllReadable == \A c \in Crons : crons[c] # None => crons[c].kind # "malformed"

-----------------------------------------------------------------------------
(* execute.                                                                *)

NoExec == [pc |-> "idle", cron |-> None, seen |-> None]

\* The execution is between two awaits: no other coroutine runs.
HoldsLoop(x) == exec[x].pc \in {"dispatch", "record_run", "record_failure"}
LoopFree(x)  == \A y \in Triggers \ {x} : ~HoldsLoop(y)

Go(x, pc) == exec' = [exec EXCEPT ![x].pc = pc]
End(x)    == exec' = [exec EXCEPT ![x] = NoExec]

\* Bounds: an event id is left for the firing, and failures are not exhausted.
CanObserve(c) ==
  /\ crons[c].kind = "event" => unused # {}
  /\ hist[c].failures < MaxFailures

\* The request reads the cron; one that is missing or paused is an error.
Trigger(x, c) ==
  /\ exec[x].pc = "idle" /\ LoopFree(x)
  /\ Readable(c) /\ crons[c].enabled
  /\ CanObserve(c)
  /\ exec' = [exec EXCEPT ![x] = [pc |-> "dispatch", cron |-> c, seen |-> crons[c]]]
  /\ UNCHANGED <<crons, freshCrons, route, queue, target, unused, now, hist>>

\* What the firing did, for the properties: its effect happened or not.
Fired(x, ok) ==
  LET o == exec[x]
  IN hist' = [hist EXCEPT
       ![o.cron].failures = IF ok THEN @ ELSE @ + 1,
       ![o.cron].streak   = IF ok THEN 0 ELSE @ + 1,
       ![o.cron].shots    = IF ok /\ o.seen.once /\ @ < 2 THEN @ + 1 ELSE @]

\* A board task; or wake_mode "now", of which nothing is made, and which cannot
\* fail.
DispatchTask(x) ==
  /\ exec[x].pc = "dispatch" /\ exec[x].seen.kind \in {"task", "now"}
  /\ \/ Go(x, "record_run") /\ Fired(x, TRUE)
     \/ /\ exec[x].seen.kind = "task" /\ "create_task" \in Faults
        /\ Go(x, "record_failure") /\ Fired(x, FALSE)
  /\ UNCHANGED <<crons, freshCrons, route, queue, target, unused, now>>

\* _enqueue_system_event swallows the failure of the enqueue.
DispatchEvent(x) ==
  /\ exec[x].pc = "dispatch" /\ exec[x].seen.kind = "event"
  /\ Go(x, "record_run")
  /\ \/ \E e \in unused :
          /\ queue' = queue \cup {e}
          /\ unused' = unused \ {e}
          /\ target' = [target EXCEPT ![e] = exec[x].seen.assignee]
          /\ Fired(x, TRUE)
     \/ "enqueue" \in Faults /\ Fired(x, FALSE) /\ UNCHANGED <<queue, unused, target>>
  /\ UNCHANGED <<crons, freshCrons, route, now>>

\* Success: write back the copy read at the start, then await the delivery of
\* the success message (whose failure is swallowed).
WriteRun(x) ==
  LET o == exec[x]
  IN /\ o.pc = "record_run"
     /\ \/ crons' = [crons EXCEPT ![o.cron] = RecordRun(o.seen)] /\ Go(x, "deliver")
        \/ "record" \in Faults /\ End(x) /\ UNCHANGED crons
     /\ UNCHANGED <<freshCrons, route, queue, target, unused, now, hist>>

\* Slip: a one-shot cron is kept.
Slip_KeepOneShot(x) ==
  /\ exec[x].pc = "deliver" /\ LoopFree(x)
  /\ End(x)
  /\ UNCHANGED <<crons, freshCrons, route, queue, target, unused, now, hist>>

\* Delivered: a cron that was read as one-shot is deleted.
Delivered(x) ==
  LET o == exec[x]
  IN /\ o.pc = "deliver" /\ LoopFree(x)
     /\ \/ o.seen.once /\ crons' = [crons EXCEPT ![o.cron] = None]
        \/ (o.seen.once => "delete" \in Faults) /\ UNCHANGED crons
     /\ End(x)
     /\ UNCHANGED <<freshCrons, route, queue, target, unused, now, hist>>

\* Failure: write back the copy with one more error; when an alert is due,
\* await its sending.
WriteFailure(x) ==
  LET o == exec[x]
      d == RecordFailure(o.seen)
  IN /\ o.pc = "record_failure"
     /\ \/ /\ crons' = [crons EXCEPT ![o.cron] = d]
           /\ \/ AlertDue(d) /\ exec' = [exec EXCEPT ![x].pc = "alert", ![x].seen = d]
                             /\ hist' = [hist EXCEPT ![o.cron].alertAt = now]
              \/ ~AlertDue(d) /\ End(x) /\ UNCHANGED hist
        \/ "record" \in Faults /\ End(x) /\ UNCHANGED <<crons, hist>>
     /\ UNCHANGED <<freshCrons, route, queue, target, unused, now>>

\* The alert was sent, or failed: best effort, "sent" either way.  The copy
\* that was written before the await is written again with last_alert_at.
AlertSent(x) ==
  LET o == exec[x]
  IN /\ o.pc = "alert" /\ LoopFree(x)
     /\ \/ crons' = [crons EXCEPT ![o.cron] = Alerted(o.seen)]
        \/ "record" \in Faults /\ UNCHANGED crons
     /\ End(x)
     /\ UNCHANGED <<freshCrons, route, queue, target, unused, now, hist>>

-----------------------------------------------------------------------------
(* The routes.                                                             *)

NoRoute == [pc |-> "idle", cron |-> None, enable |-> FALSE, seen |-> None, pending |-> None]

Create(h, c, on, once, alert, kind, a) ==
  /\ route[h].pc = "idle" /\ c \in freshCrons
  /\ freshCrons' = freshCrons \ {c}
  /\ crons' = [crons EXCEPT ![c] =
       [enabled |-> on, once |-> once, alert |-> alert, assignee |-> a, kind |-> kind,
        errors |-> 0, alertAt |-> -1]]
  /\ UNCHANGED <<exec, route, queue, target, unused, now, hist>>

WillWrite(h, c, d) ==
  route' = [route EXCEPT ![h] = [pc |-> "set", cron |-> c, enable |-> FALSE,
                                 seen |-> crons[c], pending |-> d]]

\* PATCH of any of the fields: the changes are copied in without validation,
\* so that the stored document may not parse any more.  A failure_alert is set
\* or replaced, never removed, for None means "no change".
Update(h, c, on, once, alert, kind, a) ==
  /\ route[h].pc = "idle" /\ Readable(c)
  /\ crons[c].alert => alert
  /\ WillWrite(h, c, [crons[c] EXCEPT !.enabled = on, !.once = once, !.alert = alert,
                                      !.kind = kind, !.assignee = a])
  /\ UNCHANGED <<crons, freshCrons, exec, queue, target, unused, now, hist>>

\* toggle: decides on a listing of all the crons, then calls pause or resume.
Toggle(h, c) ==
  /\ route[h].pc = "idle" /\ crons[c] # None /\ AllReadable
  /\ route' = [route EXCEPT ![h] = [NoRoute EXCEPT !.pc = "get", !.cron = c,
                                                   !.enable = ~crons[c].enabled]]
  /\ UNCHANGED <<crons, freshCrons, exec, queue, target, unused, now, hist>>

\* pause, resume: a get of their own.
PauseOrResume(h) ==
  LET o == route[h]
  IN /\ o.pc = "get"
     /\ \/ Readable(o.cron) /\ WillWrite(h, o.cron, [crons[o.cron] EXCEPT !.enabled = o.enable])
        \/ ~Readable(o.cron) /\ route' = [route EXCEPT ![h] = NoRoute]
     /\ UNCHANGED <<crons, freshCrons, exec, queue, target, unused, now, hist>>

RouteWrite(h) ==
  LET o == route[h]
  IN /\ o.pc = "set"
     /\ crons' = [crons EXCEPT ![o.cron] = o.pending]
     /\ route' = [route EXCEPT ![h] = NoRoute]
     /\ UNCHANGED <<freshCrons, exec, queue, target, unused, now, hist>>

\* Unconditional: deleting a cron that is gone already is no error.
Delete(h, c) ==
  /\ route[h].pc = "idle" /\ c \notin freshCrons
  /\ crons' = [crons EXCEPT ![c] = None]
  /\ UNCHANGED <<freshCrons, exec, route, queue, target, unused, now, hist>>

\* A cooldown passes.
Tick ==
  /\ now < MaxNow
  /\ now' = now + 1
  /\ UNCHANGED <<crons, freshCrons, exec, route, queue, target, unused, hist>>

-----------------------------------------------------------------------------
Init ==
  /\ crons = [c \in Crons |-> None]
  /\ freshCrons = Crons
  /\ exec = [x \in Triggers |-> NoExec]
  /\ route = [h \in Threads |-> NoRoute]
  /\ queue = {}
  /\ target = [e \in Events |-> None]
  /\ unused = Events
  /\ now = 0
  /\ hist = [c \in Crons |->
       [failures |-> 0, streak |-> 0, shots |-> 0, alertAt |-> -1]]

Execute(x) ==
  \/ DispatchTask(x) \/ DispatchEvent(x)
  \/ WriteRun(x) \/ Delivered(x) \/ WriteFailure(x) \/ AlertSent(x)

BeginRoute(h) ==
  \E c \in Crons :
    \/ \E on, once, alert \in BOOLEAN, kind \in Kinds \ {"malformed"}, a \in Agents :
         Create(h, c, on, once, alert, kind, a)
    \/ \E on, once, alert \in BOOLEAN, kind \in Kinds, a \in Agents :
         Update(h, c, on, once, alert, kind, a)
    \/ Toggle(h, c)
    \/ Delete(h, c)

Next ==
  \/ \E x \in Triggers : Execute(x) \/ \E c \in Crons : Trigger(x, c)
  \/ \E h \in Threads : BeginRoute(h) \/ PauseOrResume(h) \/ RouteWrite(h)
  \/ Tick

Spec == Init /\ [][Next]_cronVars

\* One request at a time.
Quiet == /\ \A x \in Triggers : exec[x].pc = "idle"
         /\ \A h \in Threads : route[h].pc = "idle"

SerialNext ==
  \/ \E x \in Triggers : Execute(x) \/ (Quiet /\ \E c \in Crons : Trigger(x, c))
  \/ \E h \in Threads : (Quiet /\ BeginRoute(h)) \/ PauseOrResume(h) \/ RouteWrite(h)
  \/ Quiet /\ Tick

SerialSpec == Init /\ [][SerialNext]_cronVars

-----------------------------------------------------------------------------
(* Properties.                                                             *)

ExecOp == [pc : {"idle", "dispatch", "record_run", "record_failure", "deliver", "alert"},
           cron : Crons \cup {None}, seen : CronDoc \cup {None}]

RouteOp == [pc : {"idle", "get", "set"}, cron : Crons \cup {None}, enable : BOOLEAN,
            seen : CronDoc \cup {None}, pending : CronDoc \cup {None}]

History == [failures : Nat, streak : Nat, shots : 0 .. 2, alertAt : Int]

TypeOK ==
  /\ crons \in [Crons -> CronDoc \cup {None}]
  /\ freshCrons \subseteq Crons
  /\ exec \in [Triggers -> ExecOp]
  /\ route \in [Threads -> RouteOp]
  /\ queue \subseteq Events /\ unused \subseteq Events
  /\ target \in [Events -> Agents \cup {None}]
  /\ now \in 0 .. MaxNow
  /\ hist \in [Crons -> History]

\* However executions and edits overwrite one another, the error counter
\* never claims more failures than there were: each copy that is written adds
\* one failure to a count taken from the document.
ErrorsNeverOvercount ==
  \A c \in Crons : crons[c] # None => crons[c].errors <= hist[c].failures

\* An alert goes out only of a cron that failed at least After times.
AlertsNeedFailures ==
  \A x \in Triggers : exec[x].pc = "alert" => hist[exec[x].cron].failures >= After

\* The writer of c acts on a document that is no longer the stored one.
StaleWriter(c) ==
  \/ \E x \in Triggers : exec[x].cron = c /\ exec[x].seen # crons[c]
  \/ \E h \in Threads : route[h].cron = c /\ route[h].pc = "set" /\ route[h].seen # crons[c]

\* A change of c by someone who knew its document: an execution touches the
\* counters only, a route the fields a user edits only.
OwnChange(c) ==
  /\ crons[c] # None /\ crons'[c] # None
  /\ LET counters(d) == <<d.errors, d.alertAt>>
         edits(d)    == <<d.enabled, d.once, d.kind, d.alert, d.assignee>>
     IN counters(crons'[c]) = counters(crons[c]) \/ edits(crons'[c]) = edits(crons[c])

\* An execution never undoes an edit (resumes what was paused, restores what
\* was deleted), and an edit never undoes a count, except by a lost update.
OnlyLostUpdatesUndoEdits ==
  [][\A c \in Crons : crons'[c] # crons[c] =>
       c \in freshCrons \/ crons'[c] = None \/ OwnChange(c) \/ StaleWriter(c)]_cronVars

\* One request at a time: consecutive_errors is the number of failing
\* dispatches since the last one that succeeded.
StreakIsExact ==
  Quiet => \A c \in Crons : crons[c] # None => crons[c].errors = hist[c].streak

\* "fires a failure_alert if threshold+cooldown allow": no alert goes out in
\* a cooldown period in which one went out already.
AlertsRespectCooldown ==
  [][\A x \in Triggers : exec[x].pc # "alert" /\ exec'[x].pc = "alert"
       => hist[exec[x].cron].alertAt # now]_cronVars

\* A one-shot cron takes effect at most once.
OneShotFiresOnce == \A c \in Crons : hist[c].shots <= 1

\* The counters and the alerts follow the failures.
CountsFollowFailures == TypeOK /\ ErrorsNeverOvercount /\ AlertsNeedFailures

\* One request at a time: counters, one-shots and cooldowns are exact.
CountsAreExact == []TypeOK /\ []StreakIsExact /\ []OneShotFiresOnce /\ AlertsRespectCooldown
=============================================================================
