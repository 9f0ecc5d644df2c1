-------------------------------- MODULE Board --------------------------------
(***************************************************************************)
(* The kanban board: BoardService over BoardRepo, the board tools of the   *)
(* agents and the board routes of the API.                                 *)
(*                                                                         *)
(* BoardRepo reads and writes whole Firestore documents with no            *)
(* transaction, so every operation is a get, a decision on the copy it     *)
(* got, and a set of the whole document.  Agent tools are plain functions  *)
(* called on the event loop: one runs at a time per process (Loops).  The  *)
(* routes are plain functions too, but FastAPI runs each in a worker       *)
(* thread (Threads).  Between the get and the set of one of them the       *)
(* others may act: each action below is one call to Firestore or one       *)
(* event, with the decision that follows it.                               *)
(*                                                                         *)
(* Definitions named Slip_... are wrong variants of the definition that    *)
(* follows them; no specification uses them.  Each stands for a plausible  *)
(* coding error that one of the properties would reveal.                   *)
(***************************************************************************)
EXTENDS FiniteSets

CONSTANTS
  Tasks,      \* task ids; a new task takes one that was never used
  Agents,     \* agent names: assignees, and callers of the tools
  Loops,      \* event loops, one per server process
  Threads,    \* worker threads that run the API routes
  None        \* no document, no task, no caller

VARIABLES
  board,      \* board[t]: the stored document, or None
  fresh,      \* ids that no create has drawn yet
  old,        \* tasks whose updated_at is older than the sweeper's window
  op,         \* op[p]: the operation that p is executing
  lastEvent   \* lastEvent[t]: the last task.* event emitted for t

vars == <<board, fresh, old, op, lastEvent>>

Status == {"backlog", "queued", "in_progress", "needs_approval", "done", "failed"}
Procs  == Loops \cup Threads

\* A BoardTask.  "result" is the kind of TaskResult stored: a work summary
\* (complete) or a failure reason (fail); "approved" is approved_at # None.
Doc == [status : Status, result : {"none", "work", "reason"}, assignee : Agents,
        requires_approval : BOOLEAN, approved : BOOLEAN]

ASSUME BoardAssumption ==
  /\ Loops \cap Threads = {}
  /\ None \notin Doc \cup Tasks \cup Agents

-----------------------------------------------------------------------------
(* The transition tables.                                                  *)

\* Slip: the model layer accepts QUEUED -> DONE.
Slip_QueuedToDone ==
  ({"backlog"} \X {"queued", "in_progress"}) \cup
  ({"queued"} \X {"in_progress", "backlog", "done"}) \cup
  ({"in_progress"} \X {"done", "failed", "needs_approval"}) \cup
  ({"needs_approval"} \X {"in_progress", "done", "failed"}) \cup
  ({"failed"} \X {"queued", "backlog"})

\* _VALID_TRANSITIONS, as its set of edges
ValidTransitions ==
  ({"backlog"} \X {"queued", "in_progress"}) \cup
  ({"queued"} \X {"in_progress", "backlog"}) \cup
  ({"in_progress"} \X {"done", "failed", "needs_approval"}) \cup
  ({"needs_approval"} \X {"in_progress", "done", "failed"}) \cup
  ({"failed"} \X {"queued", "backlog"})

\* Slip: a user may drag a DONE card back to the queue.
Slip_ReopenDone ==
  ({"backlog"} \X {"queued"}) \cup
  ({"queued"} \X {"backlog"}) \cup
  ({"needs_approval"} \X {"queued", "failed"}) \cup
  ({"failed", "done"} \X {"queued", "backlog"})

\* USER_ALLOWED, as its set of edges
UserAllowed ==
  ({"backlog"} \X {"queued"}) \cup
  ({"queued"} \X {"backlog"}) \cup
  ({"needs_approval"} \X {"queued", "failed"}) \cup
  ({"failed"} \X {"queued", "backlog"})

\* Slip: the methods check that the task exists but not the transition.
Slip_NoTransitionCheck(d, s) == d # None

\* transition_to does not raise on the document d that a get returned
CanGo(d, s) == d # None /\ <<d.status, s>> \in ValidTransitions

\* Slip: a copy with a status that TaskStatus does not have (copies are not validated).
Slip_UnknownStatus(d) == [d EXCEPT !.status = "completed", !.result = "work"]

Moved(d, s)  == [d EXCEPT !.status = s]
Completed(d) == [d EXCEPT !.status = "done", !.result = "work"]
FailedDoc(d) == [d EXCEPT !.status = "failed", !.result = "reason"]
Approved(d)  == [d EXCEPT !.status = "queued", !.approved = TRUE]

-----------------------------------------------------------------------------
(* Operations in flight.                                                   *)

\* kind    the tool or the route
\* pc      the call it is about to make: a service method's get ("pick_up",
\*         "complete", "fail", "delete"), the repo's set or delete ("set",
\*         "unset"), the event ("emit"); "idle" when there is none
\* task    the task in hand;  todo: those a sweep or bulk delete has left
\* caller  the agent that called the tool
\* then    what follows the current service method: nothing ("return"), the
\*         service's complete ("complete"), or, when that method itself
\*         picked the task up, the DONE write ("finish")
\* seen, pending   the document that was read, the one to be written
\* event   the event emitted once the write is done
Idle == [kind |-> "none", pc |-> "idle", task |-> None, todo |-> {}, caller |-> None,
         then |-> "return", seen |-> None, pending |-> None, event |-> "none"]

Op == [kind : {"none", "create", "get", "complete", "fail", "move", "approve", "reject",
               "request_approval", "force_fail", "sweep", "delete", "bulk_delete"},
       pc : {"idle", "pick_up", "complete", "fail", "delete", "set", "unset", "emit"},
       task : Tasks \cup {None}, todo : SUBSET Tasks, caller : Agents \cup {None},
       then : {"return", "complete", "finish"},
       seen : Doc \cup {None}, pending : Doc \cup {None},
       event : {"none", "created", "picked_up", "completed", "failed", "deleted"}]

IsIdle(p) == op[p].pc = "idle"

Start(p, kind, pc, t) ==
  op' = [op EXCEPT ![p] = [Idle EXCEPT !.kind = kind, !.pc = pc, !.task = t]]

\* The operation read d, computed e from it, and will now set e.
WillSet(o, d, e, event) ==
  [o EXCEPT !.pc = "set", !.seen = d, !.pending = e, !.event = event]

\* After the task in hand: the next one of the list that a sweep or a bulk
\* delete took at its start, else the operation returns.
Followers(o) ==
  IF o.todo = {} THEN {Idle}
  ELSE {[Idle EXCEPT !.kind = o.kind, !.pc = IF o.kind = "sweep" THEN "fail" ELSE "delete",
                     !.task = t, !.todo = o.todo \ {t}] : t \in o.todo}

Return(p, o) == \E n \in Followers(o) : op' = [op EXCEPT ![p] = n]

-----------------------------------------------------------------------------
(* Creation: the route, create_board_task, a cron or a peer's request.     *)

CreateTask(p, t, s, a, r) ==
  /\ IsIdle(p)
  /\ t \in fresh
  /\ p \in Loops => ~r                      \* only the route asks for approval
  /\ fresh' = fresh \ {t}
  /\ board' = [board EXCEPT ![t] =
       [status |-> s, result |-> "none", assignee |-> a,
        requires_approval |-> r, approved |-> FALSE]]
  /\ op' = [op EXCEPT ![p] = [Idle EXCEPT !.kind = "create", !.pc = "emit",
                                          !.task = t, !.event = "created"]]
  /\ UNCHANGED <<old, lastEvent>>

-----------------------------------------------------------------------------
(* The board tools.  Each begins with a get of its own; when that get      *)
(* makes the tool refuse, nothing changes and there is no step.            *)

\* get_board_task: reading a QUEUED task picks it up, whoever reads.
GetBoardTask(p, t) ==
  /\ IsIdle(p) /\ p \in Loops
  /\ board[t] # None /\ board[t].status = "queued"
  /\ Start(p, "get", "pick_up", t)
  /\ UNCHANGED <<board, fresh, old, lastEvent>>

\* complete_board_task: the assignee of a QUEUED task picks it up first.
CompleteBoardTask(p, t, caller) ==
  /\ IsIdle(p) /\ p \in Loops
  /\ board[t] # None /\ board[t].status \notin {"failed", "done"}
  /\ LET gate == board[t].status = "queued" /\ caller = board[t].assignee
     IN op' = [op EXCEPT ![p] =
          [Idle EXCEPT !.kind = "complete", !.task = t, !.caller = caller,
                       !.pc   = IF gate THEN "pick_up" ELSE "complete",
                       !.then = IF gate THEN "complete" ELSE "return"]]
  /\ UNCHANGED <<board, fresh, old, lastEvent>>

\* fail_board_task
FailBoardTask(p, t) ==
  /\ IsIdle(p) /\ p \in Loops
  /\ board[t] # None /\ board[t].status \notin {"failed", "done"}
  /\ Start(p, "fail", "fail", t)
  /\ UNCHANGED <<board, fresh, old, lastEvent>>

-----------------------------------------------------------------------------
(* The routes.  move_status, approve and reject check the document they    *)
(* read and write a copy of it; they emit no event.                        *)

UserWrite(p, kind, t, e) ==
  /\ op' = [op EXCEPT ![p] =
       WillSet([Idle EXCEPT !.kind = kind, !.task = t], board[t], e, "none")]
  /\ UNCHANGED <<board, fresh, old, lastEvent>>

MoveStatus(p, t, target) ==
  /\ IsIdle(p) /\ p \in Threads
  /\ board[t] # None /\ <<board[t].status, target>> \in UserAllowed
  /\ UserWrite(p, "move", t, Moved(board[t], target))

Approve(p, t) ==
  /\ IsIdle(p) /\ p \in Threads
  /\ board[t] # None /\ board[t].status = "needs_approval"
  /\ UserWrite(p, "approve", t, Approved(board[t]))

Reject(p, t) ==
  /\ IsIdle(p) /\ p \in Threads
  /\ board[t] # None /\ board[t].status = "needs_approval"
  /\ UserWrite(p, "reject", t, Moved(board[t], "failed"))

ForceFail(p, t) ==
  /\ IsIdle(p) /\ p \in Threads /\ t \notin fresh
  /\ Start(p, "force_fail", "fail", t)
  /\ UNCHANGED <<board, fresh, old, lastEvent>>

\* Slip: the sweep looks for old QUEUED tasks.
Slip_SweepQueued == {t \in Tasks : board[t] # None /\ board[t].status = "queued" /\ t \in old}

\* What one list_all shows as stalled; fail() will not look at the age again.
Stalled == {t \in Tasks : board[t] # None /\ board[t].status = "in_progress" /\ t \in old}

SweepStalled(p) ==
  /\ IsIdle(p) /\ p \in Threads
  /\ Stalled # {}
  /\ Return(p, [Idle EXCEPT !.kind = "sweep", !.todo = Stalled])
  /\ UNCHANGED <<board, fresh, old, lastEvent>>

DeleteTask(p, t) ==
  /\ IsIdle(p) /\ p \in Threads /\ t \notin fresh
  /\ Start(p, "delete", "delete", t)
  /\ UNCHANGED <<board, fresh, old, lastEvent>>

\* The filter (statuses, assignee, title) selects any of the listed tasks.
BulkDelete(p, S) ==
  /\ IsIdle(p) /\ p \in Threads
  /\ S # {} /\ \A t \in S : board[t] # None
  /\ Return(p, [Idle EXCEPT !.kind = "bulk_delete", !.todo = S])
  /\ UNCHANGED <<board, fresh, old, lastEvent>>

\* Nothing under src/ moves a task to NEEDS_APPROVAL; the transition tables
\* name a service method request_approval, and the approval routes and the
\* UI expect its result.  It is taken to read and write like its siblings.
RequestApproval(p, t) ==
  /\ IsIdle(p) /\ p \in Loops
  /\ CanGo(board[t], "needs_approval")
  /\ UserWrite(p, "request_approval", t, Moved(board[t], "needs_approval"))

-----------------------------------------------------------------------------
(* The service methods, each from its get to the write it decides on.      *)

\* pick_up.  Its exception is swallowed by the two tools that call it
\* ("return", "complete") and propagates out of the service's complete
\* ("finish"), which then ends the operation.
PickUp(p) ==
  LET o == op[p]
      d == board[o.task]
  IN /\ o.pc = "pick_up"
     /\ \/ /\ CanGo(d, "in_progress")
           /\ op' = [op EXCEPT ![p] = WillSet(o, d, Moved(d, "in_progress"), "picked_up")]
        \/ /\ ~CanGo(d, "in_progress") /\ o.then = "complete"
           /\ op' = [op EXCEPT ![p].pc = "complete", ![p].then = "return"]
        \/ /\ ~CanGo(d, "in_progress") /\ o.then # "complete"
           /\ Return(p, o)
     /\ UNCHANGED <<board, fresh, old, lastEvent>>

\* complete: a QUEUED task is flipped through IN_PROGRESS for any caller.
Complete(p) ==
  LET o == op[p]
      d == board[o.task]
  IN /\ o.pc = "complete"
     /\ \/ /\ d # None /\ d.status = "queued"
           /\ op' = [op EXCEPT ![p].pc = "pick_up", ![p].then = "finish"]
        \/ /\ CanGo(d, "done")
           /\ op' = [op EXCEPT ![p] = WillSet(o, d, Completed(d), "completed")]
        \/ /\ d # None => d.status # "queued" /\ ~CanGo(d, "done")
           /\ Return(p, o)
     /\ UNCHANGED <<board, fresh, old, lastEvent>>

\* fail; sweep_stalled swallows its exception and goes on with the list.
Fail(p) ==
  LET o == op[p]
      d == board[o.task]
  IN /\ o.pc = "fail"
     /\ \/ /\ CanGo(d, "failed")
           /\ op' = [op EXCEPT ![p] = WillSet(o, d, FailedDoc(d), "failed")]
        \/ /\ ~CanGo(d, "failed")
           /\ Return(p, o)
     /\ UNCHANGED <<board, fresh, old, lastEvent>>

\* Slip: the deletion announces nothing.
Slip_SilentDelete(p) ==
  /\ op[p].pc = "delete"
  /\ \/ /\ board[op[p].task] # None
        /\ op' = [op EXCEPT ![p].pc = "unset"]
     \/ /\ board[op[p].task] = None
        /\ Return(p, op[p])
  /\ UNCHANGED <<board, fresh, old, lastEvent>>

\* delete_task: it checks that the task exists, then deletes by id.
Delete(p) ==
  LET o == op[p]
  IN /\ o.pc = "delete"
     /\ \/ /\ board[o.task] # None
           /\ op' = [op EXCEPT ![p].pc = "unset", ![p].event = "deleted"]
        \/ /\ board[o.task] = None
           /\ Return(p, o)
     /\ UNCHANGED <<board, fresh, old, lastEvent>>

\* BoardRepo.update: a set of the whole document, which also creates it.
RepoUpdate(p) ==
  LET o == op[p]
  IN /\ o.pc = "set"
     /\ board' = [board EXCEPT ![o.task] = o.pending]
     /\ old' = old \ {o.task}
     /\ \/ /\ o.event = "none"
           /\ Return(p, o)
        \/ /\ o.event # "none"
           /\ op' = [op EXCEPT ![p].pc = "emit"]
     /\ UNCHANGED <<fresh, lastEvent>>

RepoDelete(p) ==
  /\ op[p].pc = "unset"
  /\ board' = [board EXCEPT ![op[p].task] = None]
  /\ old' = old \ {op[p].task}
  /\ op' = [op EXCEPT ![p].pc = "emit"]
  /\ UNCHANGED <<fresh, lastEvent>>

\* _emit, and the rest of the operation after the method that emitted.
Emit(p) ==
  LET o == op[p]
  IN /\ o.pc = "emit"
     /\ lastEvent' = [lastEvent EXCEPT ![o.task] = o.event]
     /\ \/ /\ o.then = "return"
           /\ Return(p, o)
        \/ /\ o.then = "complete"
           /\ op' = [op EXCEPT ![p] =
                [Idle EXCEPT !.kind = o.kind, !.caller = o.caller, !.task = o.task,
                             !.pc = "complete"]]
        \/ /\ o.then = "finish"
           /\ op' = [op EXCEPT ![p] =
                WillSet([o EXCEPT !.then = "return"], o.pending, Completed(o.pending), "completed")]
     /\ UNCHANGED <<board, fresh, old>>

-----------------------------------------------------------------------------
(* Time.                                                                   *)

\* The sweeper's window passes without a write to an IN_PROGRESS task.
Stall(t) ==
  /\ board[t] # None /\ board[t].status = "in_progress" /\ t \notin old
  /\ old' = old \cup {t}
  /\ UNCHANGED <<board, fresh, op, lastEvent>>

-----------------------------------------------------------------------------
Init ==
  /\ board = [t \in Tasks |-> None]
  /\ fresh = Tasks
  /\ old = {}
  /\ op = [p \in Procs |-> Idle]
  /\ lastEvent = [t \in Tasks |-> "none"]

Begin(p) ==
  \/ \E t \in Tasks, s \in {"backlog", "queued"}, a \in Agents, r \in BOOLEAN :
       CreateTask(p, t, s, a, r)
  \/ \E t \in Tasks : \/ GetBoardTask(p, t)
                      \/ \E c \in Agents : CompleteBoardTask(p, t, c)
                      \/ FailBoardTask(p, t)
                      \/ RequestApproval(p, t)
                      \/ \E s \in Status : MoveStatus(p, t, s)
                      \/ Approve(p, t)
                      \/ Reject(p, t)
                      \/ ForceFail(p, t)
                      \/ DeleteTask(p, t)
  \/ SweepStalled(p)
  \/ \E S \in SUBSET Tasks : BulkDelete(p, S)

Continue(p) ==
  PickUp(p) \/ Complete(p) \/ Fail(p) \/ Delete(p) \/ RepoUpdate(p) \/ RepoDelete(p) \/ Emit(p)

Next ==
  \/ \E p \in Procs : Begin(p) \/ Continue(p)
  \/ \E t \in Tasks : Stall(t)

Spec == Init /\ [][Next]_vars

\* The same system serving one request at a time.
SerialNext ==
  \/ \E p \in Procs : (\A q \in Procs : IsIdle(q)) /\ Begin(p)
  \/ \E p \in Procs : Continue(p)
  \/ \E t \in Tasks : Stall(t)

SerialSpec == Init /\ [][SerialNext]_vars

\* A tool or a route that has begun runs to its end.  The sweep is the
\* periodic job its route is documented for; it waits for a worker thread
\* with the other requests, so it runs if one is free again and again.
FairSpec ==
  /\ Spec
  /\ \A p \in Procs : WF_vars(Continue(p))
  /\ SF_vars(\E p \in Threads : SweepStalled(p))
  /\ \A t \in Tasks : WF_vars(Stall(t))

-----------------------------------------------------------------------------
(* Properties.                                                             *)

TypeOK ==
  /\ board \in [Tasks -> Doc \cup {None}]
  /\ fresh \subseteq Tasks
  /\ old \subseteq Tasks
  /\ op \in [Procs -> Op]
  /\ lastEvent \in [Tasks -> {"none", "created", "picked_up", "completed", "failed", "deleted"}]

\* A legal change of t: its creation, its deletion, or an edge of the tables.
LegalChange(t) ==
  \/ board[t] = None /\ t \in fresh
  \/ board'[t] = None
  \/ /\ board[t] # None /\ board'[t] # None
     /\ <<board[t].status, board'[t].status>> \in ValidTransitions \cup UserAllowed

\* The writer of t acts on a document that is no longer the stored one.
StaleWriter(t) ==
  \E p \in Procs : op[p].pc = "set" /\ op[p].task = t /\ op[p].seen # board[t]

\* Whatever the interleaving, a task leaves the lifecycle (skips a status,
\* leaves DONE, comes back after its deletion) only by a lost update: some
\* process writes over a document that changed since it read it.  Were every
\* set conditional on the document read, none of these could happen.
OnlyStaleWritersBreakLifecycle ==
  [][\A t \in Tasks : board'[t] # board[t] => LegalChange(t) \/ StaleWriter(t)]_vars

\* Whole-document writes never mix two writers: a work summary is stored with
\* DONE and only with DONE, even when updates are lost (a FAILED or requeued
\* document never shows the summary of a completion it overwrote).
WorkSummaryIffDone ==
  \A t \in Tasks : board[t] # None => (board[t].status = "done" <=> board[t].result = "work")

\* An operation that is about to store DONE saw the task IN_PROGRESS or
\* NEEDS_APPROVAL: no tool, with any caller and any interleaving, completes a
\* task straight from the backlog, from the queue or after its failure.
DoneFromStartedWork ==
  \A p \in Procs : op[p].pc = "set" /\ op[p].pending.status = "done"
                     => op[p].seen.status \in {"in_progress", "needs_approval"}

\* A task abandoned IN_PROGRESS does not stay so, given the periodic sweep,
\* in spite of the other writers it races with.
StalledWorkIsReleased ==
  \A t \in Tasks : (board[t] # None /\ board[t].status = "in_progress")
                     ~> (board[t] = None \/ board[t].status # "in_progress")

-----------------------------------------------------------------------------
(* Refinement of TaskLifecycle, for operations that do not overlap.        *)

Stage(t) == IF board[t] # None THEN board[t].status
            ELSE IF t \in fresh THEN "unborn" ELSE "deleted"

L == INSTANCE TaskLifecycle WITH stage <- [t \in Tasks |-> Stage(t)]

\* One client at a time: the board keeps every promise of TaskLifecycle.
ImplementsLifecycle == L!Spec

\* One client at a time: between operations, the last event that the live
\* views got says completed, failed or deleted only of a task that is.
EventsTellTheOutcome ==
  (\A p \in Procs : IsIdle(p)) => \A t \in Tasks :
    /\ lastEvent[t] = "completed" <=> (board[t] # None /\ board[t].status = "done")
    /\ lastEvent[t] = "deleted" <=> (board[t] = None /\ t \notin fresh)
    /\ (board[t] # None /\ board[t].status = "in_progress") => lastEvent[t] = "picked_up"

\* One request at a time: the board is the task lifecycle, and its live events
\* tell what became of a task.
BoardIsExact == []TypeOK /\ []EventsTellTheOutcome /\ ImplementsLifecycle
=============================================================================
