---------------------------- MODULE BoardProofs ----------------------------
(***************************************************************************)
(* Proofs about Board for any number of tasks, agents, event loops and     *)
(* worker threads.  The invariants of Board are not inductive: what is     *)
(* about to be written is in the operations in flight, so the inductive    *)
(* invariant IInv adds what each of them knows (OpOK).                     *)
(***************************************************************************)
EXTENDS Board, TLAPS

\* A document keeps the work summary with DONE.
DocOK(d) == d.status = "done" <=> d.result = "work"

\* What an operation in flight knows, by the call it is about to make.
OpOK(o) ==
  /\ o.pc # "idle" => o.task \in Tasks
  /\ o.pc = "set" =>
       /\ o.seen \in Doc /\ o.pending \in Doc
       /\ <<o.seen.status, o.pending.status>> \in ValidTransitions \cup UserAllowed
       /\ DocOK(o.pending)
       /\ o.pending.status = "done" => o.seen.status \in {"in_progress", "needs_approval"}
  /\ o.pc \in {"set", "emit"} /\ o.then = "finish" =>
       o.pending \in Doc /\ o.pending.status = "in_progress"
  /\ o.pc \in {"complete", "fail", "delete", "unset"} => o.then = "return"

IInv ==
  /\ TypeOK
  /\ \A p \in Procs : OpOK(op[p])
  /\ WorkSummaryIffDone

-----------------------------------------------------------------------------
(* Operations.                                                             *)

\* The idle operation is well formed and knows nothing.
LEMMA IdleIsOp == Idle \in Op /\ OpOK(Idle)
BY DEF Idle, Op, OpOK

\* What follows the task in hand is well formed and has nothing to write yet.
LEMMA FollowersAreOps ==
  ASSUME NEW o \in Op, NEW n \in Followers(o)
  PROVE  n \in Op /\ OpOK(n)
<1>1. CASE o.todo = {}
  BY <1>1, IdleIsOp DEF Followers
<1>2. CASE o.todo # {}
  <2>1. PICK t \in o.todo :
          n = [Idle EXCEPT !.kind = o.kind, !.pc = IF o.kind = "sweep" THEN "fail" ELSE "delete",
                           !.task = t, !.todo = o.todo \ {t}]
    BY <1>2 DEF Followers
  <2>2. t \in Tasks /\ o.todo \subseteq Tasks
    BY DEF Op
  <2>3. QED
    BY <2>1, <2>2 DEF Idle, Op, OpOK
<1>3. QED
  BY <1>1, <1>2

\* Replacing the operation of one process by a well formed one.
LEMMA OpUpdate ==
  ASSUME op \in [Procs -> Op], \A q \in Procs : OpOK(op[q]),
         NEW p \in Procs, NEW n \in Op, OpOK(n), op' = [op EXCEPT ![p] = n]
  PROVE  op' \in [Procs -> Op] /\ \A q \in Procs : OpOK(op'[q])
OBVIOUS

\* An operation that goes on to its next task, or returns.
LEMMA ReturnIsOp ==
  ASSUME op \in [Procs -> Op], \A q \in Procs : OpOK(op[q]),
         NEW p \in Procs, NEW o \in Op, Return(p, o)
  PROVE  op' \in [Procs -> Op] /\ \A q \in Procs : OpOK(op'[q])
<1>1. PICK n \in Followers(o) : op' = [op EXCEPT ![p] = n]
  BY DEF Return
<1>2. n \in Op /\ OpOK(n)
  BY FollowersAreOps
<1>3. QED
  BY <1>1, <1>2, OpUpdate

\* An operation that starts on a task.
LEMMA StartIsOp ==
  ASSUME op \in [Procs -> Op], \A q \in Procs : OpOK(op[q]), NEW p \in Procs,
         NEW t \in Tasks, NEW kind, NEW pc, Start(p, kind, pc, t),
         kind \in {"get", "fail", "force_fail", "delete"},
         pc \in {"pick_up", "fail", "delete"}
  PROVE  op' \in [Procs -> Op] /\ \A q \in Procs : OpOK(op'[q])
<1> DEFINE n == [Idle EXCEPT !.kind = kind, !.pc = pc, !.task = t]
<1>1. n \in Op /\ OpOK(n)
  BY DEF Idle, Op, OpOK
<1>2. QED
  BY <1>1, OpUpdate DEF Start

\* An operation that has read d and decided to write e.
LEMMA WillSetIsOp ==
  ASSUME NEW o \in Op, o.task \in Tasks, NEW d \in Doc, NEW e \in Doc, NEW event,
         event \in {"none", "created", "picked_up", "completed", "failed", "deleted"},
         <<d.status, e.status>> \in ValidTransitions \cup UserAllowed,
         DocOK(e),
         e.status = "done" => d.status \in {"in_progress", "needs_approval"},
         o.then = "finish" => e.status = "in_progress"
  PROVE  WillSet(o, d, e, event) \in Op /\ OpOK(WillSet(o, d, e, event))
<1> DEFINE w == WillSet(o, d, e, event)
<1>1. w \in Op
  BY DEF WillSet, Op
<1>2. w.pc = "set" /\ w.seen = d /\ w.pending = e /\ w.task = o.task /\ w.then = o.then
  BY DEF WillSet, Op
<1>3. QED
  BY <1>1, <1>2 DEF OpOK

-----------------------------------------------------------------------------
(* Documents.                                                              *)

\* A stored document that keeps WorkSummaryIffDone.
LEMMA StoredDoc ==
  ASSUME IInv, NEW t \in Tasks, board[t] # None
  PROVE  board[t] \in Doc /\ DocOK(board[t])
BY DEF IInv, TypeOK, WorkSummaryIffDone, DocOK

\* The tables mention statuses only, and DONE is entered from started work.
LEMMA Tables ==
  ASSUME NEW s, NEW u, <<s, u>> \in ValidTransitions \cup UserAllowed
  PROVE  /\ s \in Status /\ u \in Status /\ s # "done"
         /\ u = "done" => s \in {"in_progress", "needs_approval"}
BY DEF ValidTransitions, UserAllowed, Status

\* The copies that the methods make are documents of the target status.
LEMMA CopiesAreDocs ==
  ASSUME NEW d \in Doc, DocOK(d)
  PROVE  /\ \A s \in Status : s # "done" /\ d.status # "done" =>
               Moved(d, s) \in Doc /\ Moved(d, s).status = s /\ DocOK(Moved(d, s))
         /\ Completed(d) \in Doc /\ Completed(d).status = "done" /\ DocOK(Completed(d))
         /\ FailedDoc(d) \in Doc /\ FailedDoc(d).status = "failed" /\ DocOK(FailedDoc(d))
         /\ d.status # "done" =>
              Approved(d) \in Doc /\ Approved(d).status = "queued" /\ DocOK(Approved(d))
BY DEF Doc, DocOK, Status, Moved, Completed, FailedDoc, Approved

-----------------------------------------------------------------------------
(* The invariant, action by action.                                        *)

\* What the steps that touch neither documents nor events must preserve.
LEMMA OpOnlyStep ==
  ASSUME IInv, UNCHANGED <<board, fresh, old, lastEvent>>,
         op' \in [Procs -> Op] /\ \A q \in Procs : OpOK(op'[q])
  PROVE  IInv'
BY DEF IInv, TypeOK, WorkSummaryIffDone

\* A request is accepted: its operation starts, or creates its task.
LEMMA BeginStep ==
  ASSUME IInv, NEW p \in Procs, Begin(p)
  PROVE  IInv'
<1>a. op \in [Procs -> Op] /\ \A q \in Procs : OpOK(op[q])
  BY DEF IInv, TypeOK
<1>1. ASSUME NEW t \in Tasks, NEW s \in {"backlog", "queued"}, NEW a \in Agents,
             NEW r \in BOOLEAN, CreateTask(p, t, s, a, r)
      PROVE  IInv'
  <2> DEFINE d == [status |-> s, result |-> "none", assignee |-> a,
                   requires_approval |-> r, approved |-> FALSE]
             n == [Idle EXCEPT !.kind = "create", !.pc = "emit", !.task = t,
                               !.event = "created"]
  <2>1. d \in Doc /\ (d.status = "done" <=> d.result = "work")
    BY DEF Doc, Status
  <2>2. n \in Op /\ OpOK(n)
    BY DEF Idle, Op, OpOK
  <2>3. op' \in [Procs -> Op] /\ \A q \in Procs : OpOK(op'[q])
    BY <1>1, <1>a, <2>2, OpUpdate DEF CreateTask
  <2>4. board' = [board EXCEPT ![t] = d] /\ fresh' = fresh \ {t} /\ UNCHANGED <<old, lastEvent>>
    BY <1>1 DEF CreateTask
  <2>5. WorkSummaryIffDone'
    BY <2>1, <2>4 DEF IInv, TypeOK, WorkSummaryIffDone
  <2>6. TypeOK'
    BY <2>1, <2>3, <2>4 DEF IInv, TypeOK
  <2>7. QED
    BY <2>3, <2>5, <2>6 DEF IInv
<1>2. ASSUME NEW t \in Tasks,
             \/ GetBoardTask(p, t) \/ FailBoardTask(p, t)
             \/ ForceFail(p, t) \/ DeleteTask(p, t)
      PROVE  IInv'
  BY <1>2, <1>a, StartIsOp, OpOnlyStep DEF GetBoardTask, FailBoardTask, ForceFail, DeleteTask
<1>3. ASSUME NEW t \in Tasks, NEW c \in Agents, CompleteBoardTask(p, t, c)
      PROVE  IInv'
  <2> DEFINE gate == board[t].status = "queued" /\ c = board[t].assignee
             n == [Idle EXCEPT !.kind = "complete", !.task = t, !.caller = c,
                               !.pc   = IF gate THEN "pick_up" ELSE "complete",
                               !.then = IF gate THEN "complete" ELSE "return"]
  <2>1. n \in Op /\ OpOK(n)
    BY DEF Idle, Op, OpOK
  <2>2. op' = [op EXCEPT ![p] = n] /\ UNCHANGED <<board, fresh, old, lastEvent>>
    BY <1>3 DEF CompleteBoardTask
  <2>3. op' \in [Procs -> Op] /\ \A q \in Procs : OpOK(op'[q])
    <3> HIDE DEF n
    <3> QED BY <1>a, <2>1, <2>2, OpUpdate
  <2>4. QED
    BY <2>2, <2>3, OpOnlyStep
<1>4. ASSUME NEW t \in Tasks, NEW e \in Doc, NEW kind, board[t] # None,
             kind \in {"move", "approve", "reject", "request_approval"},
             <<board[t].status, e.status>> \in ValidTransitions \cup UserAllowed,
             e.status # "done", DocOK(e), UserWrite(p, kind, t, e)
      PROVE  IInv'
  <2> DEFINE i == [Idle EXCEPT !.kind = kind, !.task = t]
             n == WillSet(i, board[t], e, "none")
  <2>1. i \in Op /\ i.task \in Tasks /\ i.then = "return"
    BY <1>4 DEF Idle, Op
  <2>2. board[t] \in Doc
    BY <1>4, StoredDoc
  <2>3. n \in Op /\ OpOK(n)
    <3> HIDE DEF i
    <3> QED BY <1>4, <2>1, <2>2, WillSetIsOp
  <2>4. op' = [op EXCEPT ![p] = n] /\ UNCHANGED <<board, fresh, old, lastEvent>>
    BY <1>4 DEF UserWrite
  <2>5. op' \in [Procs -> Op] /\ \A q \in Procs : OpOK(op'[q])
    <3> HIDE DEF n
    <3> QED BY <1>a, <2>3, <2>4, OpUpdate
  <2>6. QED
    BY <2>4, <2>5, OpOnlyStep
<1>5. ASSUME NEW t \in Tasks, NEW s \in Status, MoveStatus(p, t, s)
      PROVE  IInv'
  <2>1. board[t] # None /\ <<board[t].status, s>> \in UserAllowed
    BY <1>5 DEF MoveStatus
  <2>2. board[t] \in Doc /\ DocOK(board[t]) /\ board[t].status # "done" /\ s # "done"
    BY <2>1, StoredDoc, Tables DEF UserAllowed
  <2>3. Moved(board[t], s) \in Doc /\ Moved(board[t], s).status = s /\ DocOK(Moved(board[t], s))
    BY <2>2, CopiesAreDocs
  <2>4. QED
    BY <1>4, <1>5, <2>1, <2>2, <2>3 DEF MoveStatus
<1>6. ASSUME NEW t \in Tasks, Approve(p, t)
      PROVE  IInv'
  <2>1. board[t] # None /\ board[t].status = "needs_approval"
    BY <1>6 DEF Approve
  <2>2. board[t] \in Doc /\ DocOK(board[t])
    BY <2>1, StoredDoc
  <2>3. /\ Approved(board[t]) \in Doc /\ Approved(board[t]).status = "queued"
        /\ DocOK(Approved(board[t]))
    BY <2>1, <2>2, CopiesAreDocs
  <2>4. <<"needs_approval", "queued">> \in UserAllowed
    BY DEF UserAllowed
  <2>5. QED
    BY <1>4, <1>6, <2>1, <2>2, <2>3, <2>4 DEF Approve
<1>7. ASSUME NEW t \in Tasks, Reject(p, t)
      PROVE  IInv'
  <2>1. board[t] # None /\ board[t].status = "needs_approval"
    BY <1>7 DEF Reject
  <2>2. board[t] \in Doc /\ DocOK(board[t])
    BY <2>1, StoredDoc
  <2>3. /\ Moved(board[t], "failed") \in Doc /\ Moved(board[t], "failed").status = "failed"
        /\ DocOK(Moved(board[t], "failed"))
    BY <2>1, <2>2, CopiesAreDocs DEF Status
  <2>4. <<"needs_approval", "failed">> \in UserAllowed
    BY DEF UserAllowed
  <2>5. QED
    BY <1>4, <1>7, <2>1, <2>2, <2>3, <2>4 DEF Reject
<1>8. ASSUME NEW t \in Tasks, RequestApproval(p, t)
      PROVE  IInv'
  <2>1. board[t] # None /\ <<board[t].status, "needs_approval">> \in ValidTransitions
    BY <1>8 DEF RequestApproval, CanGo
  <2>2. board[t] \in Doc /\ DocOK(board[t]) /\ board[t].status # "done"
    BY <2>1, StoredDoc, Tables
  <2>3. /\ Moved(board[t], "needs_approval") \in Doc
        /\ Moved(board[t], "needs_approval").status = "needs_approval"
        /\ DocOK(Moved(board[t], "needs_approval"))
    BY <2>2, CopiesAreDocs DEF Status
  <2>4. QED
    BY <1>4, <1>8, <2>1, <2>2, <2>3 DEF RequestApproval
<1>9. ASSUME SweepStalled(p)
      PROVE  IInv'
  <2> DEFINE o == [Idle EXCEPT !.kind = "sweep", !.todo = Stalled]
  <2>1. o \in Op
    BY DEF Idle, Op, Stalled
  <2>2. Return(p, o) /\ UNCHANGED <<board, fresh, old, lastEvent>>
    BY <1>9 DEF SweepStalled
  <2>3. QED
    <3> HIDE DEF o
    <3> QED BY <1>a, <2>1, <2>2, ReturnIsOp, OpOnlyStep
<1>10. ASSUME NEW S \in SUBSET Tasks, BulkDelete(p, S)
       PROVE  IInv'
  <2> DEFINE o == [Idle EXCEPT !.kind = "bulk_delete", !.todo = S]
  <2>1. o \in Op
    BY DEF Idle, Op
  <2>2. Return(p, o) /\ UNCHANGED <<board, fresh, old, lastEvent>>
    BY <1>10 DEF BulkDelete
  <2>3. QED
    <3> HIDE DEF o
    <3> QED BY <1>a, <2>1, <2>2, ReturnIsOp, OpOnlyStep
<1>11. QED
  BY <1>1, <1>2, <1>3, <1>5, <1>6, <1>7, <1>8, <1>9, <1>10 DEF Begin

\* An operation in flight makes its next call.
LEMMA ContinueStep ==
  ASSUME IInv, NEW p \in Procs, Continue(p)
  PROVE  IInv'
<1> DEFINE o == op[p]
           d == board[o.task]
<1>a. /\ op \in [Procs -> Op] /\ \A q \in Procs : OpOK(op[q])
      /\ o \in Op /\ OpOK(o)
  BY DEF IInv, TypeOK
<1>b. o.pc # "idle" => o.task \in Tasks
  BY <1>a DEF OpOK
<1>c. d # None /\ o.pc # "idle" => d \in Doc /\ DocOK(d)
  BY <1>b, StoredDoc
<1>1. CASE PickUp(p)
  <2>1. o.pc = "pick_up" /\ UNCHANGED <<board, fresh, old, lastEvent>>
    BY <1>1 DEF PickUp
  <2>2. CASE CanGo(d, "in_progress") /\
             op' = [op EXCEPT ![p] = WillSet(o, d, Moved(d, "in_progress"), "picked_up")]
    <3> DEFINE e == Moved(d, "in_progress")
    <3>1. d \in Doc /\ DocOK(d) /\ <<d.status, "in_progress">> \in ValidTransitions
      BY <1>c, <2>1, <2>2 DEF CanGo
    <3>2. e \in Doc /\ e.status = "in_progress" /\ DocOK(e)
      BY <3>1, Tables, CopiesAreDocs DEF Status
    <3>3. WillSet(o, d, e, "picked_up") \in Op /\ OpOK(WillSet(o, d, e, "picked_up"))
      <4> HIDE DEF o, d, e
      <4> QED BY <1>a, <1>b, <2>1, <3>1, <3>2, WillSetIsOp
    <3>4. QED
      BY <1>a, <2>1, <2>2, <3>3, OpUpdate, OpOnlyStep
  <2>3. CASE op' = [op EXCEPT ![p].pc = "complete", ![p].then = "return"]
    <3> DEFINE n == [o EXCEPT !.pc = "complete", !.then = "return"]
    <3>1. n \in Op /\ OpOK(n)
      BY <1>a, <1>b, <2>1 DEF Op, OpOK
    <3>2. op' = [op EXCEPT ![p] = n]
      BY <1>a, <2>3
    <3>3. QED
      <4> HIDE DEF n
      <4> QED BY <1>a, <2>1, <3>1, <3>2, OpUpdate, OpOnlyStep
  <2>4. CASE Return(p, o)
    BY <1>a, <2>1, <2>4, ReturnIsOp, OpOnlyStep
  <2>5. QED
    BY <1>1, <2>2, <2>3, <2>4 DEF PickUp
<1>2. CASE Complete(p)
  <2>1. o.pc = "complete" /\ UNCHANGED <<board, fresh, old, lastEvent>>
    BY <1>2 DEF Complete
  <2>2. CASE op' = [op EXCEPT ![p].pc = "pick_up", ![p].then = "finish"]
    <3> DEFINE n == [o EXCEPT !.pc = "pick_up", !.then = "finish"]
    <3>1. n \in Op /\ OpOK(n)
      BY <1>a, <1>b, <2>1 DEF Op, OpOK
    <3>2. op' = [op EXCEPT ![p] = n]
      BY <1>a, <2>2
    <3>3. QED
      <4> HIDE DEF n
      <4> QED BY <1>a, <2>1, <3>1, <3>2, OpUpdate, OpOnlyStep
  <2>3. CASE CanGo(d, "done") /\
             op' = [op EXCEPT ![p] = WillSet(o, d, Completed(d), "completed")]
    <3>1. d \in Doc /\ DocOK(d) /\ <<d.status, "done">> \in ValidTransitions
      BY <1>c, <2>1, <2>3 DEF CanGo
    <3>2. o.then # "finish"
      BY <1>a, <2>1 DEF OpOK
    <3>3. WillSet(o, d, Completed(d), "completed") \in Op
          /\ OpOK(WillSet(o, d, Completed(d), "completed"))
      <4> HIDE DEF o, d
      <4> QED BY <1>a, <1>b, <2>1, <3>1, <3>2, CopiesAreDocs, Tables, WillSetIsOp
    <3>4. QED
      BY <1>a, <2>1, <2>3, <3>3, OpUpdate, OpOnlyStep
  <2>4. CASE Return(p, o)
    BY <1>a, <2>1, <2>4, ReturnIsOp, OpOnlyStep
  <2>5. QED
    BY <1>2, <2>2, <2>3, <2>4 DEF Complete
<1>3. CASE Fail(p)
  <2>1. o.pc = "fail" /\ UNCHANGED <<board, fresh, old, lastEvent>>
    BY <1>3 DEF Fail
  <2>2. CASE CanGo(d, "failed") /\
             op' = [op EXCEPT ![p] = WillSet(o, d, FailedDoc(d), "failed")]
    <3>1. d \in Doc /\ DocOK(d) /\ <<d.status, "failed">> \in ValidTransitions
      BY <1>c, <2>1, <2>2 DEF CanGo
    <3>2. WillSet(o, d, FailedDoc(d), "failed") \in Op
          /\ OpOK(WillSet(o, d, FailedDoc(d), "failed"))
      <4>1. o.then # "finish"
        BY <1>a, <2>1 DEF OpOK
      <4> HIDE DEF o, d
      <4>2. QED BY <1>a, <1>b, <2>1, <3>1, <4>1, CopiesAreDocs, WillSetIsOp
    <3>3. QED
      BY <1>a, <2>1, <2>2, <3>2, OpUpdate, OpOnlyStep
  <2>3. CASE Return(p, o)
    BY <1>a, <2>1, <2>3, ReturnIsOp, OpOnlyStep
  <2>4. QED
    BY <1>3, <2>2, <2>3 DEF Fail
<1>4. CASE Delete(p)
  <2>1. o.pc = "delete" /\ UNCHANGED <<board, fresh, old, lastEvent>>
    BY <1>4 DEF Delete
  <2>2. CASE op' = [op EXCEPT ![p].pc = "unset", ![p].event = "deleted"]
    <3> DEFINE n == [o EXCEPT !.pc = "unset", !.event = "deleted"]
    <3>1. n \in Op /\ OpOK(n)
      BY <1>a, <1>b, <2>1 DEF Op, OpOK
    <3>2. op' = [op EXCEPT ![p] = n]
      BY <1>a, <2>2
    <3>3. QED
      <4> HIDE DEF n
      <4> QED BY <1>a, <2>1, <3>1, <3>2, OpUpdate, OpOnlyStep
  <2>3. CASE Return(p, o)
    BY <1>a, <2>1, <2>3, ReturnIsOp, OpOnlyStep
  <2>4. QED
    BY <1>4, <2>2, <2>3 DEF Delete
<1>5. CASE RepoUpdate(p)
  <2>1. /\ o.pc = "set" /\ o.task \in Tasks /\ o.pending \in Doc /\ DocOK(o.pending)
        /\ o.then = "finish" => o.pending.status = "in_progress"
        /\ board' = [board EXCEPT ![o.task] = o.pending]
        /\ old' = old \ {o.task} /\ UNCHANGED <<fresh, lastEvent>>
    BY <1>5, <1>a DEF RepoUpdate, OpOK
  <2>2. op' \in [Procs -> Op] /\ \A q \in Procs : OpOK(op'[q])
    <3>1. CASE Return(p, o)
      BY <1>a, <3>1, ReturnIsOp
    <3>2. CASE op' = [op EXCEPT ![p].pc = "emit"]
      <4> DEFINE n == [o EXCEPT !.pc = "emit"]
      <4>1. n \in Op /\ OpOK(n)
        BY <1>a, <1>b, <2>1 DEF Op, OpOK
      <4>2. op' = [op EXCEPT ![p] = n]
        BY <1>a, <3>2
      <4>3. QED
        <5> HIDE DEF n
        <5> QED BY <1>a, <4>1, <4>2, OpUpdate
    <3>3. QED
      BY <1>5, <3>1, <3>2 DEF RepoUpdate
  <2>3. WorkSummaryIffDone'
    <3> HIDE DEF o
    <3> QED BY <2>1 DEF IInv, TypeOK, WorkSummaryIffDone, DocOK
  <2>4. TypeOK'
    <3> HIDE DEF o
    <3> QED BY <2>1, <2>2 DEF IInv, TypeOK
  <2>5. QED
    BY <2>2, <2>3, <2>4 DEF IInv
<1>6. CASE RepoDelete(p)
  <2>1. /\ o.pc = "unset" /\ o.task \in Tasks
        /\ board' = [board EXCEPT ![o.task] = None]
        /\ old' = old \ {o.task} /\ UNCHANGED <<fresh, lastEvent>>
        /\ op' = [op EXCEPT ![p].pc = "emit"]
    BY <1>6, <1>b DEF RepoDelete
  <2> DEFINE n == [o EXCEPT !.pc = "emit"]
  <2>2. n \in Op /\ OpOK(n)
    BY <1>a, <1>b, <2>1 DEF Op, OpOK
  <2>3. op' = [op EXCEPT ![p] = n]
    BY <1>a, <2>1
  <2>4. op' \in [Procs -> Op] /\ \A q \in Procs : OpOK(op'[q])
    <3> HIDE DEF n
    <3> QED BY <1>a, <2>2, <2>3, OpUpdate
  <2>5. WorkSummaryIffDone' /\ TypeOK'
    <3> HIDE DEF o
    <3> QED BY <2>1, <2>4 DEF IInv, TypeOK, WorkSummaryIffDone
  <2>6. QED
    BY <2>4, <2>5 DEF IInv
<1>7. CASE Emit(p)
  <2>1. /\ o.pc = "emit" /\ o.task \in Tasks
        /\ lastEvent' = [lastEvent EXCEPT ![o.task] = o.event]
        /\ UNCHANGED <<board, fresh, old>>
    BY <1>7, <1>b DEF Emit
  <2>2. op' \in [Procs -> Op] /\ \A q \in Procs : OpOK(op'[q])
    <3>1. CASE Return(p, o)
      BY <1>a, <3>1, ReturnIsOp
    <3>2. CASE op' = [op EXCEPT ![p] =
                 [Idle EXCEPT !.kind = o.kind, !.caller = o.caller, !.task = o.task,
                              !.pc = "complete"]]
      <4> DEFINE n == [Idle EXCEPT !.kind = o.kind, !.caller = o.caller, !.task = o.task,
                                   !.pc = "complete"]
      <4>1. n \in Op /\ OpOK(n)
        BY <1>a, <2>1 DEF Idle, Op, OpOK
      <4>2. op' = [op EXCEPT ![p] = n]
        BY <3>2
      <4>3. QED
        <5> HIDE DEF n
        <5> QED BY <1>a, <4>1, <4>2, OpUpdate
    <3>3. CASE /\ o.then = "finish"
               /\ op' = [op EXCEPT ![p] =
                    WillSet([o EXCEPT !.then = "return"], o.pending, Completed(o.pending),
                            "completed")]
      <4> DEFINE i == [o EXCEPT !.then = "return"]
                 e == Completed(o.pending)
                 n == WillSet(i, o.pending, e, "completed")
      <4>1. i \in Op /\ i.task \in Tasks /\ i.then = "return"
        BY <1>a, <2>1 DEF Op
      <4>2. o.pending \in Doc /\ o.pending.status = "in_progress"
        BY <1>a, <2>1, <3>3 DEF OpOK
      <4>3. e \in Doc /\ e.status = "done" /\ DocOK(e)
        BY <4>2 DEF Doc, DocOK, Status, Completed
      <4>4. <<"in_progress", "done">> \in ValidTransitions
        BY DEF ValidTransitions
      <4>5. n \in Op /\ OpOK(n)
        <5> HIDE DEF i, e, o
        <5> QED BY <4>1, <4>2, <4>3, <4>4, WillSetIsOp
      <4>6. op' = [op EXCEPT ![p] = n]
        BY <3>3
      <4>7. QED
        <5> HIDE DEF n
        <5> QED BY <1>a, <4>5, <4>6, OpUpdate
    <3>4. QED
      BY <1>7, <3>1, <3>2, <3>3 DEF Emit
  <2>3. o.event \in {"none", "created", "picked_up", "completed", "failed", "deleted"}
    BY <1>a DEF Op
  <2>4. WorkSummaryIffDone' /\ TypeOK'
    <3> HIDE DEF o
    <3> QED BY <2>1, <2>2, <2>3 DEF IInv, TypeOK, WorkSummaryIffDone
  <2>5. QED
    BY <2>2, <2>4 DEF IInv
<1>8. QED
  BY <1>1, <1>2, <1>3, <1>4, <1>5, <1>6, <1>7 DEF Continue

-----------------------------------------------------------------------------
(* The invariance theorems.                                                *)

\* The empty board, with every process idle, satisfies the invariant.
LEMMA InitInv == Init => IInv
<1> SUFFICES ASSUME Init PROVE IInv
  OBVIOUS
<1>1. TypeOK
  BY IdleIsOp DEF Init, TypeOK
<1>2. QED
  BY <1>1, IdleIsOp DEF Init, IInv, WorkSummaryIffDone

\* Every step keeps the inductive invariant: only RepoUpdate, RepoDelete and
\* CreateTask touch documents, and they store what OpOK says of the operation.
LEMMA NextInv == IInv /\ [Next]_vars => IInv'
<1> SUFFICES ASSUME IInv, [Next]_vars PROVE IInv'
  OBVIOUS
<1>1. CASE \E t \in Tasks : Stall(t)
  <2>1. PICK t \in Tasks : old' = old \cup {t} /\ UNCHANGED <<board, fresh, op, lastEvent>>
    BY <1>1 DEF Stall
  <2>2. QED
    BY <2>1 DEF IInv, TypeOK, WorkSummaryIffDone
<1>2. CASE UNCHANGED vars
  BY <1>2 DEF vars, IInv, TypeOK, WorkSummaryIffDone
<1>3. QED
  BY <1>1, <1>2, BeginStep, ContinueStep DEF Next

\* Every reachable state satisfies the inductive invariant.
THEOREM Invariance == Spec => []IInv
BY InitInv, NextInv, PTL DEF Spec

\* The documents and the operations in flight keep their types.
THEOREM TypeCorrect == Spec => []TypeOK
<1>1. IInv => TypeOK
  BY DEF IInv
<1>2. QED
  BY <1>1, Invariance, PTL

\* Full-document writes, even lost ones, never leave a work summary on a task
\* that is not DONE or a DONE task without one.
THEOREM WorkSummaryOnlyWithDone == Spec => []WorkSummaryIffDone
<1>1. IInv => WorkSummaryIffDone
  BY DEF IInv
<1>2. QED
  BY <1>1, Invariance, PTL

\* No operation completes a task that it did not see started.
THEOREM CompletionsComeFromStartedWork == Spec => []DoneFromStartedWork
<1>1. IInv => DoneFromStartedWork
  BY DEF IInv, OpOK, DoneFromStartedWork
<1>2. QED
  BY <1>1, Invariance, PTL

-----------------------------------------------------------------------------
(* Ids that no create has drawn are not used yet.                          *)

Touches(o) == {o.task} \cup o.todo

FreshOK ==
  \A t \in fresh : board[t] = None /\ \A p \in Procs : t \notin Touches(op[p])

\* What follows a task in hand touches only tasks of the list.
LEMMA FollowersTouch ==
  ASSUME NEW o, NEW n \in Followers(o)
  PROVE  Touches(n) \subseteq o.todo \cup {None}
<1>1. CASE o.todo = {}
  BY <1>1 DEF Followers, Touches, Idle
<1>2. CASE o.todo # {}
  <2>1. PICK t \in o.todo :
          n = [Idle EXCEPT !.kind = o.kind, !.pc = IF o.kind = "sweep" THEN "fail" ELSE "delete",
                           !.task = t, !.todo = o.todo \ {t}]
    BY <1>2 DEF Followers
  <2>2. n.task = t /\ n.todo = o.todo \ {t}
    BY <2>1 DEF Idle
  <2>3. QED
    BY <2>2 DEF Touches
<1>3. QED
  BY <1>1, <1>2

\* An update of the operation of p that touches no fresh task.
LEMMA FreshUpdate ==
  ASSUME TypeOK, FreshOK, NEW p \in Procs, NEW n, op' = [op EXCEPT ![p] = n],
         UNCHANGED <<board, fresh>>, Touches(n) \cap fresh = {}
  PROVE  FreshOK'
BY DEF TypeOK, FreshOK

\* An operation that returns, or turns to its next task, touches no fresh id.
LEMMA FreshReturn ==
  ASSUME TypeOK, FreshOK, NEW p \in Procs, NEW o, Return(p, o),
         UNCHANGED <<board, fresh>>, o.todo \cap fresh = {}
  PROVE  FreshOK'
<1>1. PICK n \in Followers(o) : op' = [op EXCEPT ![p] = n]
  BY DEF Return
<1>2. Touches(n) \cap fresh = {}
  BY FollowersTouch, BoardAssumption DEF TypeOK
<1>3. QED
  BY <1>1, <1>2, FreshUpdate

\* A request that begins works on an id that was drawn before, or draws one.
LEMMA FreshBegin ==
  ASSUME IInv, FreshOK, NEW p \in Procs, Begin(p)
  PROVE  FreshOK'
<1>a. TypeOK /\ op \in [Procs -> Op]
  BY DEF IInv, TypeOK
<1>1. ASSUME NEW t \in Tasks, NEW s \in {"backlog", "queued"}, NEW a \in Agents,
             NEW r \in BOOLEAN, CreateTask(p, t, s, a, r)
      PROVE  FreshOK'
  <2> DEFINE n == [Idle EXCEPT !.kind = "create", !.pc = "emit", !.task = t,
                               !.event = "created"]
  <2>1. /\ op' = [op EXCEPT ![p] = n] /\ fresh' = fresh \ {t}
        /\ \A u \in Tasks \ {t} : board'[u] = board[u]
    BY <1>1, <1>a DEF CreateTask, TypeOK
  <2>2. Touches(n) = {t}
    BY DEF Touches, Idle
  <2>3. QED
    <3> HIDE DEF n
    <3> QED BY <1>a, <2>1, <2>2 DEF FreshOK, TypeOK
<1>2. ASSUME NEW t \in Tasks \ fresh, NEW n, op' = [op EXCEPT ![p] = n],
             n.task = t, n.todo = {}, UNCHANGED <<board, fresh>>
      PROVE  FreshOK'
  BY <1>a, <1>2, FreshUpdate DEF Touches
<1>3. ASSUME NEW t \in Tasks, board[t] # None
      PROVE  t \notin fresh
  BY <1>3 DEF FreshOK
<1>4. ASSUME NEW t \in Tasks,
             GetBoardTask(p, t) \/ FailBoardTask(p, t) \/ ForceFail(p, t) \/ DeleteTask(p, t)
      PROVE  FreshOK'
  <2>1. t \notin fresh /\ UNCHANGED <<board, fresh>>
    BY <1>3, <1>4 DEF GetBoardTask, FailBoardTask, ForceFail, DeleteTask
  <2>2. PICK kind, pc : op' = [op EXCEPT ![p] = [Idle EXCEPT !.kind = kind, !.pc = pc, !.task = t]]
    BY <1>4 DEF GetBoardTask, FailBoardTask, ForceFail, DeleteTask, Start
  <2> DEFINE n == [Idle EXCEPT !.kind = kind, !.pc = pc, !.task = t]
  <2>3. n.task = t /\ n.todo = {}
    BY DEF Idle
  <2>4. op' = [op EXCEPT ![p] = n]
    BY <2>2
  <2>5. QED
    <3> HIDE DEF n
    <3> QED BY <1>2, <2>1, <2>3, <2>4
<1>5. ASSUME NEW t \in Tasks, NEW c \in Agents, CompleteBoardTask(p, t, c)
      PROVE  FreshOK'
  <2>1. t \notin fresh /\ UNCHANGED <<board, fresh>>
    BY <1>3, <1>5 DEF CompleteBoardTask
  <2>2. PICK pc, then : op' = [op EXCEPT ![p] =
          [Idle EXCEPT !.kind = "complete", !.task = t, !.caller = c, !.pc = pc, !.then = then]]
    BY <1>5 DEF CompleteBoardTask
  <2> DEFINE n == [Idle EXCEPT !.kind = "complete", !.task = t, !.caller = c, !.pc = pc, !.then = then]
  <2>3. n.task = t /\ n.todo = {}
    BY DEF Idle
  <2>4. op' = [op EXCEPT ![p] = n]
    BY <2>2
  <2>5. QED
    <3> HIDE DEF n
    <3> QED BY <1>2, <2>1, <2>3, <2>4
<1>6. ASSUME NEW t \in Tasks,
             \/ \E s \in Status : MoveStatus(p, t, s)
             \/ Approve(p, t) \/ Reject(p, t) \/ RequestApproval(p, t)
      PROVE  FreshOK'
  <2>1. t \notin fresh /\ UNCHANGED <<board, fresh>>
    BY <1>3, <1>6 DEF MoveStatus, Approve, Reject, RequestApproval, CanGo, UserWrite
  <2>2. PICK kind, e : op' = [op EXCEPT ![p] =
          WillSet([Idle EXCEPT !.kind = kind, !.task = t], board[t], e, "none")]
    BY <1>6 DEF MoveStatus, Approve, Reject, RequestApproval, UserWrite
  <2> DEFINE n == WillSet([Idle EXCEPT !.kind = kind, !.task = t], board[t], e, "none")
  <2>3. n.task = t /\ n.todo = {}
    BY DEF Idle, WillSet
  <2>4. op' = [op EXCEPT ![p] = n]
    BY <2>2
  <2>5. QED
    <3> HIDE DEF n
    <3> QED BY <1>2, <2>1, <2>3, <2>4
<1>7. ASSUME SweepStalled(p)
      PROVE  FreshOK'
  <2> DEFINE o == [Idle EXCEPT !.kind = "sweep", !.todo = Stalled]
  <2>1. o.todo \cap fresh = {}
    BY <1>3 DEF Idle, Stalled
  <2>2. Return(p, o) /\ UNCHANGED <<board, fresh>>
    BY <1>7 DEF SweepStalled
  <2>3. QED
    <3> HIDE DEF o
    <3> QED BY <1>a, <2>1, <2>2, FreshReturn
<1>8. ASSUME NEW S \in SUBSET Tasks, BulkDelete(p, S)
      PROVE  FreshOK'
  <2> DEFINE o == [Idle EXCEPT !.kind = "bulk_delete", !.todo = S]
  <2>1. o.todo \cap fresh = {}
    BY <1>3, <1>8 DEF Idle, BulkDelete
  <2>2. Return(p, o) /\ UNCHANGED <<board, fresh>>
    BY <1>8 DEF BulkDelete
  <2>3. QED
    <3> HIDE DEF o
    <3> QED BY <1>a, <2>1, <2>2, FreshReturn
<1>9. QED
  BY <1>1, <1>4, <1>5, <1>6, <1>7, <1>8 DEF Begin

\* An operation in flight goes on with ids that it already touches.
LEMMA FreshContinue ==
  ASSUME IInv, FreshOK, NEW p \in Procs, Continue(p)
  PROVE  FreshOK'
<1> DEFINE o == op[p]
<1>a. TypeOK /\ o \in Op /\ (o.pc # "idle" => o.task \in Tasks)
  BY DEF IInv, TypeOK, OpOK
<1>b. o.todo \cap fresh = {} /\ (o.pc # "idle" => o.task \notin fresh)
  BY DEF FreshOK, Touches
<1>1. o.pc # "idle" /\ fresh' = fresh /\ \A t \in fresh : board'[t] = board[t]
  BY <1>a, <1>b DEF Continue, PickUp, Complete, Fail, Delete, RepoUpdate, RepoDelete, Emit, TypeOK
<1>2. CASE Return(p, o)
  <2>1. PICK n \in Followers(o) : op' = [op EXCEPT ![p] = n]
    BY <1>2 DEF Return
  <2>2. Touches(n) \cap fresh = {}
    BY <1>a, <1>b, FollowersTouch, BoardAssumption DEF TypeOK
  <2>3. QED
    BY <1>a, <1>1, <2>1, <2>2 DEF FreshOK, TypeOK
<1>3. ASSUME NEW n, op' = [op EXCEPT ![p] = n], n.task = o.task, n.todo \subseteq o.todo
      PROVE  FreshOK'
  <2>1. Touches(n) \cap fresh = {}
    BY <1>b, <1>1, <1>3 DEF Touches
  <2>2. QED
    BY <1>a, <1>1, <1>3, <2>1 DEF FreshOK, TypeOK
<1>4. ASSUME ~Return(p, o)
      PROVE  \E n : op' = [op EXCEPT ![p] = n] /\ n.task = o.task /\ n.todo \subseteq o.todo
  <2>1. CASE PickUp(p)
    <3>1. WillSet(o, board[o.task], Moved(board[o.task], "in_progress"), "picked_up").task = o.task
          /\ WillSet(o, board[o.task], Moved(board[o.task], "in_progress"), "picked_up").todo = o.todo
      BY <1>a DEF WillSet, Op
    <3>2. [o EXCEPT !.pc = "complete", !.then = "return"].task = o.task
          /\ [o EXCEPT !.pc = "complete", !.then = "return"].todo = o.todo
      BY <1>a DEF Op
    <3>3. QED
      BY <1>4, <2>1, <3>1, <3>2 DEF PickUp
  <2>2. CASE Complete(p)
    <3>1. WillSet(o, board[o.task], Completed(board[o.task]), "completed").task = o.task
          /\ WillSet(o, board[o.task], Completed(board[o.task]), "completed").todo = o.todo
      BY <1>a DEF WillSet, Op
    <3>2. [o EXCEPT !.pc = "pick_up", !.then = "finish"].task = o.task
          /\ [o EXCEPT !.pc = "pick_up", !.then = "finish"].todo = o.todo
      BY <1>a DEF Op
    <3>3. QED
      BY <1>4, <2>2, <3>1, <3>2 DEF Complete
  <2>3. CASE Fail(p)
    <3>1. WillSet(o, board[o.task], FailedDoc(board[o.task]), "failed").task = o.task
          /\ WillSet(o, board[o.task], FailedDoc(board[o.task]), "failed").todo = o.todo
      BY <1>a DEF WillSet, Op
    <3>2. QED
      BY <1>4, <2>3, <3>1 DEF Fail
  <2>4. CASE Delete(p)
    <3>1. [o EXCEPT !.pc = "unset", !.event = "deleted"].task = o.task
          /\ [o EXCEPT !.pc = "unset", !.event = "deleted"].todo = o.todo
      BY <1>a DEF Op
    <3>2. QED
      BY <1>4, <2>4, <3>1 DEF Delete
  <2>5. CASE RepoUpdate(p) \/ RepoDelete(p)
    <3>1. [o EXCEPT !.pc = "emit"].task = o.task /\ [o EXCEPT !.pc = "emit"].todo = o.todo
      BY <1>a DEF Op
    <3>2. QED
      BY <1>4, <2>5, <3>1 DEF RepoUpdate, RepoDelete
  <2>6. CASE Emit(p)
    <3> DEFINE n1 == [Idle EXCEPT !.kind = o.kind, !.caller = o.caller, !.task = o.task,
                                  !.pc = "complete"]
               n2 == WillSet([o EXCEPT !.then = "return"], o.pending, Completed(o.pending),
                             "completed")
    <3>1. n1.task = o.task /\ n1.todo \subseteq o.todo
      BY DEF Idle
    <3>2. n2.task = o.task /\ n2.todo = o.todo
      BY <1>a DEF WillSet, Op
    <3>3. op' = [op EXCEPT ![p] = n1] \/ op' = [op EXCEPT ![p] = n2]
      BY <1>4, <2>6 DEF Emit
    <3>4. QED
      <4> HIDE DEF n1, n2
      <4> QED BY <3>1, <3>2, <3>3
  <2>7. QED
    BY <2>1, <2>2, <2>3, <2>4, <2>5, <2>6 DEF Continue
<1>5. QED
  BY <1>2, <1>3, <1>4

\* An id that no create has drawn has no document, and no operation in flight
\* works on it: what UUIDs give the code.
THEOREM FreshIdsAreUnused == Spec => []FreshOK
<1>1. Init => FreshOK
  BY BoardAssumption DEF Init, FreshOK, Touches, Idle
<1>2. IInv /\ FreshOK /\ [Next]_vars => FreshOK'
  <2> SUFFICES ASSUME IInv, FreshOK, [Next]_vars PROVE FreshOK'
    OBVIOUS
  <2>1. CASE (\E t \in Tasks : Stall(t)) \/ UNCHANGED vars
    BY <2>1 DEF Stall, vars, FreshOK
  <2>2. QED
    BY <2>1, FreshBegin, FreshContinue DEF Next
<1>3. QED
  BY <1>1, <1>2, Invariance, PTL DEF Spec

-----------------------------------------------------------------------------
(* Only a lost update takes a task out of its lifecycle.                   *)

\* Every write that leaves the lifecycle is made over a document that changed
\* since its writer read it: a write over the document read follows an edge of
\* the tables, because CanGo, UserAllowed and OpOK were checked on that copy.
THEOREM StaleWritersOnly == Spec => OnlyStaleWritersBreakLifecycle
<1>1. ASSUME IInv, FreshOK, Next, NEW t \in Tasks, board'[t] # board[t]
      PROVE  LegalChange(t) \/ StaleWriter(t)
  <2>1. CASE \E p \in Procs : Begin(p)
    <3>1. PICK p \in Procs, u \in Tasks, s \in {"backlog", "queued"}, a \in Agents, r \in BOOLEAN :
            CreateTask(p, u, s, a, r)
      BY <1>1, <2>1 DEF Begin, GetBoardTask, CompleteBoardTask, FailBoardTask, RequestApproval,
         MoveStatus, Approve, Reject, UserWrite, ForceFail, DeleteTask, SweepStalled, BulkDelete
    <3>2. t = u /\ t \in fresh
      BY <1>1, <3>1 DEF CreateTask, IInv, TypeOK
    <3>3. QED
      BY <1>1, <3>2 DEF FreshOK, LegalChange
  <2>2. CASE \E p \in Procs : Continue(p)
    <3>1. PICK p \in Procs : RepoUpdate(p) \/ RepoDelete(p)
      BY <1>1, <2>2 DEF Continue, PickUp, Complete, Fail, Delete, Emit
    <3> DEFINE o == op[p]
    <3>2. OpOK(o) /\ board \in [Tasks -> Doc \cup {None}]
      BY <1>1 DEF IInv, TypeOK
    <3>3. CASE RepoDelete(p)
      BY <1>1, <3>2, <3>3 DEF RepoDelete, LegalChange
    <3>4. CASE RepoUpdate(p)
      <4>1. o.pc = "set" /\ o.task = t /\ board'[t] = o.pending
        BY <1>1, <3>2, <3>4 DEF RepoUpdate
      <4>2. CASE o.seen # board[t]
        BY <4>1, <4>2 DEF StaleWriter
      <4>3. CASE o.seen = board[t]
        BY <3>2, <4>1, <4>3, BoardAssumption DEF OpOK, LegalChange
      <4>4. QED
        BY <4>2, <4>3
    <3>5. QED
      BY <3>1, <3>3, <3>4
  <2>3. CASE \E u \in Tasks : Stall(u)
    BY <1>1, <2>3 DEF Stall
  <2>4. QED
    BY <1>1, <2>1, <2>2, <2>3 DEF Next
<1>2. IInv /\ FreshOK /\ [Next]_vars =>
        [\A t \in Tasks : board'[t] # board[t] => LegalChange(t) \/ StaleWriter(t)]_vars
  BY <1>1
<1>3. QED
  BY <1>2, Invariance, FreshIdsAreUnused, PTL DEF Spec, OnlyStaleWritersBreakLifecycle

-----------------------------------------------------------------------------
(* One request at a time, the board implements TaskLifecycle.              *)

\* What an operation knows of the stored document when nobody else acts.
CurrentOK(o) ==
  /\ o.pc = "set" => o.seen = board[o.task]
  /\ o.pc = "emit" /\ o.then = "finish" => o.pending = board[o.task]
  /\ o.pc = "unset" => board[o.task] # None

SerialInv ==
  /\ IInv
  /\ FreshOK
  /\ \A p, q \in Procs : p # q => IsIdle(p) \/ IsIdle(q)
  /\ \A p \in Procs : CurrentOK(op[p])

\* What follows a task in hand has written nothing yet.
LEMMA FollowersCurrent ==
  ASSUME NEW o \in Op, NEW n \in Followers(o)
  PROVE  n.pc \in {"idle", "fail", "delete"}
<1>1. CASE o.todo = {}
  BY <1>1 DEF Followers, Idle
<1>2. CASE o.todo # {}
  <2>1. PICK t \in o.todo :
          n = [Idle EXCEPT !.kind = o.kind, !.pc = IF o.kind = "sweep" THEN "fail" ELSE "delete",
                           !.task = t, !.todo = o.todo \ {t}]
    BY <1>2 DEF Followers
  <2>2. QED
    BY <2>1 DEF Idle
<1>3. QED
  BY <1>1, <1>2

\* Every step is a step of one process that leaves the others' operations.
LEMMA OneProcess ==
  ASSUME TypeOK, NEW p \in Procs, Begin(p) \/ Continue(p)
  PROVE  \A q \in Procs \ {p} : op'[q] = op[q]
<1>1. ASSUME NEW n, op' = [op EXCEPT ![p] = n]
      PROVE  \A q \in Procs \ {p} : op'[q] = op[q]
  BY <1>1 DEF TypeOK
<1>2. \E n : op' = [op EXCEPT ![p] = n]
  <2>1. ASSUME NEW o, Return(p, o)
        PROVE  \E n : op' = [op EXCEPT ![p] = n]
    BY <2>1 DEF Return
  <2>2. op[p] \in Op /\ op \in [Procs -> Op]
    BY DEF TypeOK
  <2>3. CASE Begin(p)
    BY <2>1, <2>3 DEF Begin, CreateTask, GetBoardTask, CompleteBoardTask, FailBoardTask,
       RequestApproval, MoveStatus, Approve, Reject, UserWrite, ForceFail, DeleteTask,
       SweepStalled, BulkDelete, Start
  <2>4. CASE PickUp(p)
    BY <2>1, <2>2, <2>4 DEF PickUp
  <2>5. CASE Complete(p)
    BY <2>1, <2>2, <2>5 DEF Complete
  <2>6. CASE Fail(p) \/ Delete(p) \/ RepoUpdate(p) \/ RepoDelete(p) \/ Emit(p)
    BY <2>1, <2>2, <2>6 DEF Fail, Delete, RepoUpdate, RepoDelete, Emit
  <2>7. QED
    BY <2>3, <2>4, <2>5, <2>6 DEF Continue
<1>3. QED
  BY <1>1, <1>2

\* The operation that acts knows the stored document after its step too.
LEMMA CurrentStep ==
  ASSUME SerialInv, NEW p \in Procs, Begin(p) \/ Continue(p)
  PROVE  CurrentOK(op[p])'
<1> DEFINE o == op[p]
           d == board[o.task]
<1>a. /\ op \in [Procs -> Op] /\ board \in [Tasks -> Doc \cup {None}]
      /\ o \in Op /\ OpOK(o) /\ CurrentOK(o)
  BY DEF SerialInv, IInv, TypeOK
<1>1. ASSUME NEW n, op' = [op EXCEPT ![p] = n],
             n.pc \in {"idle", "pick_up", "complete", "fail", "delete"}
      PROVE  CurrentOK(op[p])'
  BY <1>a, <1>1 DEF CurrentOK
<1>2. ASSUME NEW u \in Op, Return(p, u)
      PROVE  CurrentOK(op[p])'
  BY <1>1, <1>2, FollowersCurrent DEF Return
<1>3. ASSUME NEW n, op' = [op EXCEPT ![p] = n], n.pc = "set", n.seen = board'[n.task]
      PROVE  CurrentOK(op[p])'
  BY <1>a, <1>3 DEF CurrentOK
<1>4. CASE Begin(p)
  <2>1. ASSUME NEW t \in Tasks, NEW s, NEW a, NEW r, CreateTask(p, t, s, a, r)
        PROVE  CurrentOK(op[p])'
    <3> DEFINE n == [Idle EXCEPT !.kind = "create", !.pc = "emit", !.task = t,
                                 !.event = "created"]
    <3>1. n.pc = "emit" /\ n.then = "return"
      BY DEF Idle
    <3>2. op'[p] = n
      BY <1>a, <2>1 DEF CreateTask
    <3>3. QED
      BY <3>1, <3>2 DEF CurrentOK
  <2>2. ASSUME NEW t \in Tasks, NEW kind, NEW pc, Start(p, kind, pc, t),
               pc \in {"pick_up", "fail", "delete"}
        PROVE  CurrentOK(op[p])'
    <3> DEFINE n == [Idle EXCEPT !.kind = kind, !.pc = pc, !.task = t]
    <3>1. op' = [op EXCEPT ![p] = n] /\ n.pc = pc
      BY <2>2 DEF Start, Idle
    <3>2. QED
      <4> HIDE DEF n
      <4> QED BY <1>1, <2>2, <3>1
  <2>3. ASSUME NEW t \in Tasks, NEW c \in Agents, CompleteBoardTask(p, t, c)
        PROVE  CurrentOK(op[p])'
    <3>1. PICK pc \in {"pick_up", "complete"}, then \in {"return", "complete"} : op' = [op EXCEPT ![p] =
            [Idle EXCEPT !.kind = "complete", !.task = t, !.caller = c, !.pc = pc, !.then = then]]
      BY <2>3 DEF CompleteBoardTask
    <3> DEFINE n == [Idle EXCEPT !.kind = "complete", !.task = t, !.caller = c, !.pc = pc,
                                 !.then = then]
    <3>2. op' = [op EXCEPT ![p] = n] /\ n.pc = pc
      BY <3>1 DEF Idle
    <3>3. QED
      <4> HIDE DEF n
      <4> QED BY <1>1, <3>2
  <2>4. ASSUME NEW t \in Tasks, NEW kind, NEW e, UserWrite(p, kind, t, e)
        PROVE  CurrentOK(op[p])'
    <3> DEFINE n == WillSet([Idle EXCEPT !.kind = kind, !.task = t], board[t], e, "none")
    <3>1. n.pc = "set" /\ n.seen = board[t] /\ n.task = t
      BY DEF WillSet, Idle
    <3>2. op' = [op EXCEPT ![p] = n] /\ board' = board
      BY <2>4 DEF UserWrite
    <3>3. QED
      <4> HIDE DEF n
      <4> QED BY <1>3, <3>1, <3>2
  <2>5. ASSUME SweepStalled(p)
        PROVE  CurrentOK(op[p])'
    <3> DEFINE u == [Idle EXCEPT !.kind = "sweep", !.todo = Stalled]
    <3>1. u \in Op
      BY DEF Idle, Op, Stalled
    <3>2. QED
      BY <1>2, <2>5, <3>1 DEF SweepStalled
  <2>6. ASSUME NEW S \in SUBSET Tasks, BulkDelete(p, S)
        PROVE  CurrentOK(op[p])'
    <3> DEFINE u == [Idle EXCEPT !.kind = "bulk_delete", !.todo = S]
    <3>1. u \in Op
      BY DEF Idle, Op
    <3>2. QED
      BY <1>2, <2>6, <3>1 DEF BulkDelete
  <2>7. ASSUME NEW t \in Tasks,
               GetBoardTask(p, t) \/ FailBoardTask(p, t) \/ ForceFail(p, t) \/ DeleteTask(p, t)
        PROVE  CurrentOK(op[p])'
    BY <2>2, <2>7 DEF GetBoardTask, FailBoardTask, ForceFail, DeleteTask
  <2>8. ASSUME NEW t \in Tasks,
               \/ \E s \in Status : MoveStatus(p, t, s)
               \/ Approve(p, t) \/ Reject(p, t) \/ RequestApproval(p, t)
        PROVE  CurrentOK(op[p])'
    BY <2>4, <2>8 DEF MoveStatus, Approve, Reject, RequestApproval
  <2>9. QED
    BY <1>4, <2>1, <2>3, <2>5, <2>6, <2>7, <2>8 DEF Begin
<1>5. CASE PickUp(p) \/ Complete(p) \/ Fail(p)
  <2>1. ASSUME NEW e, NEW event, op' = [op EXCEPT ![p] = WillSet(o, d, e, event)], board' = board
        PROVE  CurrentOK(op[p])'
    <3> DEFINE n == WillSet(o, d, e, event)
    <3>1. n.pc = "set" /\ n.seen = d /\ n.task = o.task
      BY <1>a DEF WillSet, Op
    <3>2. op' = [op EXCEPT ![p] = n]
      BY <2>1
    <3>3. QED
      <4> HIDE DEF n
      <4> QED BY <1>3, <2>1, <3>1, <3>2
  <2>2. ASSUME NEW pc \in {"pick_up", "complete"}, NEW then,
               op' = [op EXCEPT ![p].pc = pc, ![p].then = then]
        PROVE  CurrentOK(op[p])'
    <3> DEFINE n == [o EXCEPT !.pc = pc, !.then = then]
    <3>1. n.pc = pc
      BY <1>a DEF Op
    <3>2. op' = [op EXCEPT ![p] = n]
      BY <1>a, <2>2
    <3>3. QED
      <4> HIDE DEF n
      <4> QED BY <1>1, <3>1, <3>2
  <2>3. QED
    BY <1>2, <1>5, <1>a, <2>1, <2>2 DEF PickUp, Complete, Fail
<1>6. CASE Delete(p)
  <2>1. CASE Return(p, o)
    BY <1>2, <1>a, <2>1
  <2>2. CASE d # None /\ op' = [op EXCEPT ![p].pc = "unset", ![p].event = "deleted"]
    <3>1. op'[p].pc = "unset" /\ op'[p].task = o.task
      BY <1>a, <2>2 DEF Op
    <3>2. QED
      BY <1>6, <2>2, <3>1 DEF Delete, CurrentOK
  <2>3. QED
    BY <1>6, <2>1, <2>2 DEF Delete
<1>7. CASE RepoUpdate(p) \/ RepoDelete(p)
  <2>1. CASE Return(p, o)
    BY <1>2, <1>a, <2>1
  <2>2. CASE op' = [op EXCEPT ![p].pc = "emit"]
    <3>1. /\ op'[p].pc = "emit" /\ op'[p].task = o.task /\ op'[p].then = o.then
          /\ op'[p].pending = o.pending
      BY <1>a, <2>2 DEF Op
    <3>2. RepoDelete(p) => o.then = "return"
      BY <1>a DEF RepoDelete, OpOK
    <3>3. RepoUpdate(p) => board'[o.task] = o.pending
      BY <1>a DEF RepoUpdate, OpOK
    <3>4. QED
      BY <1>7, <3>1, <3>2, <3>3 DEF CurrentOK
  <2>3. QED
    BY <1>7, <2>1, <2>2 DEF RepoUpdate, RepoDelete
<1>8. CASE Emit(p)
  <2>1. CASE Return(p, o)
    BY <1>2, <1>a, <2>1
  <2>2. CASE op' = [op EXCEPT ![p] =
               [Idle EXCEPT !.kind = o.kind, !.caller = o.caller, !.task = o.task,
                            !.pc = "complete"]]
    <3> DEFINE n == [Idle EXCEPT !.kind = o.kind, !.caller = o.caller, !.task = o.task,
                                 !.pc = "complete"]
    <3>1. op' = [op EXCEPT ![p] = n] /\ n.pc = "complete"
      BY <2>2 DEF Idle
    <3>2. QED
      <4> HIDE DEF n
      <4> QED BY <1>1, <3>1
  <2>3. CASE o.then = "finish" /\ op' = [op EXCEPT ![p] =
               WillSet([o EXCEPT !.then = "return"], o.pending, Completed(o.pending),
                       "completed")]
    <3> DEFINE n == WillSet([o EXCEPT !.then = "return"], o.pending, Completed(o.pending),
                            "completed")
    <3>1. op' = [op EXCEPT ![p] = n] /\ n.pc = "set" /\ n.seen = o.pending /\ n.task = o.task
      BY <1>a, <2>3 DEF WillSet, Op
    <3>2. o.pending = board[o.task] /\ board' = board
      BY <1>8, <1>a, <2>3 DEF Emit, CurrentOK
    <3>3. QED
      <4> HIDE DEF n
      <4> QED BY <1>3, <3>1, <3>2
  <2>4. QED
    BY <1>8, <2>1, <2>2, <2>3 DEF Emit
<1>9. QED
  BY <1>4, <1>5, <1>6, <1>7, <1>8 DEF Continue

\* Serving one request at a time is one of the interleavings of Next.
LEMMA SerialIsNext == SerialNext => Next
BY DEF SerialNext, Next

\* Served one at a time, whoever is about to write knows the stored document.
LEMMA SerialInvStep == SerialInv /\ [SerialNext]_vars => SerialInv'
<1> SUFFICES ASSUME SerialInv, [SerialNext]_vars PROVE SerialInv'
  OBVIOUS
<1>1. IInv'
  BY SerialIsNext, NextInv DEF SerialInv
<1>2. FreshOK'
  <2>1. CASE (\E t \in Tasks : Stall(t)) \/ UNCHANGED vars
    BY <2>1 DEF Stall, vars, FreshOK, SerialInv
  <2>2. QED
    BY <2>1, FreshBegin, FreshContinue DEF SerialNext, SerialInv
<1>3. CASE (\E t \in Tasks : Stall(t)) \/ UNCHANGED vars
  BY <1>1, <1>2, <1>3 DEF Stall, vars, SerialInv, IsIdle, CurrentOK
<1>4. ASSUME NEW p \in Procs, Begin(p) \/ Continue(p),
             \A q \in Procs \ {p} : IsIdle(q)
      PROVE  SerialInv'
  <2>1. \A q \in Procs \ {p} : op'[q] = op[q] /\ op'[q].pc = "idle"
    BY <1>4, OneProcess DEF SerialInv, IInv, IsIdle
  <2>2. CurrentOK(op[p])'
    BY <1>4, CurrentStep
  <2>3. QED
    BY <1>1, <1>2, <2>1, <2>2 DEF SerialInv, IsIdle, CurrentOK
<1>5. ASSUME NEW p \in Procs, Continue(p)
      PROVE  \A q \in Procs \ {p} : IsIdle(q)
  <2>1. ~IsIdle(p)
    BY <1>5 DEF IsIdle, Continue, PickUp, Complete, Fail, Delete, RepoUpdate, RepoDelete, Emit
  <2>2. QED
    BY <2>1 DEF SerialInv
<1>6. QED
  BY <1>3, <1>4, <1>5 DEF SerialNext

\* In every reachable state of the serial system at most one operation is in
\* flight, and the document it read is still the stored one.
THEOREM SerialInvariance == SerialSpec => []SerialInv
<1>1. Init => SerialInv
  <2> SUFFICES ASSUME Init PROVE SerialInv
    OBVIOUS
  <2>1. \A p \in Procs : op[p] = Idle /\ IsIdle(p) /\ CurrentOK(op[p])
    BY DEF Init, IsIdle, CurrentOK, Idle
  <2>2. FreshOK
    BY BoardAssumption DEF Init, FreshOK, Touches, Idle
  <2>3. QED
    BY <2>1, <2>2, InitInv DEF SerialInv
<1>2. QED
  BY <1>1, SerialInvStep, PTL DEF SerialSpec

\* Served one request at a time, tasks are created once, move along the
\* transition tables only, never leave DONE and never come back once deleted.
THEOREM SerialBoardImplementsLifecycle == SerialSpec => ImplementsLifecycle
<1> DEFINE stage == [t \in Tasks |-> Stage(t)]
<1>1. Init => L!Init
  BY DEF Init, L!Init, Stage
<1>2. ASSUME SerialInv, SerialNext
      PROVE  L!Next \/ stage' = stage
  <2>a. board \in [Tasks -> Doc \cup {None}] /\ op \in [Procs -> Op]
    BY <1>2 DEF SerialInv, IInv, TypeOK
  <2>1. CASE UNCHANGED <<board, fresh>>
    BY <2>1 DEF Stage
  <2>2. ASSUME NEW p \in Procs, NEW t \in Tasks, NEW s \in {"backlog", "queued"},
               NEW a \in Agents, NEW r \in BOOLEAN, CreateTask(p, t, s, a, r)
        PROVE  L!Next
    <3>1. stage[t] = "unborn" /\ t \in fresh
      BY <1>2, <2>2 DEF CreateTask, SerialInv, FreshOK, Stage
    <3>2. /\ board'[t].status = s /\ board'[t] # None
          /\ \A u \in Tasks \ {t} : board'[u] = board[u] /\ (u \in fresh' <=> u \in fresh)
      <4> DEFINE d == [status |-> s, result |-> "none", assignee |-> a,
                       requires_approval |-> r, approved |-> FALSE]
      <4>1. d \in Doc /\ d.status = s
        BY DEF Doc, Status
      <4>2. board' = [board EXCEPT ![t] = d] /\ fresh' = fresh \ {t}
        BY <2>2 DEF CreateTask
      <4>3. QED
        <5> HIDE DEF d
        <5> QED BY <2>a, <4>1, <4>2, BoardAssumption
    <3>3. stage' = [stage EXCEPT ![t] = s]
      BY <3>2 DEF Stage
    <3>4. QED
      BY <3>1, <3>3 DEF L!Next, L!Create
  <2>3. ASSUME NEW p \in Procs, RepoUpdate(p)
        PROVE  L!Next
    <3> DEFINE o == op[p]
    <3>1. /\ o.task \in Tasks /\ o.seen = board[o.task] /\ o.seen \in Doc /\ o.pending \in Doc
          /\ <<o.seen.status, o.pending.status>> \in ValidTransitions \cup UserAllowed
          /\ board' = [board EXCEPT ![o.task] = o.pending] /\ fresh' = fresh
      BY <1>2, <2>3 DEF RepoUpdate, SerialInv, IInv, OpOK, CurrentOK
    <3>2. o.pending.status \in Status /\ <<o.seen.status, o.pending.status>> \in L!Lifecycle
      BY <3>1, Tables DEF ValidTransitions, UserAllowed, L!Lifecycle
    <3>3. stage[o.task] = o.seen.status /\ stage' = [stage EXCEPT ![o.task] = o.pending.status]
      <4> HIDE DEF o
      <4> QED BY <2>a, <3>1, BoardAssumption DEF Stage
    <3>4. L!Status = Status
      BY DEF L!Status, Status
    <3>5. QED
      BY <3>1, <3>2, <3>3, <3>4 DEF L!Next, L!Move
  <2>4. ASSUME NEW p \in Procs, RepoDelete(p)
        PROVE  L!Next
    <3> DEFINE o == op[p]
    <3>1. /\ o.task \in Tasks /\ board[o.task] # None
          /\ board' = [board EXCEPT ![o.task] = None] /\ fresh' = fresh
      BY <1>2, <2>4 DEF RepoDelete, SerialInv, IInv, OpOK, CurrentOK
    <3>2. o.task \notin fresh /\ stage[o.task] \in L!Status
      BY <1>2, <2>a, <3>1 DEF SerialInv, FreshOK, Stage, Doc, Status, L!Status
    <3>3. stage' = [stage EXCEPT ![o.task] = "deleted"]
      <4> HIDE DEF o
      <4> QED BY <2>a, <3>1, <3>2 DEF Stage
    <3>4. QED
      BY <3>1, <3>2, <3>3 DEF L!Next, L!Delete
  <2>5. ASSUME NEW p \in Procs, Begin(p)
        PROVE  \/ UNCHANGED <<board, fresh>>
               \/ \E t \in Tasks, s \in {"backlog", "queued"}, a \in Agents, r \in BOOLEAN :
                    CreateTask(p, t, s, a, r)
    BY <2>5 DEF Begin, GetBoardTask, CompleteBoardTask, FailBoardTask, RequestApproval,
       MoveStatus, Approve, Reject, UserWrite, ForceFail, DeleteTask, SweepStalled, BulkDelete
  <2>6. ASSUME NEW p \in Procs, Continue(p)
        PROVE  UNCHANGED <<board, fresh>> \/ RepoUpdate(p) \/ RepoDelete(p)
    BY <2>6 DEF Continue, PickUp, Complete, Fail, Delete, Emit
  <2>7. ASSUME NEW t \in Tasks, Stall(t)
        PROVE  UNCHANGED <<board, fresh>>
    BY <2>7 DEF Stall
  <2>8. QED
    BY <1>2, <2>1, <2>2, <2>3, <2>4, <2>5, <2>6, <2>7 DEF SerialNext
<1>3. UNCHANGED vars => stage' = stage
  BY DEF vars, Stage
<1>4. SerialInv /\ [SerialNext]_vars => [L!Next]_stage
  BY <1>2, <1>3
<1>5. QED
  BY <1>1, <1>4, SerialInvariance, PTL DEF SerialSpec, ImplementsLifecycle, L!Spec

-----------------------------------------------------------------------------
(* One request at a time, the live events tell the outcome.                *)

\* Event e is the one to emit for a task of status s.
Announces(e, s) ==
  e # "deleted" /\ (e = "completed" <=> s = "done") /\ (e = "picked_up" <=> s = "in_progress")

\* An operation will emit the event of what it is about to write, or wrote.
EventOK(o) ==
  /\ o.pc = "set" => Announces(o.event, o.pending.status)
  /\ o.pc = "unset" => o.event = "deleted"
  /\ o.pc = "emit" => \/ /\ o.event = "deleted" /\ board[o.task] = None /\ o.task \notin fresh
                      \/ /\ board[o.task] # None /\ Announces(o.event, board[o.task].status)

\* The last event of t tells what became of it.
EventFits(t) ==
  /\ lastEvent[t] = "completed" <=> (board[t] # None /\ board[t].status = "done")
  /\ lastEvent[t] = "deleted" <=> (board[t] = None /\ t \notin fresh)
  /\ (board[t] # None /\ board[t].status = "in_progress") => lastEvent[t] = "picked_up"

EventsInv ==
  /\ SerialInv
  /\ \A p \in Procs : EventOK(op[p])
  /\ \A t \in Tasks : EventFits(t) \/ \E p \in Procs : op[p].pc = "emit" /\ op[p].task = t

\* The operation that acts still has the right event in hand after its step.
LEMMA EventStep ==
  ASSUME EventsInv, NEW p \in Procs, Begin(p) \/ Continue(p)
  PROVE  EventOK(op[p])'
<1> DEFINE o == op[p]
           d == board[o.task]
<1>a. /\ op \in [Procs -> Op] /\ board \in [Tasks -> Doc \cup {None}]
      /\ o \in Op /\ OpOK(o) /\ CurrentOK(o) /\ EventOK(o)
  BY DEF EventsInv, SerialInv, IInv, TypeOK
<1>1. ASSUME NEW n, op' = [op EXCEPT ![p] = n],
             n.pc \in {"idle", "pick_up", "complete", "fail", "delete"}
      PROVE  EventOK(op[p])'
  BY <1>a, <1>1 DEF EventOK
<1>2. ASSUME NEW u \in Op, Return(p, u)
      PROVE  EventOK(op[p])'
  BY <1>1, <1>2, FollowersCurrent DEF Return
<1>3. ASSUME NEW i, NEW r, NEW e, NEW event, op' = [op EXCEPT ![p] = WillSet(i, r, e, event)],
             i = Idle \/ i \in Op, Announces(event, e.status)
      PROVE  EventOK(op[p])'
  <2> DEFINE n == WillSet(i, r, e, event)
  <2>1. n.pc = "set" /\ n.pending = e /\ n.event = event
    BY <1>3 DEF WillSet, Op, Idle
  <2>2. op' = [op EXCEPT ![p] = n]
    BY <1>3
  <2>3. QED
    <3> HIDE DEF n
    <3> QED BY <1>a, <1>3, <2>1, <2>2 DEF EventOK
<1>4. CASE Begin(p)
  <2>1. ASSUME NEW t \in Tasks, NEW s \in {"backlog", "queued"}, NEW a \in Agents, NEW r \in BOOLEAN,
               CreateTask(p, t, s, a, r)
        PROVE  EventOK(op[p])'
    <3> DEFINE n == [Idle EXCEPT !.kind = "create", !.pc = "emit", !.task = t, !.event = "created"]
               w == [status |-> s, result |-> "none", assignee |-> a,
                     requires_approval |-> r, approved |-> FALSE]
    <3>1. n.pc = "emit" /\ n.task = t /\ n.event = "created"
      BY DEF Idle
    <3>2. op' = [op EXCEPT ![p] = n] /\ board' = [board EXCEPT ![t] = w]
      BY <2>1 DEF CreateTask
    <3>3. w \in Doc /\ w.status = s
      BY DEF Doc, Status
    <3>4. w # None /\ Announces("created", w.status)
      BY <3>3, BoardAssumption DEF Announces
    <3>5. QED
      <4> HIDE DEF n, w
      <4> QED BY <1>a, <3>1, <3>2, <3>4 DEF EventOK
  <2>2. ASSUME NEW t \in Tasks, NEW kind, NEW pc, Start(p, kind, pc, t), pc \in {"pick_up", "fail", "delete"}
        PROVE  EventOK(op[p])'
    <3> DEFINE n == [Idle EXCEPT !.kind = kind, !.pc = pc, !.task = t]
    <3>1. op' = [op EXCEPT ![p] = n] /\ n.pc = pc
      BY <2>2 DEF Start, Idle
    <3>2. QED
      <4> HIDE DEF n
      <4> QED BY <1>1, <2>2, <3>1
  <2>3. ASSUME NEW t \in Tasks, NEW c \in Agents, CompleteBoardTask(p, t, c)
        PROVE  EventOK(op[p])'
    <3>1. PICK pc \in {"pick_up", "complete"}, then \in {"return", "complete"} : op' = [op EXCEPT ![p] =
            [Idle EXCEPT !.kind = "complete", !.task = t, !.caller = c, !.pc = pc, !.then = then]]
      BY <2>3 DEF CompleteBoardTask
    <3> DEFINE n == [Idle EXCEPT !.kind = "complete", !.task = t, !.caller = c, !.pc = pc, !.then = then]
    <3>2. op' = [op EXCEPT ![p] = n] /\ n.pc = pc
      BY <3>1 DEF Idle
    <3>3. QED
      <4> HIDE DEF n
      <4> QED BY <1>1, <3>2
  <2>4. ASSUME NEW t \in Tasks, NEW kind, NEW e, UserWrite(p, kind, t, e),
               e.status \notin {"done", "in_progress"}, kind \in {"move", "approve", "reject", "request_approval"}
        PROVE  EventOK(op[p])'
    <3> DEFINE i == [Idle EXCEPT !.kind = kind, !.task = t]
    <3>1. i \in Op /\ Announces("none", e.status)
      BY <2>4 DEF Idle, Op, Announces
    <3>2. op' = [op EXCEPT ![p] = WillSet(i, board[t], e, "none")]
      BY <2>4 DEF UserWrite
    <3>3. QED
      <4> HIDE DEF i
      <4> QED BY <1>3, <3>1, <3>2
  <2>5. ASSUME NEW t \in Tasks,
               \/ \E s \in Status : MoveStatus(p, t, s)
               \/ Approve(p, t) \/ Reject(p, t) \/ RequestApproval(p, t)
        PROVE  EventOK(op[p])'
    <3>1. board[t] # None
      BY <2>5 DEF MoveStatus, Approve, Reject, RequestApproval, CanGo
    <3>2. board[t] \in Doc
      BY <1>a, <3>1
    <3>3. /\ \A s : Moved(board[t], s).status = s
          /\ Approved(board[t]).status = "queued"
      BY <3>2 DEF Moved, Approved, Doc
    <3>4. ASSUME NEW s, <<board[t].status, s>> \in UserAllowed
          PROVE  s \notin {"done", "in_progress"}
      BY <3>4 DEF UserAllowed
    <3>5. QED
      BY <2>4, <2>5, <3>3, <3>4 DEF MoveStatus, Approve, Reject, RequestApproval
  <2>6. ASSUME SweepStalled(p)
        PROVE  EventOK(op[p])'
    <3> DEFINE u == [Idle EXCEPT !.kind = "sweep", !.todo = Stalled]
    <3>1. u \in Op
      BY DEF Idle, Op, Stalled
    <3>2. QED
      BY <1>2, <2>6, <3>1 DEF SweepStalled
  <2>7. ASSUME NEW S \in SUBSET Tasks, BulkDelete(p, S)
        PROVE  EventOK(op[p])'
    <3> DEFINE u == [Idle EXCEPT !.kind = "bulk_delete", !.todo = S]
    <3>1. u \in Op
      BY DEF Idle, Op
    <3>2. QED
      BY <1>2, <2>7, <3>1 DEF BulkDelete
  <2>8. ASSUME NEW t \in Tasks,
               GetBoardTask(p, t) \/ FailBoardTask(p, t) \/ ForceFail(p, t) \/ DeleteTask(p, t)
        PROVE  EventOK(op[p])'
    BY <2>2, <2>8 DEF GetBoardTask, FailBoardTask, ForceFail, DeleteTask
  <2>9. QED
    BY <1>4, <2>1, <2>3, <2>5, <2>6, <2>7, <2>8 DEF Begin
<1>5. CASE PickUp(p) \/ Complete(p) \/ Fail(p)
  <2>1. CanGo(d, "in_progress") \/ CanGo(d, "done") \/ CanGo(d, "failed") => (o.pc # "idle" => d \in Doc)
    BY <1>a DEF CanGo, OpOK
  <2>2. d \in Doc => /\ Announces("picked_up", Moved(d, "in_progress").status)
                     /\ Announces("completed", Completed(d).status) /\ Announces("failed", FailedDoc(d).status)
    BY DEF Doc, Moved, Completed, FailedDoc, Announces
  <2>3. ASSUME NEW pc \in {"pick_up", "complete"}, NEW then, op' = [op EXCEPT ![p].pc = pc, ![p].then = then]
        PROVE  EventOK(op[p])'
    <3> DEFINE n == [o EXCEPT !.pc = pc, !.then = then]
    <3>1. n.pc = pc
      BY <1>a DEF Op
    <3>2. op' = [op EXCEPT ![p] = n]
      BY <1>a, <2>3
    <3>3. QED
      <4> HIDE DEF n
      <4> QED BY <1>1, <3>1, <3>2
  <2>4. CASE PickUp(p)
    BY <1>2, <1>3, <1>a, <2>1, <2>2, <2>3, <2>4 DEF PickUp
  <2>5. CASE Complete(p)
    BY <1>2, <1>3, <1>a, <2>1, <2>2, <2>3, <2>5 DEF Complete
  <2>6. CASE Fail(p)
    BY <1>2, <1>3, <1>a, <2>1, <2>2, <2>6 DEF Fail
  <2>7. QED
    BY <1>5, <2>4, <2>5, <2>6
<1>6. CASE Delete(p)
  <2>1. CASE Return(p, o)
    BY <1>2, <1>a, <2>1
  <2>2. CASE op' = [op EXCEPT ![p].pc = "unset", ![p].event = "deleted"]
    <3>1. op'[p].pc = "unset" /\ op'[p].event = "deleted"
      BY <1>a, <2>2 DEF Op
    <3>2. QED
      BY <3>1 DEF EventOK
  <2>3. QED
    BY <1>6, <2>1, <2>2 DEF Delete
<1>7. CASE RepoUpdate(p) \/ RepoDelete(p)
  <2>1. CASE Return(p, o)
    BY <1>2, <1>a, <2>1
  <2>2. CASE op' = [op EXCEPT ![p].pc = "emit"]
    <3>1. op'[p].pc = "emit" /\ op'[p].task = o.task /\ op'[p].event = o.event
      BY <1>a, <2>2 DEF Op
    <3>2. CASE RepoUpdate(p)
      <4>1. /\ o.task \in Tasks /\ board'[o.task] = o.pending /\ o.pending \in Doc
            /\ Announces(o.event, o.pending.status)
        BY <1>a, <3>2 DEF RepoUpdate, OpOK, EventOK
      <4>2. QED
        BY <3>1, <4>1, BoardAssumption DEF EventOK, Announces
    <3>3. CASE RepoDelete(p)
      <4>1. /\ o.task \in Tasks /\ board'[o.task] = None /\ o.event = "deleted"
            /\ o.task \notin fresh /\ fresh' = fresh
        BY <1>a, <3>3 DEF RepoDelete, OpOK, EventOK, CurrentOK, EventsInv, SerialInv, FreshOK
      <4>2. QED
        BY <3>1, <4>1 DEF EventOK
    <3>4. QED
      BY <1>7, <3>2, <3>3
  <2>3. QED
    BY <1>7, <2>1, <2>2 DEF RepoUpdate, RepoDelete
<1>8. CASE Emit(p)
  <2>1. CASE Return(p, o)
    BY <1>2, <1>a, <2>1
  <2>2. CASE op' = [op EXCEPT ![p] =
               [Idle EXCEPT !.kind = o.kind, !.caller = o.caller, !.task = o.task, !.pc = "complete"]]
    <3> DEFINE n == [Idle EXCEPT !.kind = o.kind, !.caller = o.caller, !.task = o.task, !.pc = "complete"]
    <3>1. op' = [op EXCEPT ![p] = n] /\ n.pc = "complete"
      BY <2>2 DEF Idle
    <3>2. QED
      <4> HIDE DEF n
      <4> QED BY <1>1, <3>1
  <2>3. CASE o.then = "finish" /\ op' = [op EXCEPT ![p] =
               WillSet([o EXCEPT !.then = "return"], o.pending, Completed(o.pending), "completed")]
    <3>1. o.pending \in Doc /\ [o EXCEPT !.then = "return"] \in Op
      BY <1>8, <1>a, <2>3 DEF Emit, OpOK, Op
    <3>2. Announces("completed", Completed(o.pending).status)
      BY <3>1 DEF Doc, Completed, Announces
    <3>3. QED
      BY <1>3, <2>3, <3>1, <3>2
  <2>4. QED
    BY <1>8, <2>1, <2>2, <2>3 DEF Emit
<1>9. QED
  BY <1>4, <1>5, <1>6, <1>7, <1>8 DEF Continue

\* A step whose process had nothing to emit, and that stores and emits nothing.
LEMMA QuietStepFits ==
  ASSUME EventsInv, NEW p \in Procs, \A q \in Procs \ {p} : IsIdle(q), op[p].pc # "emit",
         UNCHANGED <<board, fresh, lastEvent>>
  PROVE  \A t \in Tasks : EventFits(t)'
<1>1. \A t \in Tasks : EventFits(t)
  BY DEF EventsInv, IsIdle
<1>2. QED
  BY <1>1 DEF EventFits

\* After a step the last event of every task fits, or is about to be emitted.
LEMMA SettledStep ==
  ASSUME EventsInv, NEW p \in Procs, Begin(p) \/ Continue(p), \A q \in Procs \ {p} : IsIdle(q)
  PROVE  \A t \in Tasks : EventFits(t)' \/ \E q \in Procs : op'[q].pc = "emit" /\ op'[q].task = t
<1> DEFINE o == op[p]
<1>a. /\ op \in [Procs -> Op] /\ board \in [Tasks -> Doc \cup {None}]
      /\ lastEvent \in [Tasks -> {"none", "created", "picked_up", "completed", "failed", "deleted"}]
      /\ o \in Op /\ OpOK(o) /\ CurrentOK(o) /\ EventOK(o) /\ None \notin Doc
  BY BoardAssumption DEF EventsInv, SerialInv, IInv, TypeOK
<1>1. o.pc # "emit" => \A t \in Tasks : EventFits(t)
  BY DEF EventsInv, IsIdle
<1>2. ASSUME NEW t \in Tasks, NEW s, NEW a, NEW r, CreateTask(p, t, s, a, r)
      PROVE  \A u \in Tasks : EventFits(u)' \/ (op'[p].pc = "emit" /\ op'[p].task = u)
  <2> DEFINE n == [Idle EXCEPT !.kind = "create", !.pc = "emit", !.task = t, !.event = "created"]
  <2>1. o.pc # "emit"
    BY <1>2 DEF CreateTask, IsIdle
  <2>2. /\ op' = [op EXCEPT ![p] = n] /\ lastEvent' = lastEvent /\ fresh' = fresh \ {t}
        /\ \A u \in Tasks \ {t} : board'[u] = board[u]
    BY <1>2, <1>a DEF CreateTask
  <2>3. n.pc = "emit" /\ n.task = t
    BY DEF Idle
  <2>4. op'[p].pc = "emit" /\ op'[p].task = t
    <3> HIDE DEF n
    <3> QED BY <1>a, <2>2, <2>3
  <2>5. \A u \in Tasks \ {t} : EventFits(u)'
    BY <1>1, <2>1, <2>2 DEF EventFits
  <2>6. QED
    BY <2>4, <2>5
<1>3. CASE RepoUpdate(p)
  <2>1. /\ o.pc = "set" /\ o.task \in Tasks /\ board' = [board EXCEPT ![o.task] = o.pending] /\ fresh' = fresh
        /\ lastEvent' = lastEvent /\ o.pending \in Doc /\ o.seen \in Doc /\ o.seen = board[o.task]
        /\ <<o.seen.status, o.pending.status>> \in ValidTransitions \cup UserAllowed
        /\ Announces(o.event, o.pending.status)
    BY <1>3, <1>a DEF RepoUpdate, OpOK, CurrentOK, EventOK
  <2>2. \A u \in Tasks \ {o.task} : EventFits(u)'
    BY <1>1, <1>a, <2>1 DEF EventFits
  <2>3. CASE o.event = "none"
    <3>1. o.seen.status # "done" /\ o.pending.status \notin {"done", "in_progress"}
      BY <2>1, <2>3, Tables DEF Announces
    <3>2. board'[o.task] = o.pending /\ lastEvent'[o.task] \notin {"completed", "deleted"}
      BY <1>1, <1>a, <2>1, <3>1 DEF EventFits
    <3>3. \A u \in Tasks : u = o.task => EventFits(u)'
      BY <1>a, <2>1, <3>1, <3>2 DEF EventFits
    <3>4. QED
      BY <2>2, <3>3
  <2>4. CASE op' = [op EXCEPT ![p].pc = "emit"]
    <3>1. op'[p].pc = "emit" /\ op'[p].task = o.task
      BY <1>a, <2>4 DEF Op
    <3>2. QED
      BY <2>2, <3>1
  <2>5. QED
    BY <1>3, <2>3, <2>4 DEF RepoUpdate
<1>4. CASE RepoDelete(p)
  <2>1. /\ o.pc = "unset" /\ o.task \in Tasks /\ board' = [board EXCEPT ![o.task] = None]
        /\ fresh' = fresh /\ lastEvent' = lastEvent /\ op' = [op EXCEPT ![p].pc = "emit"]
    BY <1>4, <1>a DEF RepoDelete, OpOK
  <2>2. op'[p].pc = "emit" /\ op'[p].task = o.task
    BY <1>a, <2>1 DEF Op
  <2>3. \A u \in Tasks \ {o.task} : EventFits(u)'
    BY <1>1, <1>a, <2>1 DEF EventFits
  <2>4. QED
    BY <2>2, <2>3
<1>5. CASE Emit(p)
  <2>1. /\ o.pc = "emit" /\ o.task \in Tasks /\ lastEvent' = [lastEvent EXCEPT ![o.task] = o.event]
        /\ board' = board /\ fresh' = fresh
    BY <1>5, <1>a DEF Emit, OpOK
  <2>2. \A u \in Tasks \ {o.task} : EventFits(u)
    BY <2>1 DEF EventsInv, IsIdle
  <2>3. \A u \in Tasks \ {o.task} : EventFits(u)'
    BY <1>a, <2>1, <2>2 DEF EventFits
  <2>4. lastEvent'[o.task] = o.event
    BY <1>a, <2>1
  <2>5. \/ o.event = "deleted" /\ board[o.task] = None /\ o.task \notin fresh
        \/ board[o.task] # None /\ Announces(o.event, board[o.task].status)
    BY <1>a, <2>1 DEF EventOK
  <2>6. \A u \in Tasks : (u = o.task) => EventFits(u)'
    BY <2>1, <2>4, <2>5 DEF EventFits, Announces
  <2>7. QED
    BY <2>3, <2>6
<1>6. CASE Begin(p)
  <2>1. o.pc # "emit"
    BY <1>6 DEF Begin, CreateTask, GetBoardTask, CompleteBoardTask, FailBoardTask, RequestApproval,
       MoveStatus, Approve, Reject, ForceFail, DeleteTask, SweepStalled, BulkDelete, IsIdle
  <2>2. \/ \E t \in Tasks, s \in {"backlog", "queued"}, a \in Agents, r \in BOOLEAN : CreateTask(p, t, s, a, r)
        \/ UNCHANGED <<board, fresh, lastEvent>>
    BY <1>6 DEF Begin, GetBoardTask, CompleteBoardTask, FailBoardTask, RequestApproval,
       MoveStatus, Approve, Reject, UserWrite, ForceFail, DeleteTask, SweepStalled, BulkDelete
  <2>3. QED
    BY <1>2, <2>1, <2>2, QuietStepFits
<1>7. CASE PickUp(p) \/ Complete(p) \/ Fail(p) \/ Delete(p)
  <2>1. o.pc # "emit" /\ UNCHANGED <<board, fresh, lastEvent>>
    BY <1>7 DEF PickUp, Complete, Fail, Delete
  <2>2. QED
    BY <2>1, QuietStepFits
<1>8. QED
  BY <1>2, <1>3, <1>4, <1>5, <1>6, <1>7 DEF Continue

\* Served one at a time, every event is emitted by the operation that made it
\* true, before the next one begins.
LEMMA EventsInvStep == EventsInv /\ [SerialNext]_vars => EventsInv'
<1> SUFFICES ASSUME EventsInv, [SerialNext]_vars PROVE EventsInv'
  OBVIOUS
<1>1. SerialInv'
  BY SerialInvStep DEF EventsInv
<1>2. CASE (\E t \in Tasks : Stall(t)) \/ UNCHANGED vars
  <2>1. UNCHANGED <<board, fresh, op, lastEvent>>
    BY <1>2 DEF Stall, vars
  <2>2. QED
    BY <1>1, <2>1 DEF EventsInv, EventOK, EventFits
<1>3. ASSUME NEW p \in Procs, Begin(p) \/ Continue(p), \A q \in Procs \ {p} : IsIdle(q)
      PROVE  EventsInv'
  <2>1. \A q \in Procs \ {p} : op'[q] = op[q] /\ op'[q].pc = "idle"
    BY <1>3, OneProcess DEF EventsInv, SerialInv, IInv, IsIdle
  <2>2. EventOK(op[p])'
    BY <1>3, EventStep
  <2>3. \A t \in Tasks : EventFits(t)' \/ \E q \in Procs : op'[q].pc = "emit" /\ op'[q].task = t
    BY <1>3, SettledStep
  <2>4. QED
    BY <1>1, <2>1, <2>2, <2>3 DEF EventsInv, EventOK
<1>4. ASSUME NEW p \in Procs, Continue(p)
      PROVE  \A q \in Procs \ {p} : IsIdle(q)
  <2>1. ~IsIdle(p)
    BY <1>4 DEF IsIdle, Continue, PickUp, Complete, Fail, Delete, RepoUpdate, RepoDelete, Emit
  <2>2. QED
    BY <2>1 DEF EventsInv, SerialInv
<1>5. QED
  BY <1>2, <1>3, <1>4 DEF SerialNext

\* Served one request at a time, the board is the task lifecycle, and between
\* operations the last event of a task tells what became of it: for any number
\* of tasks, agents, event loops and worker threads.
THEOREM SerialBoardIsExact == SerialSpec => BoardIsExact
<1>1. Init => EventsInv
  <2> SUFFICES ASSUME Init PROVE EventsInv
    OBVIOUS
  <2>1. \A p \in Procs : EventOK(op[p])
    BY DEF Init, Idle, EventOK
  <2>2. \A t \in Tasks : EventFits(t)
    BY DEF Init, EventFits
  <2>3. SerialInv
    <3>1. \A p \in Procs : op[p] = Idle /\ IsIdle(p) /\ CurrentOK(op[p])
      BY DEF Init, IsIdle, CurrentOK, Idle
    <3>2. FreshOK
      BY BoardAssumption DEF Init, FreshOK, Touches, Idle
    <3>3. QED
      BY <3>1, <3>2, InitInv DEF SerialInv
  <2>4. QED
    BY <2>1, <2>2, <2>3 DEF EventsInv
<1>2. EventsInv => TypeOK /\ EventsTellTheOutcome
  <2> SUFFICES ASSUME EventsInv PROVE TypeOK /\ EventsTellTheOutcome
    OBVIOUS
  <2>1. TypeOK
    BY DEF EventsInv, SerialInv, IInv
  <2>2. EventsTellTheOutcome
    BY DEF EventsInv, EventFits, EventsTellTheOutcome, IsIdle
  <2>3. QED
    BY <2>1, <2>2
<1>3. SerialSpec => []TypeOK /\ []EventsTellTheOutcome
  BY <1>1, <1>2, EventsInvStep, PTL DEF SerialSpec
<1>4. QED
  BY <1>3, SerialBoardImplementsLifecycle DEF BoardIsExact
=============================================================================
