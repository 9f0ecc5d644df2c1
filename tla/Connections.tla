----------------------------- MODULE Connections ----------------------------
(***************************************************************************)
(* ConnectionService: connections between users, each recorded twice, in   *)
(* the collections of its two users.                                       *)
(*                                                                         *)
(* The routes are plain functions in worker threads: every call to the     *)
(* store is a step, steps of different requests interleave, and a step     *)
(* may fail and end its request.  No document is ever deleted.             *)
(* Definitions named Slip_... are wrong variants, used by no specification *)
(* (see module Board).                                                     *)
(***************************************************************************)
EXTENDS Integers, FiniteSets, Lists

CONSTANTS
  Users,
  Ids,           \* ids of connections, each used once (bound)
  Calls          \* requests, each made once (bound)

VARIABLES
  record,        \* record[u][i]: u's document of the connection i, or None
  call,          \* call[c]: the progress of the request c
  met,           \* pairs of calls that overlapped (for properties only)
  tasks          \* the requests that put a task on the peer's board

connVars == <<record, call, met, tasks>>

ASSUME ConnectionsAssumption == None \notin Users

Permissions == {"read", "task"}

Connection ==
  [from : Users, to : Users, status : {"pending", "active", "rejected", "revoked"}, permission : Permissions]

ASSUME NoneIsNoConnection == None \notin Connection

Idle == [op |-> "none", pc |-> "idle", user |-> None, id |-> None, copy |-> None]

Peer(u, doc) == IF doc.from = u THEN doc.to ELSE doc.from

Standing(doc) == doc # None /\ doc.status \in {"pending", "active"}

Begin(c, r) ==
  /\ call[c].pc = "idle"
  /\ call' = [call EXCEPT ![c] = r]
  /\ met' = met \cup {{c, d} : d \in {d \in Calls : call[d].pc \in {"own", "peer"}}}

\* Slip: only an active connection blocks a request.
Slip_ActiveBlocks(u, v) ==
  \E i \in Ids : /\ record[u][i] # None /\ record[u][i].status = "active"
                 /\ Peer(u, record[u][i]) = v

\* find_by_peer.
Blocked(u, v) == \E i \in Ids : Standing(record[u][i]) /\ Peer(u, record[u][i]) = v

\* request_connection: no open connection with the peer among the user's own.
Request(c, u, v, permission) ==
  /\ u # v /\ ~Blocked(u, v)
  /\ \E i \in Ids :
       /\ \A w \in Users : record[w][i] = None
       /\ \A d \in Calls : call[d].id # i
       /\ Begin(c, [op |-> "request", user |-> u, id |-> i,
                    pc |-> "own", copy |-> [from |-> u, to |-> v, status |-> "pending", permission |-> permission]])
  /\ UNCHANGED <<record, tasks>>

\* Slip: either user may answer.
Slip_AnyoneAnswers(u, doc) == doc # None /\ doc.status = "pending"

\* Only the recipient answers a request.
MayAnswer(u, doc) == doc # None /\ doc.to = u /\ doc.status = "pending"

\* Slip: an unknown connection is not refused.
Slip_MayEndNone(u, doc) == doc = None \/ doc.status = "active"

MayEnd(u, doc) == doc # None /\ doc.status = "active" /\ u \in {doc.from, doc.to}

\* Slip: the connection's status is not looked at.
Slip_AnyStatus(doc, permission) == doc # None /\ (permission = "read" \/ doc.permission = "task")

\* check_permission: active, with at least the permission required.
Permitted(doc, permission) ==
  doc # None /\ doc.status = "active" /\ (permission = "read" \/ doc.permission = "task")

\* A read of the user's own document, and what is to be written to both.  A
\* refused request changes nothing.
Change(c, op, u, i, may, doc) ==
  /\ may
  /\ Begin(c, [op |-> op, user |-> u, id |-> i, pc |-> "own", copy |-> doc])
  /\ UNCHANGED <<record, tasks>>

Status(u, i, status) == IF record[u][i] = None THEN None ELSE [record[u][i] EXCEPT !.status = status]

Accept(c, u, i) == Change(c, "accept", u, i, MayAnswer(u, record[u][i]), Status(u, i, "active"))

Reject(c, u, i) == Change(c, "reject", u, i, MayAnswer(u, record[u][i]), Status(u, i, "rejected"))

Revoke(c, u, i) == Change(c, "revoke", u, i, MayEnd(u, record[u][i]), Status(u, i, "revoked"))

\* The route that sets the permission writes its copy of the whole document.
UpdatePermission(c, u, i, permission) ==
  Change(c, "permission", u, i, Permitted(record[u][i], "read"),
         IF record[u][i] = None THEN None ELSE [record[u][i] EXCEPT !.permission = permission])

\* Slip: the peer's document is not written.
Slip_OwnOnly(c) ==
  LET r == call[c]
  IN /\ r.pc \in {"own", "peer"}
     /\ record' = IF r.pc = "own" THEN [record EXCEPT ![r.user][r.id] = r.copy] ELSE record
     /\ call' = [call EXCEPT ![c].pc = IF @ = "own" THEN "peer" ELSE "done"]
     /\ UNCHANGED <<met, tasks>>

\* The user's own document first, then the peer's.
Write(c) ==
  LET r == call[c]
      u == IF r.pc = "own" THEN r.user ELSE Peer(r.user, r.copy)
  IN /\ r.pc \in {"own", "peer"}
     /\ record' = [record EXCEPT ![u][r.id] = r.copy]
     /\ call' = [call EXCEPT ![c].pc = IF @ = "own" THEN "peer" ELSE "done"]
     /\ UNCHANGED <<met, tasks>>

\* The store fails, or the process dies: before the first write nothing is left
\* of the request, before the second one half of it.
Fail(c) ==
  /\ \/ /\ call[c].pc = "own"
        /\ call' = [call EXCEPT ![c] = Idle]
        /\ met' = {pair \in met : c \notin pair}
     \/ /\ call[c].pc = "peer"
        /\ call' = [call EXCEPT ![c].pc = "half"]
        /\ UNCHANGED met
  /\ UNCHANGED <<record, tasks>>

\* create_task_for_peer, whose write into the peer's board is after the check.
CreateTask(c, u, i) ==
  /\ Permitted(record[u][i], "task")
  /\ Begin(c, [op |-> "task", user |-> u, id |-> i, copy |-> record[u][i], pc |-> "done"])
  /\ tasks' = tasks \cup {c}
  /\ UNCHANGED record

ConnInit ==
  /\ record = [u \in Users |-> [i \in Ids |-> None]]
  /\ call = [c \in Calls |-> Idle]
  /\ met = {} /\ tasks = {}

ConnNext ==
  \E c \in Calls :
    \/ Write(c) \/ Fail(c)
    \/ \E u, v \in Users, permission \in Permissions : Request(c, u, v, permission)
    \/ \E u \in Users, i \in Ids :
         \/ Accept(c, u, i) \/ Reject(c, u, i) \/ Revoke(c, u, i) \/ CreateTask(c, u, i)
         \/ \E permission \in Permissions : UpdatePermission(c, u, i, permission)

ConnSpec == ConnInit /\ [][ConnNext]_connVars

-----------------------------------------------------------------------------
(* Properties.                                                             *)

ConnTypeOK ==
  /\ \A u \in Users, i \in Ids : record[u][i] # None =>
       record[u][i] \in Connection /\ u \in {record[u][i].from, record[u][i].to}
  /\ \A c \in Calls : /\ call[c].pc \in {"idle", "own", "peer", "done", "half"}
                      /\ call[c].pc \in {"own", "peer", "half"} => call[c].copy \in Connection
  /\ tasks \subseteq Calls

Over(c) == call[c].pc \notin {"own", "peer"}

Halved(i) == \E c \in Calls : call[c].id = i /\ call[c].pc = "half"

Overlapped(i) == \E c, d \in Calls : c # d /\ call[c].id = i /\ call[d].id = i /\ {c, d} \in met

\* Between requests the two documents of a connection agree, unless a request
\* was cut off between its two writes, or two requests about it overlapped.
RecordsAgree ==
  \A i \in Ids :
    (/\ \A c \in Calls : call[c].id = i => Over(c)
     /\ ~Halved(i) /\ ~Overlapped(i))
      => \A u \in Users : record[u][i] # None => record[Peer(u, record[u][i])][i] = record[u][i]

\* A connection is active in a document only if its recipient accepted it,
\* whatever fails or overlaps.
ActiveWasAccepted ==
  \A u \in Users, i \in Ids :
    (record[u][i] # None /\ record[u][i].status = "active")
      => \E c \in Calls : call[c].op = "accept" /\ call[c].id = i /\ call[c].user = record[u][i].to

Pair(i) == UNION {IF record[u][i] = None THEN {} ELSE {record[u][i].from, record[u][i].to} : u \in Users}

\* Two open connections between the same users come of two requests at once, or
\* of one that was cut off: the check of the requester's side alone is enough.
OnePerPair ==
  \A u \in Users, i, j \in Ids :
    (i # j /\ Standing(record[u][i]) /\ Standing(record[u][j]) /\ Pair(i) = Pair(j))
      => \/ \E k \in {i, j} : Halved(k)
         \/ \E c, d \in Calls : call[c].id = i /\ call[d].id = j /\ {c, d} \in met
         \/ \E k \in {i, j} : Overlapped(k)

\* Once a revocation is through, nobody creates a task over the connection,
\* unless another request overlapped the revocation.
NoTasksAfterRevocation ==
  [][\A c \in tasks' \ tasks, d \in Calls :
       (call[d].op = "revoke" /\ call[d].pc = "done" /\ call[d].id = call'[c].id)
         => Overlapped(call[d].id)]_connVars

\* The two users' records tell the same, and allow what the recipient allowed.
ConnectionsAgree ==
  []ConnTypeOK /\ []RecordsAgree /\ []ActiveWasAccepted /\ []OnePerPair /\ NoTasksAfterRevocation
=============================================================================
