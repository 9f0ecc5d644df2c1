-------------------------------- MODULE Turns --------------------------------
(***************************************************************************)
(* Turns and sessions: AgentRunner.run, SessionService over SessionRepo,   *)
(* and the ends of sessions (the chat route and the heartbeat's sweep).    *)
(*                                                                         *)
(* All turns, of all users, run as coroutines of one event loop and share  *)
(* one BoardService and one SessionService.  A turn writes its user and    *)
(* its session into fields of these services, and awaits the recall, the   *)
(* model and the guardrail; its tools, and the mirror of the turn into the *)
(* session document, then take the user from the fields again.  Turns      *)
(* interleave at the awaits only.                                          *)
(*                                                                         *)
(* The per-turn memory capture, the transcript and the usage records name  *)
(* their user explicitly and are read by nothing here: they are left out.  *)
(* Definitions named Slip_... are wrong variants, used by no specification *)
(* (see module Board).                                                     *)
(***************************************************************************)
EXTENDS Integers, Sequences, SequencesExt

CONSTANTS
  Users,
  Sessions,      \* session ids, chosen by the clients
  Turns,         \* requests for a turn; each is made once (bound)
  Closers,       \* coroutines that end sessions
  Fallbacks,     \* length of the chain of fallback models
  Guarded,       \* whether guardrails are enabled
  DevUser,       \* dev_user_id, the user of calls before any turn, or None
  Faults,        \* the calls that may fail: "store", "end", "crash"
  None

VARIABLES
  active,        \* _active_user_id with _active_session_id, or None
  turn,          \* turn[t]: the progress of t
  store,         \* store[u][s]: the document users/u/sessions/s, or None
  closer,        \* closer[c]: the sessions that c is ending
  memory,        \* memory[u]: turns extracted into the memories of u
  crossed        \* crossed[t]: contexts set while t ran (observed by properties only)

vars == <<active, turn, store, closer, memory, crossed>>

\* The user and the session that set_active_user and set_active_session store.
Context == [user : Users, session : Sessions]

Message == [turn : Turns, role : {"user", "agent"}]

Session == [status : {"active", "ended"}, msgs : Seq(Message)]

ASSUME TurnsAssumption ==
  /\ Fallbacks \in Nat /\ Guarded \in BOOLEAN
  /\ DevUser \in Users \cup {None} /\ None \notin Users
  /\ None \notin Context \cup Session
  /\ Faults \subseteq {"store", "end", "crash"}

NewSession == [status |-> "active", msgs |-> <<>>]

\* The turn returns or raises; its locals are gone.
Finish(t, pc) == turn' = [turn EXCEPT ![t].pc = pc, ![t].attempt = 0]

Running(t) == turn[t].pc \in {"prepare", "model", "guard"}

\* A closer that is not at an await holds the event loop.
LoopFree == \A c \in Closers : closer[c].pc # "next"

\* _uid: the active user, else the default one.
CurrentUser == IF active = None THEN DevUser ELSE active.user

\* While a turn is at its model, its tools work on the board of this user, and
\* their events go to the channel of this session (see module Board).
ToolContext == active

-----------------------------------------------------------------------------
(* The mirror of a turn into the session documents.                        *)

\* Slip: the session is created without a look.
Slip_AlwaysCreate(st, t) == [st EXCEPT ![turn[t].user][turn[t].session] = NewSession]

\* create_with_id, if get_or_none finds nothing.  It looks under the current
\* user and sets the whole document under the user of the turn.
Opened(st, t) ==
  IF st[CurrentUser][turn[t].session] = None
  THEN [st EXCEPT ![turn[t].user][turn[t].session] = NewSession]
  ELSE st

\* append_message, under the current user; it raises if there is no document.
Appended(st, t, role) ==
  LET u == CurrentUser
      s == turn[t].session
  IN IF st[u][s] = None THEN st
     ELSE [st EXCEPT ![u][s].msgs = Append(@, [turn |-> t, role |-> role])]

\* The three calls in order, without an await.  An exception ends them; it is
\* swallowed.
Mirror(t) ==
  LET opened == Opened(store, t)
      asked  == Appended(opened, t, "user")
      full   == Appended(asked, t, "agent")
  IN /\ \/ store' = full
        \/ "store" \in Faults /\ store' \in {store, opened, asked}
     /\ Finish(t, "answered")

-----------------------------------------------------------------------------
(* AgentRunner._run_turn.                                                  *)

\* Slip: a user who is already set stays.
Slip_KeepActive(t, u, s) ==
  LET context == [user |-> u, session |-> s]
  IN /\ turn[t].pc = "new" /\ LoopFree
     /\ active' = IF active = None THEN context ELSE active
     /\ turn' = [turn EXCEPT ![t] = [pc |-> "prepare", user |-> u, session |-> s, attempt |-> 0]]
     /\ crossed' = [r \in Turns |-> IF Running(r) THEN crossed[r] \cup {context} ELSE crossed[r]]
     /\ UNCHANGED <<store, closer, memory>>

\* Everything up to the first await: the turn takes the shared fields.
StartTurn(t, u, s) ==
  LET context == [user |-> u, session |-> s]
  IN /\ turn[t].pc = "new" /\ LoopFree
     /\ active' = context
     /\ turn' = [turn EXCEPT ![t] = [pc |-> "prepare", user |-> u, session |-> s, attempt |-> 0]]
     /\ crossed' = [r \in Turns |-> IF Running(r) THEN crossed[r] \cup {context} ELSE crossed[r]]
     /\ UNCHANGED <<store, closer, memory>>

\* The recall and the ADK session, whose errors are swallowed.
Prepared(t) ==
  /\ turn[t].pc = "prepare" /\ LoopFree
  /\ turn' = [turn EXCEPT ![t].pc = "model"]
  /\ UNCHANGED <<active, store, closer, memory, crossed>>

\* Slip: one retry too many.
Slip_OneMoreRetry(t) ==
  /\ turn[t].pc = "model" /\ LoopFree
  /\ \/ /\ turn[t].attempt <= Fallbacks
        /\ turn' = [turn EXCEPT ![t].attempt = @ + 1]
     \/ Finish(t, "failed")
  /\ UNCHANGED <<active, store, closer, memory, crossed>>

\* run_async raises: a retryable error goes to the next model, while there is
\* one.  What the tools have done stays done.
ModelFails(t) ==
  /\ turn[t].pc = "model" /\ LoopFree
  /\ \/ /\ turn[t].attempt < Fallbacks
        /\ turn' = [turn EXCEPT ![t].attempt = @ + 1]
     \/ Finish(t, "failed")
  /\ UNCHANGED <<active, store, closer, memory, crossed>>

\* Slip: the answer is recorded before it is checked.
Slip_RecordUnchecked(t) ==
  /\ turn[t].pc = "model" /\ LoopFree
  /\ store' = Appended(Appended(Opened(store, t), t, "user"), t, "agent")
  /\ turn' = [turn EXCEPT ![t].pc = IF Guarded THEN "guard" ELSE "answered"]
  /\ UNCHANGED <<active, closer, memory, crossed>>

\* The answer.  One without text is neither checked nor mirrored.
Answers(t) ==
  /\ turn[t].pc = "model" /\ LoopFree
  /\ \/ Finish(t, "silent") /\ UNCHANGED store
     \/ IF Guarded THEN turn' = [turn EXCEPT ![t].pc = "guard"] /\ UNCHANGED store
                   ELSE Mirror(t)
  /\ UNCHANGED <<active, closer, memory, crossed>>

\* _apply_guardrail: a block raises; a check that fails lets the text pass.
Judged(t) ==
  /\ turn[t].pc = "guard" /\ LoopFree
  /\ \/ Finish(t, "blocked") /\ UNCHANGED store
     \/ Mirror(t)
  /\ UNCHANGED <<active, closer, memory, crossed>>

\* The heartbeat's timeout cancels the turn at its await.
Cancel(t) ==
  /\ Running(t) /\ LoopFree
  /\ Finish(t, "failed")
  /\ UNCHANGED <<active, store, closer, memory, crossed>>

-----------------------------------------------------------------------------
(* SessionService.end_session.                                             *)

NoCloser == [pc |-> "idle", todo |-> {}, user |-> None, session |-> None, seen |-> None]

Ended(doc) == [doc EXCEPT !.status = "ended"]

TurnsIn(doc) == {doc.msgs[i].turn : i \in 1 .. Len(doc.msgs)}

\* POST /chat/end, whose user is not passed on.
EndChat(c, s) ==
  /\ closer[c].pc = "idle" /\ LoopFree /\ CurrentUser # None
  /\ closer' = [closer EXCEPT ![c] = [NoCloser EXCEPT !.pc = "next", !.todo = {s}]]
  /\ UNCHANGED <<active, turn, store, memory, crossed>>

\* _auto_end_stale_sessions lists active sessions; any may be old by now.
Sweep(c) ==
  /\ closer[c].pc = "idle" /\ LoopFree /\ CurrentUser # None
  /\ \E S \in SUBSET {s \in Sessions : /\ store[CurrentUser][s] # None
                                       /\ store[CurrentUser][s].status = "active"} \ {{}} :
       closer' = [closer EXCEPT ![c] = [NoCloser EXCEPT !.pc = "next", !.todo = S]]
  /\ UNCHANGED <<active, turn, store, memory, crossed>>

\* Slip: the session is marked as ended before its memories are extracted.
Slip_EndFirst(c) ==
  /\ closer[c].pc = "next"
  /\ \E s \in closer[c].todo :
       LET doc == store[CurrentUser][s]
       IN /\ doc # None
          /\ closer' = [closer EXCEPT ![c] =
               [@ EXCEPT !.pc = "extract", !.todo = @ \ {s}, !.user = CurrentUser,
                         !.session = s, !.seen = doc]]
          /\ store' = [store EXCEPT ![CurrentUser][s] = Ended(doc)]
  /\ UNCHANGED <<active, turn, memory, crossed>>

\* The next session is read, under the user who is current by now; one without
\* messages is ended at once.
EndNext(c) ==
  /\ closer[c].pc = "next"
  /\ \E s \in closer[c].todo :
       LET u    == CurrentUser
           doc  == store[u][s]
           rest == [NoCloser EXCEPT !.pc = "next", !.todo = closer[c].todo \ {s}]
       IN \/ /\ doc = None \/ "end" \in Faults
             /\ closer' = [closer EXCEPT ![c] = rest]
             /\ UNCHANGED store
          \/ /\ doc # None /\ doc.msgs = <<>>
             /\ closer' = [closer EXCEPT ![c] = rest]
             /\ store' = [store EXCEPT ![u][s] = Ended(doc)]
          \/ /\ doc # None /\ doc.msgs # <<>>
             /\ closer' = [closer EXCEPT ![c] =
                  [rest EXCEPT !.pc = "extract", !.user = u, !.session = s, !.seen = doc]]
             /\ UNCHANGED store
  /\ UNCHANGED <<active, turn, memory, crossed>>

EndDone(c) ==
  /\ closer[c].pc = "next" /\ closer[c].todo = {}
  /\ closer' = [closer EXCEPT ![c] = NoCloser]
  /\ UNCHANGED <<active, turn, store, memory, crossed>>

\* generate_memories returns, and the copy read before it is written, ended.
Extracted(c) ==
  LET k == closer[c]
  IN /\ k.pc = "extract" /\ LoopFree
     /\ memory' = [memory EXCEPT ![k.user] = @ \cup TurnsIn(k.seen)]
     /\ \/ store' = [store EXCEPT ![k.user][k.session] = Ended(k.seen)]
        \/ "end" \in Faults /\ UNCHANGED store
     /\ closer' = [closer EXCEPT ![c] = [NoCloser EXCEPT !.pc = "next", !.todo = k.todo]]
     /\ UNCHANGED <<active, turn, crossed>>

\* It raises: the session stays active, and a sweep goes on with the next one.
ExtractFails(c) ==
  /\ closer[c].pc = "extract" /\ LoopFree /\ "end" \in Faults
  /\ closer' = [closer EXCEPT ![c] = [NoCloser EXCEPT !.pc = "next", !.todo = closer[c].todo]]
  /\ UNCHANGED <<active, turn, store, memory, crossed>>

-----------------------------------------------------------------------------
\* The process dies and comes back: the documents and the memories remain.
Crash ==
  /\ "crash" \in Faults
  /\ active # None \/ \E c \in Closers : closer[c] # NoCloser
  /\ active' = None
  /\ turn' = [t \in Turns |-> IF Running(t) THEN [turn[t] EXCEPT !.pc = "failed", !.attempt = 0]
                                      ELSE turn[t]]
  /\ closer' = [c \in Closers |-> NoCloser]
  /\ UNCHANGED <<store, memory, crossed>>

Init ==
  /\ active = None
  /\ turn = [t \in Turns |-> [pc |-> "new", user |-> None, session |-> None, attempt |-> 0]]
  /\ store = [u \in Users |-> [s \in Sessions |-> None]]
  /\ closer = [c \in Closers |-> NoCloser]
  /\ memory = [u \in Users |-> {}]
  /\ crossed = [t \in Turns |-> {}]

\* The steps that a turn takes once it has begun.
Continue(t) == Prepared(t) \/ ModelFails(t) \/ Answers(t) \/ Judged(t)

Close(c) == EndNext(c) \/ EndDone(c) \/ Extracted(c) \/ ExtractFails(c)

Next ==
  \/ \E t \in Turns : \/ \E u \in Users, s \in Sessions : StartTurn(t, u, s)
                      \/ Continue(t) \/ Cancel(t)
  \/ \E c \in Closers : Sweep(c) \/ Close(c) \/ \E s \in Sessions : EndChat(c, s)
  \/ Crash

Spec == Init /\ [][Next]_vars

-----------------------------------------------------------------------------
(* Properties.                                                             *)

TurnState == [pc : {"new", "prepare", "model", "guard", "answered", "silent", "blocked", "failed"},
              user : Users \cup {None}, session : Sessions \cup {None}, attempt : 0 .. Fallbacks]

CloserState == [pc : {"idle", "next", "extract"}, todo : SUBSET Sessions,
                user : Users \cup {None}, session : Sessions \cup {None},
                seen : Session \cup {None}]

TypeOK ==
  /\ active \in Context \cup {None}
  /\ turn \in [Turns -> TurnState]
  /\ store \in [Users -> [Sessions -> Session \cup {None}]]
  /\ closer \in [Closers -> CloserState]
  /\ memory \in [Users -> SUBSET Turns]
  /\ crossed \in [Turns -> SUBSET Context]

\* The contexts that turn t can have worked in, and their users.
Contexts(t) == {[user |-> turn[t].user, session |-> turn[t].session]} \cup crossed[t]
UsersOf(t) == {k.user : k \in Contexts(t)}

\* The tools of a turn work for the user of the turn, and show in its channel;
\* its messages are in that user's history, and are extracted into that user's
\* memories.  The exceptions come from overlap only: another turn began
\* meanwhile, and it is that turn's user who gets them.
ToolsStayInContext == \A t \in Turns : turn[t].pc = "model" => ToolContext \in Contexts(t)

MessagesStayInContext ==
  \A u \in Users, s \in Sessions : store[u][s] # None =>
    \A t \in TurnsIn(store[u][s]) : u \in UsersOf(t)

MemoriesStayInContext == \A u \in Users : \A t \in memory[u] : u \in UsersOf(t)

OnlyOverlapMisroutes == ToolsStayInContext /\ MessagesStayInContext /\ MemoriesStayInContext

\* A turn is recorded at most once over all the histories, its answer right
\* after its question, and not at all unless it has answered: no retry with a
\* fallback model, no blocked answer and no end of a session, even one that
\* restores an older copy, repeats, splits or leaks an exchange.
HistoriesAreWhole ==
  \A u \in Users, s \in Sessions : store[u][s] # None =>
    \A i \in DOMAIN store[u][s].msgs :
      LET m == store[u][s].msgs[i]
      IN /\ turn[m.turn].pc = "answered"
         /\ m.role = "agent" => i > 1 /\ store[u][s].msgs[i - 1] = [m EXCEPT !.role = "user"]
         /\ \A v \in Users, z \in Sessions : store[v][z] # None =>
              \A j \in DOMAIN store[v][z].msgs :
                store[v][z].msgs[j] = m => v = u /\ z = s /\ j = i

\* A session goes on: it keeps its messages, and stays ended once it is.
GoesOn(u, s) ==
  /\ store'[u][s] # None
  /\ IsPrefix(store[u][s].msgs, store'[u][s].msgs)
  /\ store[u][s].status = "ended" => store'[u][s].status = "ended"

\* A closer puts back the copy that it read before others wrote.
RestoresOldCopy(u, s) ==
  \E c \in Closers : /\ closer[c].pc = "extract"
                     /\ closer[c].user = u /\ closer[c].session = s
                     /\ closer[c].seen # store[u][s]

\* A turn of u is mirrored after another user's turn began during it.
MirrorsAcross(u, s) ==
  \E t \in Turns : /\ turn[t].pc # "answered" /\ turn'[t].pc = "answered"
                   /\ turn[t].user = u /\ turn[t].session = s
                   /\ UsersOf(t) # {u}

\* History is lost, or an ended session reopened, in these two races only.
LosesByRaces ==
  \A u \in Users, s \in Sessions : store[u][s] # None =>
    GoesOn(u, s) \/ RestoresOldCopy(u, s) \/ MirrorsAcross(u, s)

OnlyRacesLoseHistory == [][LosesByRaces]_vars

\* "extract memories from the full transcript": whatever is stored as ended by
\* a close has all been extracted for the user under whom it is stored.
EndsRemembered ==
  \A u \in Users, s \in Sessions :
    store[u][s] # None /\ store'[u][s] # None /\ store[u][s].status = "active"
      /\ store'[u][s].status = "ended" => TurnsIn(store'[u][s]) \subseteq memory'[u]

EndedIsRemembered == [][EndsRemembered]_vars

\* A history is made of whole exchanges, and goes away only by a race.
HistoriesStayWhole == []HistoriesAreWhole /\ OnlyRacesLoseHistory
=============================================================================
