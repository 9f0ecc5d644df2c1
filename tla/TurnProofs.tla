----------------------------- MODULE TurnProofs -----------------------------
(***************************************************************************)
(* Turns stray only into contexts that overlap them, for any users,        *)
(* sessions, turns, closers, fallback chains and faults; histories hold    *)
(* whole exchanges, are lost in races only, and end remembered.            *)
(*                                                                         *)
(* The invariant IInv says where every copy of a message can be: in the    *)
(* documents, in the copies that closers hold, in the memories; and that   *)
(* the shared fields always hold a context of every running turn.          *)
(*                                                                         *)
(* The second half is about what a turn's spans set going when they end,   *)
(* the four parts of MC_Telemetry: rows stay accounted for, prompts leave  *)
(* redacted, events are sent once and in order, and the documents of runs  *)
(* add up.  The parts share no state; each has an invariant of its own.    *)
(***************************************************************************)
EXTENDS Turns, MC_Telemetry, FiniteSetTheorems, TLAPS

\* u is a user whose context turn t can have worked in, and t is over.
Placed(u, t) == turn[t].pc = "answered" /\ u \in UsersOf(t)

\* Every message of the document is of a turn that can have worked for u.
Filed(doc, u) == \A t \in TurnsIn(doc) : Placed(u, t)

ActiveInContext == \A t \in Turns : Running(t) => active \in Contexts(t)

BegunHaveUsers ==
  \A t \in Turns : turn[t].pc # "new" => turn[t].user \in Users /\ turn[t].session \in Sessions

DocumentsFiled ==
  \A u \in Users, s \in Sessions : store[u][s] # None => Filed(store[u][s], u)

MemoriesPlaced == \A u \in Users : \A t \in memory[u] : Placed(u, t)

ClosersBound ==
  \A c \in Closers :
    /\ closer[c].pc # "idle" => CurrentUser \in Users
    /\ closer[c].pc = "extract" =>
         /\ closer[c].user \in Users /\ closer[c].session \in Sessions
         /\ closer[c].seen \in Session /\ Filed(closer[c].seen, closer[c].user)

IInv == /\ TypeOK /\ ActiveInContext /\ BegunHaveUsers
        /\ DocumentsFiled /\ MemoriesPlaced /\ ClosersBound

-----------------------------------------------------------------------------
(* Facts about the operators.                                              *)

\* Ending a document keeps its messages and its type.
LEMMA EndedKeeps ==
  ASSUME NEW doc \in Session
  PROVE  Ended(doc) \in Session /\ TurnsIn(Ended(doc)) = TurnsIn(doc)
BY DEF Ended, Session, TurnsIn

\* Appending a message adds its turn at most.
LEMMA AppendAdds ==
  ASSUME NEW doc \in Session, NEW m \in Message
  PROVE  LET d == [doc EXCEPT !.msgs = Append(@, m)]
         IN d \in Session /\ TurnsIn(d) \subseteq TurnsIn(doc) \cup {m.turn}
<1> DEFINE d == [doc EXCEPT !.msgs = Append(@, m)]
<1>1. /\ doc.msgs \in Seq(Message) /\ d.msgs = Append(doc.msgs, m)
      /\ d.status = doc.status /\ DOMAIN d = {"status", "msgs"}
  BY DEF Session
<1>2. d \in Session
  BY <1>1 DEF Session
<1>3. ASSUME NEW i \in 1 .. Len(d.msgs)
      PROVE  d.msgs[i].turn \in TurnsIn(doc) \cup {m.turn}
  <2>1. Len(d.msgs) = Len(doc.msgs) + 1 /\ Len(doc.msgs) \in Nat
    BY <1>1
  <2>2. CASE i = Len(doc.msgs) + 1
    BY <1>1, <2>1, <2>2
  <2>3. CASE i \in 1 .. Len(doc.msgs)
    <3>1. d.msgs[i] = doc.msgs[i]
      BY <1>1, <2>1, <2>3
    <3> QED
      BY <3>1, <2>3 DEF TurnsIn
  <2> QED
    BY <2>1, <2>2, <2>3
<1> QED
  BY <1>2, <1>3 DEF TurnsIn

\* The messages of a document are of turns.
LEMMA TurnsOfDocument == \A doc \in Session : TurnsIn(doc) \subseteq Turns
<1> SUFFICES ASSUME NEW doc \in Session, NEW i \in 1 .. Len(doc.msgs)
             PROVE  doc.msgs[i].turn \in Turns
  BY DEF TurnsIn
<1>1. doc.msgs \in Seq(Message)
  BY DEF Session
<1>2. doc.msgs[i] \in Message
  BY <1>1
<1> QED
  BY <1>2 DEF Message

\* A new session is one, without messages.
LEMMA NewSessionIsEmpty == NewSession \in Session /\ TurnsIn(NewSession) = {}
<1>1. <<>> \in Seq(Message) /\ Len(<<>>) = 0
  OBVIOUS
<1> QED
  BY <1>1 DEF NewSession, Session, TurnsIn

-----------------------------------------------------------------------------
(* The mirror.                                                             *)

\* The documents before and after a step of the mirror of t: each message is
\* filed, or is of t and stored under the current user.
Mirrored(st, t) ==
  /\ st \in [Users -> [Sessions -> Session \cup {None}]]
  /\ \A u \in Users, s \in Sessions : st[u][s] # None =>
       \A r \in TurnsIn(st[u][s]) : Placed(u, r) \/ (r = t /\ u = CurrentUser)

\* get_or_none and create_with_id: a new document holds no message.
LEMMA OpenedMirrors ==
  ASSUME NEW t \in Turns, NEW st, Mirrored(st, t),
         turn[t].user \in Users, turn[t].session \in Sessions
  PROVE  Mirrored(Opened(st, t), t)
<1>1. CASE Opened(st, t) = st
  BY <1>1
<1>2. CASE Opened(st, t) = [st EXCEPT ![turn[t].user][turn[t].session] = NewSession]
  BY <1>2, NewSessionIsEmpty DEF Mirrored
<1> QED
  BY <1>1, <1>2 DEF Opened

\* append_message: the message is of t, under the current user.
LEMMA AppendedMirrors ==
  ASSUME NEW t \in Turns, NEW st, Mirrored(st, t), NEW role \in {"user", "agent"},
         CurrentUser \in Users, turn[t].session \in Sessions
  PROVE  Mirrored(Appended(st, t, role), t)
<1> DEFINE u == CurrentUser
           s == turn[t].session
           m == [turn |-> t, role |-> role]
           d == [st[u][s] EXCEPT !.msgs = Append(@, m)]
<1>1. CASE st[u][s] = None
  BY <1>1 DEF Appended
<1>2. CASE st[u][s] # None
  <2>1. st[u][s] \in Session /\ m \in Message /\ m.turn = t
    BY <1>2 DEF Mirrored, Message
  <2>2. d \in Session /\ TurnsIn(d) \subseteq TurnsIn(st[u][s]) \cup {t}
    BY <2>1, AppendAdds
  <2>3. Appended(st, t, role) = [st EXCEPT ![u][s] = d]
    BY <1>2 DEF Appended
  <2> HIDE DEF d, u, s
  <2>4. \A v \in Users, z \in Sessions :
          [st EXCEPT ![u][s] = d][v][z] = IF v = u /\ z = s THEN d ELSE st[v][z]
    BY DEF Mirrored
  <2> QED
    BY <1>2, <2>2, <2>3, <2>4 DEF Mirrored, u, s
<1> QED
  BY <1>1, <1>2

-----------------------------------------------------------------------------
(* Steps.                                                                  *)

\* A turn that has begun keeps its context, and an answered one its answer;
\* contexts only come to it.
TurnsGoOn ==
  \A t \in Turns : turn[t].pc # "new" =>
    /\ turn'[t].pc # "new"
    /\ turn[t].pc = "answered" => turn'[t].pc = "answered"
    /\ turn'[t].user = turn[t].user /\ turn'[t].session = turn[t].session
    /\ crossed[t] \subseteq crossed'[t]

\* A turn that has begun loses no context.
LEMMA ContextsStay ==
  ASSUME TurnsGoOn, NEW t \in Turns, turn[t].pc # "new"
  PROVE  Contexts(t) \subseteq Contexts(t)' /\ UsersOf(t) \subseteq UsersOf(t)'
BY DEF TurnsGoOn, Contexts, UsersOf

\* What is placed stays placed.
LEMMA PlacedStays ==
  ASSUME TurnsGoOn, NEW u, NEW t \in Turns, Placed(u, t)
  PROVE  Placed(u, t)'
<1>1. turn[t].pc = "answered" /\ u \in UsersOf(t) /\ turn[t].pc # "new"
  BY DEF Placed
<1>2. u \in UsersOf(t)' /\ turn'[t].pc = "answered"
  BY <1>1, ContextsStay DEF TurnsGoOn
<1> QED
  BY <1>2 DEF Placed

\* A copy that is filed stays filed, whoever holds it.
LEMMA FiledStays ==
  ASSUME TurnsGoOn, NEW u, NEW doc \in Session, Filed(doc, u)
  PROVE  Filed(doc, u)'
<1>1. TurnsIn(doc) \subseteq Turns
  BY TurnsOfDocument
<1>2. \A t \in TurnsIn(doc) : Placed(u, t)'
  BY <1>1, PlacedStays DEF Filed
<1>3. TurnsIn(doc)' = TurnsIn(doc)
  BY DEF TurnsIn
<1> QED
  BY <1>2, <1>3 DEF Filed

\* A step that leaves the documents alone keeps them filed; so for the
\* memories and for the copies of the closers.
LEMMA DocumentsStay ==
  ASSUME TypeOK, TurnsGoOn, DocumentsFiled, UNCHANGED store
  PROVE  DocumentsFiled'
<1> SUFFICES ASSUME NEW u \in Users, NEW s \in Sessions, store'[u][s] # None
             PROVE  Filed(store[u][s], u)'
  BY Zenon DEF DocumentsFiled
<1>1. store[u][s] \in Session /\ Filed(store[u][s], u)
  BY DEF TypeOK, DocumentsFiled
<1> HIDE DEF Filed
<1>2. \A doc \in Session : Filed(doc, u) => Filed(doc, u)'
  BY FiledStays
<1> QED
  BY <1>1, <1>2

\* So for the memories, when no close adds to them.
LEMMA MemoriesStay ==
  ASSUME TypeOK, TurnsGoOn, MemoriesPlaced, UNCHANGED memory
  PROVE  MemoriesPlaced'
BY PlacedStays DEF MemoriesPlaced, TypeOK

\* So for the copies of the closers.
LEMMA ClosersStay ==
  ASSUME TypeOK, TurnsGoOn, ClosersBound, UNCHANGED closer,
         CurrentUser \in Users => CurrentUser' \in Users
  PROVE  ClosersBound'
<1> SUFFICES ASSUME NEW c \in Closers
             PROVE  /\ closer[c].pc # "idle" => CurrentUser' \in Users
                    /\ closer[c].pc = "extract" =>
                         /\ closer[c].user \in Users /\ closer[c].session \in Sessions
                         /\ closer[c].seen \in Session /\ Filed(closer[c].seen, closer[c].user)'
  BY Zenon DEF ClosersBound
<1>1. closer[c].pc # "idle" => CurrentUser' \in Users
  BY DEF ClosersBound
<1>2. ASSUME closer[c].pc = "extract"
      PROVE  /\ closer[c].user \in Users /\ closer[c].session \in Sessions
             /\ closer[c].seen \in Session /\ Filed(closer[c].seen, closer[c].user)'
  <2> HIDE DEF Filed
  <2>1. \A u, doc : doc \in Session /\ Filed(doc, u) => Filed(doc, u)'
    BY FiledStays
  <2> QED
    BY <1>2, <2>1 DEF ClosersBound
<1> QED
  BY <1>1, <1>2

\* Turn t moves on; the others, and the shared fields, stay.
Advances(t) ==
  /\ Running(t)
  /\ turn' \in [Turns -> TurnState]
  /\ \A r \in Turns \ {t} : turn'[r] = turn[r]
  /\ turn'[t].pc # "new"
  /\ turn'[t].user = turn[t].user /\ turn'[t].session = turn[t].session
  /\ UNCHANGED <<active, closer, memory, crossed>>

\* When a turn moves on, everything but the documents is kept.
LEMMA AdvanceKeeps ==
  ASSUME IInv, NEW t \in Turns, Advances(t)
  PROVE  /\ TurnsGoOn /\ ActiveInContext' /\ BegunHaveUsers'
         /\ MemoriesPlaced' /\ ClosersBound'
<1>1. TurnsGoOn
  BY DEF TurnsGoOn, Advances, Running
<1>2. ActiveInContext'
  <2> SUFFICES ASSUME NEW r \in Turns, Running(r)'
               PROVE  active' \in Contexts(r)'
    BY DEF ActiveInContext
  <2>1. Running(r) /\ turn[r].pc # "new"
    BY DEF Advances, Running
  <2> QED
    BY <1>1, <2>1, ContextsStay DEF ActiveInContext, IInv, Advances
<1>3. BegunHaveUsers'
  BY DEF IInv, BegunHaveUsers, Advances, Running
<1>4. MemoriesPlaced'
  BY <1>1, MemoriesStay DEF IInv, Advances
<1>5. ClosersBound'
  BY <1>1, ClosersStay DEF IInv, Advances, CurrentUser
<1> QED
  BY <1>1, <1>2, <1>3, <1>4, <1>5

\* A turn moves on without touching the documents.
LEMMA PlainAdvance ==
  ASSUME IInv, NEW t \in Turns, Advances(t), UNCHANGED store
  PROVE  IInv'
<1>1. DocumentsFiled'
  BY AdvanceKeeps, DocumentsStay DEF IInv
<1>2. TypeOK'
  BY DEF IInv, TypeOK, Advances
<1> QED
  BY <1>1, <1>2, AdvanceKeeps DEF IInv

\* A running turn works under a current user of its own contexts.
LEMMA RunningHasUser ==
  ASSUME TurnsAssumption, IInv, NEW t \in Turns, Running(t)
  PROVE  /\ turn[t].user \in Users /\ turn[t].session \in Sessions
         /\ CurrentUser \in Users /\ CurrentUser \in UsersOf(t)
<1>1. turn[t].user \in Users /\ turn[t].session \in Sessions
  BY DEF IInv, BegunHaveUsers, Running
<1>2. active \in Contexts(t) /\ Contexts(t) \subseteq Context
  BY <1>1 DEF IInv, ActiveInContext, Contexts, Context, TypeOK
<1>3. active # None
  BY <1>2 DEF TurnsAssumption, Context
<1> QED
  BY <1>1, <1>2, <1>3 DEF CurrentUser, UsersOf, Context

\* The turn answers and is mirrored, in full or up to a failing call.
LEMMA MirrorStep ==
  ASSUME TurnsAssumption, IInv, NEW t \in Turns, Running(t), Mirror(t),
         UNCHANGED <<active, closer, memory, crossed>>
  PROVE  IInv'
<1> DEFINE opened == Opened(store, t)
           asked  == Appended(opened, t, "user")
           full   == Appended(asked, t, "agent")
<1>1. Advances(t) /\ turn'[t].pc = "answered"
  <2>1. turn' = [turn EXCEPT ![t].pc = "answered", ![t].attempt = 0]
    BY DEF Mirror, Finish
  <2>2. turn \in [Turns -> TurnState] /\ 0 \in 0 .. Fallbacks
    BY DEF IInv, TypeOK, TurnsAssumption
  <2>3. turn' \in [Turns -> TurnState] /\ turn'[t].pc = "answered"
        /\ turn'[t].user = turn[t].user /\ turn'[t].session = turn[t].session
        /\ \A r \in Turns \ {t} : turn'[r] = turn[r]
    BY <2>1, <2>2 DEF TurnState
  <2> QED
    BY <2>3 DEF Advances
<1>2. turn[t].user \in Users /\ turn[t].session \in Sessions /\ CurrentUser \in Users
      /\ CurrentUser \in UsersOf(t)
  BY RunningHasUser
<1>3. Mirrored(store, t)
  BY DEF Mirrored, IInv, TypeOK, DocumentsFiled, Filed
<1>4. Mirrored(opened, t)
  BY <1>2, <1>3, OpenedMirrors
<1>5. Mirrored(asked, t)
  <2> HIDE DEF opened
  <2> QED
    BY <1>2, <1>4, AppendedMirrors
<1>6. Mirrored(full, t)
  <2> HIDE DEF asked
  <2> QED
    BY <1>2, <1>5, AppendedMirrors
<1>7. Mirrored(store', t)
  <2>1. store' \in {full, store, opened, asked}
    BY DEF Mirror
  <2> HIDE DEF full, asked, opened
  <2> QED
    BY <1>3, <1>4, <1>5, <1>6, <2>1
<1>8. DocumentsFiled'
  <2>1. TurnsGoOn
    BY <1>1, AdvanceKeeps
  <2>2. \A u : \A r \in Turns : Placed(u, r) => Placed(u, r)'
    BY <2>1, PlacedStays
  <2>3. Placed(CurrentUser, t)'
    <3>1. CurrentUser \in UsersOf(t)'
      BY <1>2, <2>1, ContextsStay DEF Running
    <3>2. CurrentUser' = CurrentUser
      BY DEF CurrentUser
    <3> QED
      BY <1>1, <3>1, <3>2 DEF Placed
  <2>4. \A u \in Users, s \in Sessions : store'[u][s] # None =>
          /\ store'[u][s] \in Session
          /\ \A r \in TurnsIn(store'[u][s]) : r \in Turns /\ Placed(u, r)'
    <3> SUFFICES ASSUME NEW u \in Users, NEW s \in Sessions, store'[u][s] # None
                 PROVE  /\ store'[u][s] \in Session
                        /\ \A r \in TurnsIn(store'[u][s]) : r \in Turns /\ Placed(u, r)'
      OBVIOUS
    <3>1. store'[u][s] \in Session
      BY <1>7 DEF Mirrored
    <3>2. TurnsIn(store'[u][s]) \subseteq Turns
      BY <3>1, TurnsOfDocument
    <3>3. \A r \in TurnsIn(store'[u][s]) : Placed(u, r) \/ (r = t /\ u = CurrentUser)
      BY <1>7 DEF Mirrored
    <3> HIDE DEF Placed
    <3>4. CurrentUser' = CurrentUser
      BY DEF CurrentUser
    <3> QED
      BY <2>2, <2>3, <3>1, <3>2, <3>3, <3>4 DEF Placed
  <2> QED
    BY <2>4 DEF DocumentsFiled, Filed, TurnsIn
<1>9. TypeOK'
  BY <1>1, <1>7 DEF IInv, TypeOK, Advances, Mirrored
<1> QED
  BY <1>1, <1>8, <1>9, AdvanceKeeps DEF IInv

\* A turn starts: its context becomes the current one, and crosses all the
\* turns that run.
LEMMA StartStep ==
  ASSUME TurnsAssumption, IInv, NEW t \in Turns, NEW u \in Users, NEW s \in Sessions,
         StartTurn(t, u, s)
  PROVE  IInv'
<1> DEFINE context == [user |-> u, session |-> s]
<1>1. /\ turn[t].pc = "new" /\ active' = context /\ context \in Context
      /\ turn' = [turn EXCEPT ![t] = [pc |-> "prepare", user |-> u, session |-> s, attempt |-> 0]]
      /\ UNCHANGED <<store, closer, memory>>
  BY DEF StartTurn, Context
<1>2. \A r \in Turns : crossed'[r] = IF Running(r) THEN crossed[r] \cup {context} ELSE crossed[r]
  BY DEF StartTurn
<1>3. TypeOK'
  <2>1. turn' \in [Turns -> TurnState]
    BY <1>1 DEF IInv, TypeOK, TurnState, TurnsAssumption
  <2>2. crossed' \in [Turns -> SUBSET Context]
    <3>1. crossed' = [r \in Turns |-> IF Running(r) THEN crossed[r] \cup {context} ELSE crossed[r]]
      BY DEF StartTurn
    <3> HIDE DEF context
    <3> QED
      BY <1>1, <3>1 DEF IInv, TypeOK
  <2> QED
    BY <1>1, <2>1, <2>2 DEF IInv, TypeOK
<1>4. TurnsGoOn
  BY <1>1, <1>2 DEF TurnsGoOn, IInv, TypeOK
<1>5. ActiveInContext'
  <2> SUFFICES ASSUME NEW r \in Turns, Running(r)'
               PROVE  context \in Contexts(r)'
    BY <1>1 DEF ActiveInContext
  <2>1. CASE r = t
    <3>1. turn'[t].user = u /\ turn'[t].session = s
      BY <1>1 DEF IInv, TypeOK
    <3> QED
      BY <2>1, <3>1 DEF Contexts
  <2>2. CASE r # t
    <3>1. Running(r)
      BY <1>1, <2>2 DEF Running
    <3> QED
      BY <1>2, <3>1 DEF Contexts
  <2> QED
    BY <2>1, <2>2
<1>6. BegunHaveUsers'
  BY <1>1 DEF BegunHaveUsers, IInv, TypeOK
<1>7. CurrentUser' \in Users
  BY <1>1 DEF CurrentUser, Context, TurnsAssumption
<1>8. DocumentsFiled' /\ MemoriesPlaced' /\ ClosersBound'
  BY <1>1, <1>4, <1>7, DocumentsStay, MemoriesStay, ClosersStay DEF IInv
<1> QED
  BY <1>3, <1>5, <1>6, <1>8 DEF IInv

\* A closer moves on: the turns and the shared fields stay, and so do the
\* facts about them.
ClosesOn == UNCHANGED <<active, turn, crossed>>

LEMMA ClosesKeep ==
  ASSUME IInv, ClosesOn
  PROVE  /\ TurnsGoOn /\ ActiveInContext' /\ BegunHaveUsers' /\ CurrentUser' = CurrentUser
         /\ \A u, doc : Filed(doc, u)' <=> Filed(doc, u)
         /\ \A u, t : Placed(u, t)' <=> Placed(u, t)
BY DEF IInv, ClosesOn, TurnsGoOn, ActiveInContext, BegunHaveUsers, CurrentUser,
       Filed, Placed, TurnsIn, UsersOf, Contexts, Running

\* What a closer may be after a step, whatever the step did.
Bound(k) ==
  /\ k \in CloserState
  /\ k.pc # "idle" => CurrentUser \in Users
  /\ k.pc = "extract" => /\ k.user \in Users /\ k.session \in Sessions
                         /\ k.seen \in Session /\ Filed(k.seen, k.user)

LEMMA BoundKeeps ==
  ASSUME IInv, ClosesOn, NEW c \in Closers, NEW k, Bound(k),
         closer' = [closer EXCEPT ![c] = k]
  PROVE  ClosersBound' /\ closer' \in [Closers -> CloserState]
<1>1. \A d \in Closers : closer'[d] = IF d = c THEN k ELSE closer[d]
  BY DEF IInv, TypeOK
<1>2. \A d \in Closers :
        /\ closer'[d].pc # "idle" => CurrentUser \in Users
        /\ closer'[d].pc = "extract" =>
             /\ closer'[d].user \in Users /\ closer'[d].session \in Sessions
             /\ closer'[d].seen \in Session /\ Filed(closer'[d].seen, closer'[d].user)
  <2> HIDE DEF Filed
  <2> QED
    BY <1>1 DEF Bound, IInv, ClosersBound
<1>3. ClosersBound'
  <2>1. CurrentUser' = CurrentUser /\ \A u, doc : Filed(doc, u)' <=> Filed(doc, u)
    BY ClosesKeep
  <2> HIDE DEF Filed, CurrentUser
  <2> QED
    BY <1>2, <2>1 DEF ClosersBound
<1>4. closer' \in [Closers -> CloserState]
  BY DEF Bound, IInv, TypeOK
<1> QED
  BY <1>3, <1>4

\* A document is set to a filed copy, ended, or nothing is written.
LEMMA EndedIsFiled ==
  ASSUME IInv, ClosesOn, NEW u \in Users, NEW s \in Sessions,
         NEW doc \in Session, Filed(doc, u),
         \/ UNCHANGED store
         \/ store' = [store EXCEPT ![u][s] = Ended(doc)]
  PROVE  DocumentsFiled' /\ store' \in [Users -> [Sessions -> Session \cup {None}]]
<1>1. Ended(doc) \in Session /\ Filed(Ended(doc), u)
  <2>1. Ended(doc) \in Session /\ TurnsIn(Ended(doc)) = TurnsIn(doc)
    BY EndedKeeps
  <2> QED
    BY <2>1 DEF Filed
<1>2. \A v \in Users, z \in Sessions :
        store'[v][z] = store[v][z] \/ (v = u /\ store'[v][z] = Ended(doc))
  BY DEF IInv, TypeOK
<1>3. \A v \in Users, z \in Sessions : store'[v][z] # None => Filed(store'[v][z], v)
  <2> HIDE DEF Filed
  <2> QED
    BY <1>1, <1>2 DEF IInv, DocumentsFiled
<1>4. DocumentsFiled'
  <2>1. \A v, d : Filed(d, v)' <=> Filed(d, v)
    BY ClosesKeep
  <2>2. \A v \in Users, z \in Sessions : store'[v][z] # None => Filed(store[v][z], v)'
    <3> SUFFICES ASSUME NEW v \in Users, NEW z \in Sessions, store'[v][z] # None
                 PROVE  Filed(store[v][z], v)'
      OBVIOUS
    <3>1. Filed(store'[v][z], v)
      BY <1>3
    <3>2. \A t \in TurnsIn(store'[v][z]) : Placed(v, t)'
      BY <3>1, ClosesKeep DEF Filed
    <3> QED
      BY <3>2 DEF Filed, TurnsIn
  <2> QED
    BY <2>2 DEF DocumentsFiled
<1>5. store' \in [Users -> [Sessions -> Session \cup {None}]]
  BY <1>1 DEF IInv, TypeOK
<1> QED
  BY <1>4, <1>5

\* A close begins: POST /chat/end, or the sweep of a heartbeat.
LEMMA BeginCloseStep ==
  ASSUME TurnsAssumption, IInv, NEW c \in Closers,
         Sweep(c) \/ \E s \in Sessions : EndChat(c, s)
  PROVE  IInv'
<1>1. PICK S \in SUBSET Sessions :
        closer' = [closer EXCEPT ![c] = [NoCloser EXCEPT !.pc = "next", !.todo = S]]
  BY DEF Sweep, EndChat
<1>2. ClosesOn /\ UNCHANGED <<store, memory>> /\ CurrentUser # None
  BY DEF Sweep, EndChat, ClosesOn
<1>3. CurrentUser \in Users
  BY <1>2 DEF IInv, TypeOK, CurrentUser, Context, TurnsAssumption
<1>4. Bound([NoCloser EXCEPT !.pc = "next", !.todo = S])
  BY <1>3 DEF Bound, NoCloser, CloserState
<1>5. ClosersBound' /\ closer' \in [Closers -> CloserState]
  <2> HIDE DEF NoCloser, Bound
  <2> QED
    BY <1>1, <1>2, <1>4, BoundKeeps
<1>6. TurnsGoOn /\ ActiveInContext' /\ BegunHaveUsers'
  BY <1>2, ClosesKeep
<1>7. DocumentsFiled' /\ MemoriesPlaced'
  BY <1>2, <1>6, DocumentsStay, MemoriesStay DEF IInv
<1>8. TypeOK'
  BY <1>2, <1>5 DEF IInv, TypeOK, ClosesOn
<1> QED
  BY <1>5, <1>6, <1>7, <1>8 DEF IInv

\* A close reads the next session, under the current user, or is done.
LEMMA EndNextStep ==
  ASSUME TurnsAssumption, IInv, NEW c \in Closers, EndNext(c) \/ EndDone(c)
  PROVE  IInv'
<1>1. ClosesOn /\ UNCHANGED memory /\ closer[c] \in CloserState /\ closer[c].pc = "next"
  BY DEF EndNext, EndDone, ClosesOn, IInv, TypeOK
<1>2. CurrentUser \in Users
  BY <1>1 DEF IInv, ClosersBound
<1>3. /\ ClosersBound' /\ closer' \in [Closers -> CloserState]
      /\ DocumentsFiled' /\ store' \in [Users -> [Sessions -> Session \cup {None}]]
  <2>1. CASE EndDone(c)
    <3>1. Bound(NoCloser) /\ closer' = [closer EXCEPT ![c] = NoCloser] /\ UNCHANGED store
      BY <2>1 DEF EndDone, Bound, NoCloser, CloserState
    <3> QED
      BY <1>1, <3>1, BoundKeeps, ClosesKeep, DocumentsStay DEF IInv, TypeOK
  <2>2. CASE EndNext(c)
    <3> DEFINE u == CurrentUser
               rest(s) == [NoCloser EXCEPT !.pc = "next", !.todo = closer[c].todo \ {s}]
               held(s) == [rest(s) EXCEPT !.pc = "extract", !.user = u, !.session = s,
                                          !.seen = store[u][s]]
    <3>1. PICK s \in closer[c].todo :
            \/ closer' = [closer EXCEPT ![c] = rest(s)] /\ UNCHANGED store
            \/ /\ store[u][s] # None
               /\ closer' = [closer EXCEPT ![c] = rest(s)]
               /\ store' = [store EXCEPT ![u][s] = Ended(store[u][s])]
            \/ /\ store[u][s] # None
               /\ closer' = [closer EXCEPT ![c] = held(s)]
               /\ UNCHANGED store
      BY <2>2 DEF EndNext
    <3>2. s \in Sessions /\ Bound(rest(s))
      BY <1>1, <1>2 DEF Bound, NoCloser, CloserState
    <3>3. store[u][s] # None => store[u][s] \in Session /\ Filed(store[u][s], u)
      BY <1>2, <3>2 DEF IInv, TypeOK, DocumentsFiled
    <3>4. store[u][s] # None => Bound(held(s))
      <4>1. ASSUME store[u][s] # None
            PROVE  /\ held(s) \in CloserState /\ held(s).user = u /\ held(s).session = s
                   /\ held(s).seen = store[u][s]
        BY <1>1, <1>2, <3>2, <3>3, <4>1 DEF NoCloser, CloserState
      <4> HIDE DEF held, Filed, u
      <4> QED
        BY <1>2, <3>2, <3>3, <4>1 DEF Bound, u
    <3>5. ClosersBound' /\ closer' \in [Closers -> CloserState]
      <4> HIDE DEF held, rest, Bound, u
      <4> QED
        BY <1>1, <3>1, <3>2, <3>4, BoundKeeps
    <3>6. DocumentsFiled' /\ store' \in [Users -> [Sessions -> Session \cup {None}]]
      <4>1. CASE UNCHANGED store
        BY <1>1, <4>1, ClosesKeep, DocumentsStay DEF IInv, TypeOK
      <4>2. CASE store[u][s] # None /\ store' = [store EXCEPT ![u][s] = Ended(store[u][s])]
        <5> HIDE DEF Filed, u
        <5> QED
          BY <1>1, <1>2, <3>2, <3>3, <4>2, EndedIsFiled DEF u
      <4> QED
        BY <3>1, <4>1, <4>2
    <3> QED
      BY <3>5, <3>6
  <2> QED
    BY <2>1, <2>2
<1>4. TurnsGoOn /\ ActiveInContext' /\ BegunHaveUsers'
  BY <1>1, ClosesKeep
<1>5. MemoriesPlaced'
  BY <1>1, <1>4, MemoriesStay DEF IInv
<1>6. TypeOK'
  BY <1>1, <1>3 DEF IInv, TypeOK, ClosesOn
<1> QED
  BY <1>3, <1>4, <1>5, <1>6 DEF IInv

\* A close puts its copy back, ended, after the extraction; or it gives up.
LEMMA ExtractStep ==
  ASSUME IInv, NEW c \in Closers, Extracted(c) \/ ExtractFails(c)
  PROVE  IInv'
<1> DEFINE k == closer[c]
           rest == [NoCloser EXCEPT !.pc = "next", !.todo = k.todo]
<1>1. /\ ClosesOn /\ k \in CloserState /\ k.pc = "extract"
      /\ closer' = [closer EXCEPT ![c] = rest]
  BY DEF Extracted, ExtractFails, ClosesOn, IInv, TypeOK
<1>2. /\ CurrentUser \in Users /\ k.user \in Users /\ k.session \in Sessions
      /\ k.seen \in Session /\ Filed(k.seen, k.user)
  BY <1>1 DEF IInv, ClosersBound
<1>3. Bound(rest)
  BY <1>1, <1>2 DEF Bound, NoCloser, CloserState
<1>4. ClosersBound' /\ closer' \in [Closers -> CloserState]
  <2> HIDE DEF rest, Bound
  <2> QED
    BY <1>1, <1>3, BoundKeeps
<1>5. DocumentsFiled' /\ store' \in [Users -> [Sessions -> Session \cup {None}]]
  <2>1. \/ UNCHANGED store
        \/ store' = [store EXCEPT ![k.user][k.session] = Ended(k.seen)]
    BY DEF Extracted, ExtractFails
  <2> HIDE DEF k, Filed
  <2> QED
    BY <1>1, <1>2, <2>1, EndedIsFiled
<1>6. MemoriesPlaced' /\ memory' \in [Users -> SUBSET Turns]
  <2>1. \A u \in Users : \A t \in memory'[u] :
          t \in memory[u] \/ (u = k.user /\ t \in TurnsIn(k.seen))
    BY <1>2 DEF Extracted, ExtractFails, IInv, TypeOK
  <2>2. \A u \in Users : \A t \in memory'[u] : Placed(u, t)
    <3> HIDE DEF Placed
    <3> QED
      BY <1>2, <2>1 DEF Filed, IInv, MemoriesPlaced
  <2>3. MemoriesPlaced'
    <3>1. \A u, t : Placed(u, t)' <=> Placed(u, t)
      BY <1>1, ClosesKeep
    <3> HIDE DEF Placed
    <3> QED
      BY <2>2, <3>1 DEF MemoriesPlaced
  <2>4. TurnsIn(k.seen) \subseteq Turns
    BY <1>2, TurnsOfDocument
  <2> QED
    BY <1>2, <2>3, <2>4 DEF Extracted, ExtractFails, IInv, TypeOK
<1>7. TurnsGoOn /\ ActiveInContext' /\ BegunHaveUsers'
  BY <1>1, ClosesKeep
<1>8. TypeOK'
  BY <1>1, <1>4, <1>5, <1>6 DEF IInv, TypeOK, ClosesOn
<1> QED
  BY <1>4, <1>5, <1>6, <1>7, <1>8 DEF IInv

\* The process dies: no turn runs and no close is under way.
LEMMA CrashStep ==
  ASSUME TurnsAssumption, IInv, Crash
  PROVE  IInv'
<1>1. /\ active' = None /\ closer' = [c \in Closers |-> NoCloser]
      /\ UNCHANGED <<store, memory, crossed>>
      /\ turn' = [t \in Turns |-> IF Running(t)
                                  THEN [turn[t] EXCEPT !.pc = "failed", !.attempt = 0]
                                  ELSE turn[t]]
  BY DEF Crash
<1>2. turn' \in [Turns -> TurnState]
  <2>1. \A t \in Turns : turn[t] \in TurnState /\ 0 \in 0 .. Fallbacks
    BY DEF IInv, TypeOK, TurnsAssumption
  <2>2. \A t \in Turns : [turn[t] EXCEPT !.pc = "failed", !.attempt = 0] \in TurnState
    BY <2>1 DEF TurnState
  <2> QED
    BY <1>1, <2>1, <2>2
<1>3. \A t \in Turns :
        /\ ~Running(t)' /\ turn'[t].user = turn[t].user /\ turn'[t].session = turn[t].session
        /\ turn'[t].pc = turn[t].pc \/ (Running(t) /\ turn'[t].pc = "failed")
  BY <1>1 DEF Running, IInv, TypeOK, TurnState
<1>4. TurnsGoOn
  BY <1>1, <1>3 DEF TurnsGoOn, Running
<1>5. ActiveInContext' /\ BegunHaveUsers'
  BY <1>3 DEF ActiveInContext, BegunHaveUsers, IInv, Running
<1>6. ClosersBound' /\ closer' \in [Closers -> CloserState]
  BY <1>1 DEF ClosersBound, NoCloser, CloserState
<1>7. DocumentsFiled' /\ MemoriesPlaced'
  BY <1>1, <1>4, DocumentsStay, MemoriesStay DEF IInv
<1>8. TypeOK'
  BY <1>1, <1>2, <1>6 DEF IInv, TypeOK
<1> QED
  BY <1>5, <1>6, <1>7, <1>8 DEF IInv

-----------------------------------------------------------------------------
(* The theorem.                                                            *)

\* It holds at first.
LEMMA InvInit == ASSUME TurnsAssumption, Init PROVE IInv
BY DEF Init, IInv, TypeOK, ActiveInContext, BegunHaveUsers, DocumentsFiled,
       MemoriesPlaced, ClosersBound, Running, TurnState, CloserState, NoCloser, TurnsAssumption

\* Every step keeps it.
LEMMA InvNext == ASSUME TurnsAssumption, IInv, [Next]_vars PROVE IInv'
<1>1. ASSUME NEW t \in Turns, NEW u \in Users, NEW s \in Sessions, StartTurn(t, u, s)
      PROVE  IInv'
  BY <1>1, StartStep
<1>2. ASSUME NEW t \in Turns, Continue(t) \/ Cancel(t)
      PROVE  IInv'
  <2>1. CASE Mirror(t) /\ Running(t) /\ UNCHANGED <<active, closer, memory, crossed>>
    BY <2>1, MirrorStep
  <2>2. CASE /\ Running(t) /\ UNCHANGED <<active, store, closer, memory, crossed>>
             /\ \E pc \in {"model", "guard", "failed", "silent", "blocked"}, n \in 0 .. Fallbacks :
                  turn' = [turn EXCEPT ![t].pc = pc, ![t].attempt = n]
    <3>1. turn \in [Turns -> TurnState]
      BY DEF IInv, TypeOK
    <3>2. PICK pc \in {"model", "guard", "failed", "silent", "blocked"}, n \in 0 .. Fallbacks :
            turn' = [turn EXCEPT ![t].pc = pc, ![t].attempt = n]
      BY <2>2
    <3>3. /\ turn' \in [Turns -> TurnState] /\ turn'[t].pc = pc
          /\ turn'[t].user = turn[t].user /\ turn'[t].session = turn[t].session
          /\ \A r \in Turns \ {t} : turn'[r] = turn[r]
      BY <3>1, <3>2 DEF TurnState
    <3>4. Advances(t)
      BY <2>2, <3>3 DEF Advances
    <3> QED
      BY <2>2, <3>4, PlainAdvance
  <2>3. turn[t] \in TurnState /\ turn \in [Turns -> TurnState] /\ 0 \in 0 .. Fallbacks
    BY DEF IInv, TypeOK, TurnsAssumption
  <2>4. \A pc : [turn EXCEPT ![t].pc = pc] =
                  [turn EXCEPT ![t].pc = pc, ![t].attempt = turn[t].attempt]
    BY <2>3 DEF TurnState
  <2>5. CASE Prepared(t)
    BY <2>2, <2>3, <2>4, <2>5 DEF Prepared, Running, TurnState
  <2>6. CASE ModelFails(t)
    <3>1. CASE Finish(t, "failed")
      BY <2>2, <2>3, <2>6, <3>1 DEF ModelFails, Finish, Running
    <3>2. CASE turn[t].attempt < Fallbacks /\ turn' = [turn EXCEPT ![t].attempt = @ + 1]
      <4>1. turn[t].attempt + 1 \in 0 .. Fallbacks
        BY <2>3, <3>2 DEF TurnState, TurnsAssumption
      <4>2. turn' = [turn EXCEPT ![t].pc = "model", ![t].attempt = turn[t].attempt + 1]
        BY <2>3, <2>6, <3>2 DEF ModelFails, TurnState
      <4> QED
        BY <2>2, <2>6, <4>1, <4>2 DEF ModelFails, Running
    <3> QED
      BY <2>6, <3>1, <3>2 DEF ModelFails
  <2>7. CASE Answers(t)
    <3>1. CASE turn' = [turn EXCEPT ![t].pc = "guard"] /\ UNCHANGED store
      BY <2>2, <2>3, <2>4, <2>7, <3>1 DEF Answers, Running, TurnState
    <3>2. CASE Finish(t, "silent") /\ UNCHANGED store
      BY <2>2, <2>3, <2>7, <3>2 DEF Answers, Finish, Running
    <3>3. CASE Mirror(t)
      BY <2>1, <2>7, <3>3 DEF Answers, Running
    <3> QED
      BY <2>7, <3>1, <3>2, <3>3 DEF Answers
  <2>8. CASE Judged(t)
    <3>1. CASE Finish(t, "blocked") /\ UNCHANGED store
      BY <2>2, <2>3, <2>8, <3>1 DEF Judged, Finish, Running
    <3>2. CASE Mirror(t)
      BY <2>1, <2>8, <3>2 DEF Judged, Running
    <3> QED
      BY <2>8, <3>1, <3>2 DEF Judged
  <2>9. CASE Cancel(t)
    BY <2>2, <2>3, <2>9 DEF Cancel, Finish
  <2> QED
    BY <1>2, <2>5, <2>6, <2>7, <2>8, <2>9 DEF Continue
<1>3. ASSUME NEW c \in Closers, Sweep(c) \/ Close(c) \/ \E s \in Sessions : EndChat(c, s)
      PROVE  IInv'
  BY <1>3, BeginCloseStep, EndNextStep, ExtractStep DEF Close
<1>4. CASE Crash
  BY <1>4, CrashStep
<1>5. CASE UNCHANGED vars
  BY <1>5 DEF vars, IInv, TypeOK, ActiveInContext, BegunHaveUsers, DocumentsFiled,
              MemoriesPlaced, ClosersBound, CurrentUser, Running, Contexts, UsersOf,
              Filed, Placed, TurnsIn
<1> QED
  BY <1>1, <1>2, <1>3, <1>4, <1>5 DEF Next

\* The invariant says what is wanted.
LEMMA InvImplies == ASSUME TurnsAssumption, IInv PROVE OnlyOverlapMisroutes
<1>1. ToolsStayInContext
  BY DEF ToolsStayInContext, ToolContext, IInv, ActiveInContext, Running
<1>2. MessagesStayInContext
  BY DEF MessagesStayInContext, IInv, DocumentsFiled, Filed, Placed
<1>3. MemoriesStayInContext
  BY DEF MemoriesStayInContext, IInv, MemoriesPlaced, Placed
<1> QED
  BY <1>1, <1>2, <1>3 DEF OnlyOverlapMisroutes

\* The state of turns, sessions and closers keeps its type.
THEOREM TurnsTypeCorrect == Spec => []TypeOK
<1>1. Init => IInv
  BY TurnsAssumption, InvInit
<1>2. IInv /\ [Next]_vars => IInv'
  BY TurnsAssumption, InvNext
<1>3. IInv => TypeOK
  BY DEF IInv
<1> QED
  BY <1>1, <1>2, <1>3, PTL DEF Spec

\* Tools, messages and memories of a turn belong to its own user, or to the
\* user of a turn that began while it ran (set_active_user).
THEOREM TurnsStrayOnlyByOverlap == Spec => []OnlyOverlapMisroutes
<1>1. Init => IInv
  BY TurnsAssumption, InvInit
<1>2. IInv /\ [Next]_vars => IInv'
  BY TurnsAssumption, InvNext
<1>3. IInv => OnlyOverlapMisroutes
  BY TurnsAssumption, InvImplies
<1> QED
  BY <1>1, <1>2, <1>3, PTL DEF Spec

-----------------------------------------------------------------------------
(* Histories.                                                              *)
(*                                                                         *)
(* A close puts back a copy that it read earlier, so a message may be gone *)
(* from its document and come back: the invariant is about every copy that *)
(* is stored or held, and says that a message has one place in all of them.*)

\* The document doc of session s of user u is stored, or held by a close.
Copy(u, s, doc) ==
  \/ doc # None /\ store[u][s] = doc
  \/ \E c \in Closers : closer[c].pc = "extract" /\ closer[c].user = u /\ closer[c].session = s /\ closer[c].seen = doc

\* Messages of turns that have answered, each answer right after its question.
Whole(doc) ==
  \A i \in DOMAIN doc.msgs :
    /\ turn[doc.msgs[i].turn].pc = "answered"
    /\ doc.msgs[i].role = "agent" => i > 1 /\ doc.msgs[i - 1] = [doc.msgs[i] EXCEPT !.role = "user"]

\* Some copy has the message m at the place i.
At(u, s, i, m) == \E doc : Copy(u, s, doc) /\ i \in DOMAIN doc.msgs /\ doc.msgs[i] = m

CopiesWhole == \A u \in Users, s \in Sessions : \A doc : Copy(u, s, doc) => doc \in Session /\ Whole(doc)

OnePlace ==
  \A u, v \in Users, s, z \in Sessions : \A i, j, m : At(u, s, i, m) /\ At(v, z, j, m) => u = v /\ s = z /\ i = j

HInv == IInv /\ CopiesWhole /\ OnePlace

AnswersStay == \A t \in Turns : turn[t].pc = "answered" => turn'[t].pc = "answered"

\* Every copy after the step was one before, but for its status, or is empty.
CopiesLast ==
  \A u \in Users, s \in Sessions : \A doc : Copy(u, s, doc)' =>
    doc \in Session /\ (doc.msgs = <<>> \/ \E d : Copy(u, s, d) /\ d.msgs = doc.msgs)

LEMMA MessagesOf ==
  ASSUME NEW doc \in Session, NEW i \in DOMAIN doc.msgs
  PROVE  doc.msgs[i] \in Message /\ i \in 1 .. Len(doc.msgs) /\ Len(doc.msgs) \in Nat
<1>1. doc.msgs \in Seq(Message)
  BY DEF Session
<1> QED
  BY <1>1

\* Such a step keeps the histories whole.
LEMMA CopiesLastKeeps ==
  ASSUME HInv, AnswersStay, CopiesLast
  PROVE  CopiesWhole' /\ OnePlace'
<1>1. \A u \in Users, s \in Sessions : \A i, m : At(u, s, i, m)' => At(u, s, i, m)
  <2> SUFFICES ASSUME NEW u \in Users, NEW s \in Sessions, NEW i, NEW m, At(u, s, i, m)'
               PROVE  At(u, s, i, m)
    OBVIOUS
  <2>1. PICK doc : Copy(u, s, doc)' /\ i \in DOMAIN doc.msgs /\ doc.msgs[i] = m
    BY DEF At
  <2>2. doc \in Session /\ (doc.msgs = <<>> \/ \E d : Copy(u, s, d) /\ d.msgs = doc.msgs)
    BY <2>1 DEF CopiesLast
  <2>3. doc.msgs # <<>>
    BY <2>1
  <2> QED
    BY <2>1, <2>2, <2>3 DEF At
<1>2. OnePlace'
  BY <1>1 DEF HInv, OnePlace
<1>3. ASSUME NEW u \in Users, NEW s \in Sessions, NEW doc, Copy(u, s, doc)'
      PROVE  doc \in Session /\ Whole(doc)'
  <2>1. doc \in Session /\ (doc.msgs = <<>> \/ \E d : Copy(u, s, d) /\ d.msgs = doc.msgs)
    BY <1>3 DEF CopiesLast
  <2>2. ASSUME NEW i \in DOMAIN doc.msgs
        PROVE  /\ turn'[doc.msgs[i].turn].pc = "answered"
               /\ doc.msgs[i].role = "agent" => i > 1 /\ doc.msgs[i - 1] = [doc.msgs[i] EXCEPT !.role = "user"]
    <3>1. PICK d : Copy(u, s, d) /\ d.msgs = doc.msgs
      BY <2>1, <2>2
    <3>2. Whole(d)
      BY <3>1 DEF HInv, CopiesWhole
    <3>3. doc.msgs[i].turn \in Turns
      BY <2>1, <2>2, MessagesOf DEF Message
    <3> QED
      BY <2>2, <3>1, <3>2, <3>3 DEF Whole, AnswersStay
  <2> QED
    BY <2>1, <2>2 DEF Whole
<1> QED
  BY <1>2, <1>3 DEF CopiesWhole

LEMMA AnswersStayAnswered == ASSUME IInv, [Next]_vars PROVE AnswersStay
<1> SUFFICES ASSUME NEW t \in Turns, turn[t].pc = "answered" PROVE turn'[t].pc = "answered"
  BY DEF AnswersStay
<1>1. turn \in [Turns -> TurnState]
  BY DEF IInv, TypeOK
<1>2. ASSUME NEW r \in Turns, Continue(r) \/ Cancel(r) PROVE turn'[t].pc = "answered"
  <2>1. Running(r) /\ r # t
    BY <1>2 DEF Continue, Cancel, Prepared, ModelFails, Answers, Judged, Running
  <2>2. turn'[t] = turn[t]
    BY <1>1, <1>2, <2>1 DEF Continue, Cancel, Prepared, ModelFails, Answers, Judged, Finish, Mirror
  <2> QED
    BY <2>2
<1>3. ASSUME NEW r \in Turns, NEW u \in Users, NEW s \in Sessions, StartTurn(r, u, s) PROVE turn'[t].pc = "answered"
  BY <1>1, <1>3 DEF StartTurn
<1>4. ASSUME NEW c \in Closers, Sweep(c) \/ Close(c) \/ \E s \in Sessions : EndChat(c, s) PROVE turn'[t].pc = "answered"
  BY <1>4 DEF Sweep, Close, EndChat, EndNext, EndDone, Extracted, ExtractFails
<1>5. CASE Crash
  BY <1>1, <1>5 DEF Crash, Running
<1> QED
  BY <1>2, <1>3, <1>4, <1>5 DEF Next, vars

Documents == [Users -> [Sessions -> Session \cup {None}]]

Asked(t) == [turn |-> t, role |-> "user"]
Answered(t) == [turn |-> t, role |-> "agent"]

\* doc is base with the exchange of t, or with its question only.
Exchanged(doc, base, t) ==
  /\ doc \in Session /\ doc.status = base.status
  /\ \/ doc.msgs = Append(base.msgs, Asked(t))
     \/ doc.msgs = Append(Append(base.msgs, Asked(t)), Answered(t))

\* The document that the mirror of t appends to, as it is found or created.
Base(t) == IF store[CurrentUser][turn[t].session] = None THEN NewSession ELSE store[CurrentUser][turn[t].session]

\* after is before with m appended to the document of u and s, if there is one.
Appends(after, before, u, s, m) ==
  /\ after \in Documents
  /\ \A v \in Users, z \in Sessions :
       IF v = u /\ z = s /\ before[v][z] # None
       THEN /\ after[v][z] \in Session /\ after[v][z].status = before[v][z].status
            /\ after[v][z].msgs = Append(before[v][z].msgs, m)
       ELSE after[v][z] = before[v][z]

\* append_message, document by document.
LEMMA AppendedAt ==
  ASSUME NEW t \in Turns, NEW st \in Documents, NEW role \in {"user", "agent"},
         NEW u \in Users, NEW s \in Sessions, u = CurrentUser, s = turn[t].session
  PROVE  Appends(Appended(st, t, role), st, u, s, [turn |-> t, role |-> role])
<1> DEFINE m == [turn |-> t, role |-> role]
           a == Appended(st, t, role)
<1>1. CASE st[u][s] = None
  BY <1>1 DEF Appended, Appends
<1>2. CASE st[u][s] # None
  <2> DEFINE d == [st[u][s] EXCEPT !.msgs = Append(@, m)]
  <2>1. st[u][s] \in Session /\ m \in Message
    BY <1>2 DEF Message, Documents
  <2>2. d \in Session /\ d.status = st[u][s].status /\ d.msgs = Append(st[u][s].msgs, m)
    <3>1. /\ st[u][s].msgs \in Seq(Message) /\ d.msgs = Append(st[u][s].msgs, m)
          /\ d.status = st[u][s].status /\ DOMAIN d = {"status", "msgs"}
      BY <2>1 DEF Session
    <3>2. d \in Session
      BY <2>1, AppendAdds
    <3> QED
      BY <3>1, <3>2
  <2>3. a = [st EXCEPT ![u][s] = d]
    BY <1>2 DEF Appended
  <2> HIDE DEF d
  <2>4. /\ a \in Documents
        /\ \A v \in Users, z \in Sessions : a[v][z] = IF v = u /\ z = s THEN d ELSE st[v][z]
    BY <2>2, <2>3 DEF Documents
  <2> HIDE DEF a, m
  <2>5. Appends(a, st, u, s, m)
    BY <1>2, <2>2, <2>4 DEF Appends
  <2> QED
    BY <2>5 DEF a, m
<1> QED
  BY <1>1, <1>2

\* What the mirror of t writes: a document that was missing, and the exchange.
LEMMA MirrorWrites ==
  ASSUME TurnsAssumption, IInv, NEW t \in Turns, Running(t), Mirror(t),
         NEW u \in Users, NEW s \in Sessions
  PROVE  \/ store'[u][s] = store[u][s]
         \/ /\ u = turn[t].user /\ s = turn[t].session
            /\ store[CurrentUser][s] = None /\ store'[u][s] = NewSession
         \/ /\ u = CurrentUser /\ s = turn[t].session /\ Base(t) \in Session
            /\ store[u][s] = None => u = turn[t].user
            /\ Exchanged(store'[u][s], Base(t), t)
<1> DEFINE opened == Opened(store, t)
           asked  == Appended(opened, t, "user")
           full   == Appended(asked, t, "agent")
<1>1. PICK v \in Users, y \in Users, z \in Sessions : v = CurrentUser /\ y = turn[t].user /\ z = turn[t].session
  BY RunningHasUser
<1>2. store \in Documents /\ NewSession \in Session
  BY NewSessionIsEmpty DEF IInv, TypeOK, Documents
<1>3. /\ opened \in Documents
      /\ opened[u][s] = IF store[v][z] = None /\ u = y /\ s = z THEN NewSession ELSE store[u][s]
      /\ opened[v][z] = IF store[v][z] = None /\ v = y THEN NewSession ELSE store[v][z]
  BY <1>1, <1>2 DEF Opened, Documents
<1>4. store' \in {full, store, opened, asked}
  BY DEF Mirror
<1> HIDE DEF opened
<1>5. /\ asked \in Documents
      /\ IF u = v /\ s = z /\ opened[u][s] # None
         THEN /\ asked[u][s] \in Session /\ asked[u][s].status = opened[u][s].status
              /\ asked[u][s].msgs = Append(opened[u][s].msgs, Asked(t))
         ELSE asked[u][s] = opened[u][s]
  <2>1. Appends(asked, opened, v, z, [turn |-> t, role |-> "user"])
    BY <1>1, <1>3, AppendedAt
  <2> HIDE DEF asked
  <2> QED
    BY <2>1 DEF Asked, Appends
<1> HIDE DEF asked
<1>6. /\ IF u = v /\ s = z /\ asked[u][s] # None
         THEN /\ full[u][s] \in Session /\ full[u][s].status = asked[u][s].status
              /\ full[u][s].msgs = Append(asked[u][s].msgs, Answered(t))
         ELSE full[u][s] = asked[u][s]
  <2>1. Appends(full, asked, v, z, [turn |-> t, role |-> "agent"])
    BY <1>1, <1>5, AppendedAt
  <2> HIDE DEF full
  <2> QED
    BY <2>1 DEF Answered, Appends
<1> HIDE DEF full
<1>7. CASE u = v /\ s = z /\ opened[v][z] # None
  <2>1. Base(t) = opened[v][z] /\ opened[v][z] \in Session /\ (store[v][z] = None => v = y)
    BY <1>1, <1>2, <1>3, <1>7 DEF Base, Documents
  <2>2. Exchanged(asked[u][s], Base(t), t)
    BY <1>5, <1>7, <2>1 DEF Exchanged
  <2>3. Exchanged(full[u][s], Base(t), t)
    BY <1>5, <1>6, <1>7, <2>1, <2>2 DEF Exchanged
  <2> QED
    BY <1>1, <1>3, <1>4, <1>7, <2>1, <2>2, <2>3
<1>8. CASE ~(u = v /\ s = z /\ opened[v][z] # None)
  <2>1. asked[u][s] = opened[u][s] /\ full[u][s] = opened[u][s]
    BY <1>5, <1>6, <1>8
  <2> QED
    BY <1>1, <1>3, <1>4, <2>1
<1> QED
  BY <1>7, <1>8

LEMMA MirrorKeepsHistories ==
  ASSUME TurnsAssumption, HInv, NEW t \in Turns, Running(t), Mirror(t), UNCHANGED closer
  PROVE  CopiesWhole' /\ OnePlace'
<1>1. PICK v \in Users, z \in Sessions : v = CurrentUser /\ z = turn[t].session
  BY RunningHasUser DEF HInv
<1>2. turn'[t].pc = "answered" /\ turn[t].pc # "answered" /\ \A r \in Turns \ {t} : turn'[r] = turn[r]
  BY DEF Mirror, Finish, Running, HInv, IInv, TypeOK
<1>3. AnswersStay
  BY <1>2 DEF AnswersStay
<1> DEFINE b == Base(t)
           n == Len(b.msgs)
<1>4. b \in Session => /\ b.msgs \in Seq(Message) /\ n \in Nat
                       /\ \A i \in DOMAIN b.msgs : At(v, z, i, b.msgs[i])
                       /\ Whole(b)
  <2>1. ASSUME b \in Session PROVE b.msgs \in Seq(Message) /\ n \in Nat
    BY <2>1 DEF Session
  <2>2. CASE store[v][z] = None
    <3>1. b = NewSession /\ b.msgs = <<>>
      BY <1>1, <2>2 DEF Base, NewSession
    <3> QED
      BY <2>1, <3>1 DEF Whole
  <2>3. CASE store[v][z] # None
    <3>1. Copy(v, z, b)
      BY <1>1, <2>3 DEF Base, Copy
    <3> QED
      BY <2>1, <3>1 DEF At, HInv, CopiesWhole
  <2> QED
    BY <2>2, <2>3
\* A copy after the step was one before, or is empty, or is the one appended to.
<1>5. ASSUME NEW u \in Users, NEW s \in Sessions, NEW doc, Copy(u, s, doc)'
      PROVE  \/ Copy(u, s, doc)
             \/ doc = NewSession
             \/ u = v /\ s = z /\ b \in Session /\ Exchanged(doc, b, t)
  <2>1. CASE doc # None /\ store'[u][s] = doc
    BY <1>1, <2>1, MirrorWrites DEF Copy, HInv
  <2>2. CASE \E c \in Closers : closer'[c].pc = "extract" /\ closer'[c].user = u /\ closer'[c].session = s /\ closer'[c].seen = doc
    BY <2>2 DEF Copy
  <2> QED
    BY <1>5, <2>1, <2>2 DEF Copy
<1> HIDE DEF b
<1>6. ASSUME b \in Session, NEW doc, Exchanged(doc, b, t), NEW i \in DOMAIN doc.msgs
      PROVE  \/ i \in DOMAIN b.msgs /\ doc.msgs[i] = b.msgs[i]
             \/ i = n + 1 /\ doc.msgs[i] = Asked(t)
             \/ i = n + 2 /\ doc.msgs[i] = Answered(t) /\ doc.msgs[i - 1] = Asked(t)
  <2>1. Asked(t) \in Message /\ Answered(t) \in Message /\ b.msgs \in Seq(Message) /\ n \in Nat
    BY <1>4, <1>6 DEF Asked, Answered, Message
  <2> DEFINE q == Append(b.msgs, Asked(t))
             a == Append(q, Answered(t))
  <2>2. q \in Seq(Message) /\ Len(q) = n + 1 /\ q[n + 1] = Asked(t) /\ \A j \in 1 .. n : q[j] = b.msgs[j]
    BY <2>1
  <2> HIDE DEF q
  <2>3. Len(a) = n + 2 /\ a[n + 2] = Answered(t) /\ \A j \in 1 .. n + 1 : a[j] = q[j]
    BY <2>1, <2>2
  <2>4. DOMAIN b.msgs = 1 .. n /\ DOMAIN q = 1 .. n + 1 /\ DOMAIN a = 1 .. n + 2
    BY <2>1, <2>2, <2>3
  <2> HIDE DEF a, n
  <2>5. CASE doc.msgs = q
    BY <1>6, <2>1, <2>2, <2>4, <2>5
  <2>6. CASE doc.msgs = a
    BY <1>6, <2>1, <2>2, <2>3, <2>4, <2>6
  <2> QED
    BY <1>6, <2>5, <2>6 DEF Exchanged, q, a
<1>7. ASSUME NEW u \in Users, NEW s \in Sessions, NEW i, NEW m, At(u, s, i, m)'
      PROVE  \/ At(u, s, i, m)
             \/ u = v /\ s = z /\ i = n + 1 /\ m = Asked(t)
             \/ u = v /\ s = z /\ i = n + 2 /\ m = Answered(t)
  <2>1. PICK doc : Copy(u, s, doc)' /\ i \in DOMAIN doc.msgs /\ doc.msgs[i] = m
    BY <1>7 DEF At
  <2>2. CASE Copy(u, s, doc)
    BY <2>1, <2>2 DEF At
  <2>3. CASE doc = NewSession
    BY <2>1, <2>3 DEF NewSession
  <2>4. CASE u = v /\ s = z /\ b \in Session /\ Exchanged(doc, b, t)
    BY <1>4, <1>6, <2>1, <2>4
  <2> QED
    BY <1>5, <2>1, <2>2, <2>3, <2>4
<1>8. ASSUME NEW u \in Users, NEW s \in Sessions, NEW i, NEW m, At(u, s, i, m)
      PROVE  m # Asked(t) /\ m # Answered(t)
  <2>1. PICK doc : Copy(u, s, doc) /\ i \in DOMAIN doc.msgs /\ doc.msgs[i] = m
    BY <1>8 DEF At
  <2>2. Whole(doc)
    BY <2>1 DEF HInv, CopiesWhole
  <2>3. turn[m.turn].pc = "answered"
    BY <2>1, <2>2 DEF Whole
  <2> QED
    BY <1>2, <2>3 DEF Asked, Answered
<1>9. OnePlace'
  <2>1. Asked(t) # Answered(t)
    BY DEF Asked, Answered
  <2> HIDE DEF n
  <2> QED
    BY <1>7, <1>8, <2>1 DEF HInv, OnePlace
<1>10. CopiesWhole'
  <2>1. ASSUME NEW u \in Users, NEW s \in Sessions, NEW doc, Copy(u, s, doc)'
        PROVE  doc \in Session /\ Whole(doc)'
    <3>1. \A d \in Session : Whole(d) => Whole(d)'
      <4>1. ASSUME NEW d \in Session, Whole(d), NEW i \in DOMAIN d.msgs
            PROVE  /\ turn'[d.msgs[i].turn].pc = "answered"
                   /\ d.msgs[i].role = "agent" => i > 1 /\ d.msgs[i - 1] = [d.msgs[i] EXCEPT !.role = "user"]
        <5>1. d.msgs[i].turn \in Turns
          BY <4>1, MessagesOf DEF Message
        <5> QED
          BY <1>3, <4>1, <5>1 DEF Whole, AnswersStay
      <4> QED
        BY <4>1 DEF Whole
    <3>2. CASE Copy(u, s, doc)
      BY <3>1, <3>2 DEF HInv, CopiesWhole
    <3>3. CASE doc = NewSession
      BY <3>3, NewSessionIsEmpty DEF NewSession, Whole
    <3>4. CASE b \in Session /\ Exchanged(doc, b, t)
      <4>1. ASSUME NEW i \in DOMAIN doc.msgs
            PROVE  /\ turn'[doc.msgs[i].turn].pc = "answered"
                   /\ doc.msgs[i].role = "agent" => i > 1 /\ doc.msgs[i - 1] = [doc.msgs[i] EXCEPT !.role = "user"]
        <5>1. CASE i \in DOMAIN b.msgs /\ doc.msgs[i] = b.msgs[i]
          <6>1. /\ turn'[b.msgs[i].turn].pc = "answered"
                /\ b.msgs[i].role = "agent" => i > 1 /\ b.msgs[i - 1] = [b.msgs[i] EXCEPT !.role = "user"]
            <7>1. b \in Session /\ Whole(b)
              BY <1>4, <3>4
            <7>2. \A d \in Session : Whole(d) => \A j \in DOMAIN d.msgs :
                    /\ turn'[d.msgs[j].turn].pc = "answered"
                    /\ d.msgs[j].role = "agent" => j > 1 /\ d.msgs[j - 1] = [d.msgs[j] EXCEPT !.role = "user"]
              BY <3>1 DEF Whole
            <7> HIDE DEF Whole, n
            <7> QED
              BY <5>1, <7>1, <7>2
          <6>2. i > 1 => i - 1 \in DOMAIN doc.msgs /\ i - 1 \in DOMAIN b.msgs /\ i - 1 <= n /\ i - 1 # n + 1 /\ i - 1 # n + 2
            <7>1. doc.msgs \in Seq(Message) /\ b.msgs \in Seq(Message) /\ n \in Nat
              BY <1>4, <3>4 DEF Exchanged, Session
            <7> QED
              BY <4>1, <5>1, <7>1
          <6>3. i > 1 => doc.msgs[i - 1] = b.msgs[i - 1]
            BY <1>6, <3>4, <6>2
          <6> QED
            BY <5>1, <6>1, <6>3
        <5>2. CASE i = n + 1 /\ doc.msgs[i] = Asked(t)
          BY <1>2, <5>2 DEF Asked
        <5>3. CASE i = n + 2 /\ doc.msgs[i] = Answered(t) /\ doc.msgs[i - 1] = Asked(t)
          <6>1. i > 1
            BY <1>4, <3>4, <5>3
          <6> QED
            BY <1>2, <5>3, <6>1 DEF Asked, Answered
        <5> QED
          BY <1>6, <3>4, <4>1, <5>1, <5>2, <5>3
      <4> QED
        BY <3>4, <4>1 DEF Whole, Exchanged
    <3> QED
      BY <1>5, <2>1, <3>2, <3>3, <3>4
  <2> QED
    BY <2>1 DEF CopiesWhole
<1> QED
  BY <1>9, <1>10

\* An ended document has the messages that it had.
LEMMA EndedHasMessages ==
  ASSUME NEW doc \in Session
  PROVE  Ended(doc) \in Session /\ Ended(doc).msgs = doc.msgs /\ Ended(doc).status = "ended"
BY DEF Ended, Session

\* Documents and held copies are those of before, or made of those of before.
LEMMA CopiesLastIf ==
  ASSUME HInv,
         \A u \in Users, s \in Sessions : store'[u][s] # None =>
           \/ store'[u][s] = store[u][s]
           \/ store'[u][s] \in Session /\ \E d : Copy(u, s, d) /\ d.msgs = store'[u][s].msgs,
         \A c \in Closers : closer'[c].pc = "extract" =>
           \/ closer'[c] = closer[c]
           \/ closer'[c].seen # None /\ closer'[c].seen = store[closer'[c].user][closer'[c].session]
  PROVE  CopiesLast
<1> SUFFICES ASSUME NEW u \in Users, NEW s \in Sessions, NEW doc, Copy(u, s, doc)'
             PROVE  doc \in Session /\ \E d : Copy(u, s, d) /\ d.msgs = doc.msgs
  BY DEF CopiesLast
<1>1. Copy(u, s, doc) => doc \in Session /\ \E d : Copy(u, s, d) /\ d.msgs = doc.msgs
  BY DEF HInv, CopiesWhole
<1>2. CASE doc # None /\ store'[u][s] = doc
  <2>1. CASE doc = store[u][s]
    BY <1>1, <1>2, <2>1 DEF Copy
  <2>2. CASE doc \in Session /\ \E d : Copy(u, s, d) /\ d.msgs = doc.msgs
    BY <2>2
  <2> QED
    BY <1>2, <2>1, <2>2
<1>3. CASE \E c \in Closers : closer'[c].pc = "extract" /\ closer'[c].user = u /\ closer'[c].session = s /\ closer'[c].seen = doc
  <2>1. PICK c \in Closers : closer'[c].pc = "extract" /\ closer'[c].user = u /\ closer'[c].session = s /\ closer'[c].seen = doc
    BY <1>3
  <2>2. Copy(u, s, doc)
    BY <2>1 DEF Copy
  <2> QED
    BY <1>1, <2>2
<1> QED
  BY <1>2, <1>3 DEF Copy

\* Steps that write no document and read none.
LEMMA NothingReadKeeps ==
  ASSUME HInv, AnswersStay, UNCHANGED store,
         \A c \in Closers : closer'[c].pc = "extract" => closer'[c] = closer[c]
  PROVE  CopiesWhole' /\ OnePlace'
<1>1. CopiesLast
  BY CopiesLastIf
<1> QED
  BY <1>1, CopiesLastKeeps

\* end_session reads the session, or ends it at once.
LEMMA EndNextKeepsHistories ==
  ASSUME TurnsAssumption, HInv, AnswersStay, NEW c \in Closers, EndNext(c)
  PROVE  CopiesWhole' /\ OnePlace'
<1>1. /\ CurrentUser \in Users /\ closer \in [Closers -> CloserState]
      /\ store \in [Users -> [Sessions -> Session \cup {None}]]
  BY DEF HInv, IInv, ClosersBound, TypeOK, EndNext
<1>2. PICK u \in Users : u = CurrentUser
  BY <1>1
<1>3. PICK s \in closer[c].todo :
        LET doc == store[u][s]
            rest == [NoCloser EXCEPT !.pc = "next", !.todo = closer[c].todo \ {s}]
        IN \/ closer' = [closer EXCEPT ![c] = rest] /\ UNCHANGED store
           \/ /\ doc # None
              /\ closer' = [closer EXCEPT ![c] = rest]
              /\ store' = [store EXCEPT ![u][s] = Ended(doc)]
           \/ /\ doc # None
              /\ closer' = [closer EXCEPT ![c] =
                   [rest EXCEPT !.pc = "extract", !.user = u, !.session = s, !.seen = doc]]
              /\ UNCHANGED store
  BY <1>2, Zenon DEF EndNext
<1>4. s \in Sessions
  BY <1>1 DEF CloserState
<1> DEFINE doc == store[u][s]
           rest == [NoCloser EXCEPT !.pc = "next", !.todo = closer[c].todo \ {s}]
<1>5. rest.pc = "next"
  BY DEF NoCloser
<1>6. \A v \in Users, z \in Sessions : store'[v][z] # None =>
        \/ store'[v][z] = store[v][z]
        \/ store'[v][z] \in Session /\ \E d : Copy(v, z, d) /\ d.msgs = store'[v][z].msgs
  <2>1. CASE doc # None /\ store' = [store EXCEPT ![u][s] = Ended(doc)]
    <3>1. doc \in Session /\ Copy(u, s, doc)
      BY <1>1, <1>4, <2>1 DEF Copy
    <3>2. Ended(doc) \in Session /\ Ended(doc).msgs = doc.msgs
      BY <3>1, EndedHasMessages
    <3>3. \A v \in Users, z \in Sessions : store'[v][z] = IF v = u /\ z = s THEN Ended(doc) ELSE store[v][z]
      BY <1>1, <1>4, <2>1
    <3> QED
      BY <3>1, <3>2, <3>3
  <2> QED
    BY <1>3, <2>1
<1>7. \A k \in Closers : closer'[k].pc = "extract" =>
        \/ closer'[k] = closer[k]
        \/ closer'[k].seen # None /\ closer'[k].seen = store[closer'[k].user][closer'[k].session]
  <2>1. CASE closer' = [closer EXCEPT ![c] = rest]
    <3> HIDE DEF rest
    <3> QED
      BY <1>1, <1>5, <2>1
  <2>2. CASE doc # None /\ closer' = [closer EXCEPT ![c] =
                      [rest EXCEPT !.pc = "extract", !.user = u, !.session = s, !.seen = doc]]
    <3> DEFINE new == [rest EXCEPT !.pc = "extract", !.user = u, !.session = s, !.seen = doc]
    <3>1. new.user = u /\ new.session = s /\ new.seen = doc
      BY DEF NoCloser
    <3>2. closer' = [closer EXCEPT ![c] = new]
      BY <2>2
    <3> HIDE DEF new
    <3> QED
      BY <1>1, <1>4, <2>2, <3>1, <3>2
  <2> QED
    BY <1>3, <2>1, <2>2
<1>8. CopiesLast
  BY <1>6, <1>7, CopiesLastIf
<1> QED
  BY <1>8, CopiesLastKeeps

\* The copy that was read is put back, ended.
LEMMA ExtractedKeepsHistories ==
  ASSUME HInv, AnswersStay, NEW c \in Closers, Extracted(c)
  PROVE  CopiesWhole' /\ OnePlace'
<1> DEFINE k == closer[c]
<1>1. /\ k.pc = "extract" /\ k.user \in Users /\ k.session \in Sessions /\ k.seen \in Session
      /\ closer \in [Closers -> CloserState] /\ store \in [Users -> [Sessions -> Session \cup {None}]]
  BY DEF Extracted, HInv, IInv, ClosersBound, TypeOK
<1>2. Copy(k.user, k.session, k.seen)
  BY <1>1 DEF Copy
<1>3. Ended(k.seen) \in Session /\ Ended(k.seen).msgs = k.seen.msgs
  BY <1>1, EndedHasMessages
<1>4. \A v \in Users, z \in Sessions : store'[v][z] # None =>
        \/ store'[v][z] = store[v][z]
        \/ store'[v][z] \in Session /\ \E d : Copy(v, z, d) /\ d.msgs = store'[v][z].msgs
  <2>1. CASE store' = [store EXCEPT ![k.user][k.session] = Ended(k.seen)]
    <3>1. \A v \in Users, z \in Sessions :
            store'[v][z] = IF v = k.user /\ z = k.session THEN Ended(k.seen) ELSE store[v][z]
      BY <1>1, <2>1
    <3> QED
      BY <1>2, <1>3, <3>1
  <2> QED
    BY <2>1 DEF Extracted
<1>5. \A j \in Closers : closer'[j].pc = "extract" => closer'[j] = closer[j]
  BY <1>1 DEF Extracted, NoCloser
<1>6. CopiesLast
  BY <1>4, <1>5, CopiesLastIf
<1> QED
  BY <1>6, CopiesLastKeeps

\* What a step of a turn does to the documents: nothing, or a mirror.
LEMMA TurnStepWrites ==
  ASSUME NEW t \in Turns, Continue(t) \/ Cancel(t)
  PROVE  UNCHANGED <<closer, memory>> /\ (UNCHANGED store \/ (Running(t) /\ Mirror(t)))
<1>1. CASE Answers(t)
  BY <1>1 DEF Answers, Running
<1>2. CASE Judged(t)
  BY <1>2 DEF Judged, Running
<1>3. CASE Prepared(t) \/ ModelFails(t) \/ Cancel(t)
  BY <1>3 DEF Prepared, ModelFails, Cancel
<1> QED
  BY <1>1, <1>2, <1>3 DEF Continue

LEMMA HistoriesInit == ASSUME TurnsAssumption, Init PROVE HInv
<1>1. IInv
  BY InvInit
<1>2. \A u \in Users, s \in Sessions : \A doc : ~Copy(u, s, doc)
  BY DEF Init, Copy, NoCloser
<1> QED
  BY <1>1, <1>2 DEF HInv, CopiesWhole, OnePlace, At

LEMMA HistoriesNext == ASSUME TurnsAssumption, HInv, [Next]_vars PROVE HInv'
<1>1. IInv' /\ AnswersStay
  BY InvNext, AnswersStayAnswered DEF HInv
<1>2. ASSUME UNCHANGED <<store, closer>> PROVE CopiesWhole' /\ OnePlace'
  BY <1>1, <1>2, NothingReadKeeps
<1>3. ASSUME NEW t \in Turns, NEW u \in Users, NEW s \in Sessions, StartTurn(t, u, s)
      PROVE  CopiesWhole' /\ OnePlace'
  BY <1>2, <1>3 DEF StartTurn
<1>4. ASSUME NEW t \in Turns, Continue(t) \/ Cancel(t)
      PROVE  CopiesWhole' /\ OnePlace'
  <2>1. UNCHANGED closer /\ (UNCHANGED store \/ (Running(t) /\ Mirror(t)))
    BY <1>4, TurnStepWrites
  <2> QED
    BY <1>2, <2>1, MirrorKeepsHistories
<1>5. ASSUME NEW c \in Closers, Sweep(c) \/ EndDone(c) \/ ExtractFails(c) \/ \E s \in Sessions : EndChat(c, s)
      PROVE  CopiesWhole' /\ OnePlace'
  <2>1. closer \in [Closers -> CloserState]
    BY DEF HInv, IInv, TypeOK
  <2>2. UNCHANGED store /\ \E k : k.pc # "extract" /\ closer' = [closer EXCEPT ![c] = k]
    <3>1. \A todo : /\ NoCloser.pc # "extract" /\ [NoCloser EXCEPT !.pc = "next", !.todo = todo].pc # "extract"
      BY DEF NoCloser
    <3>2. CASE Sweep(c)
      BY <3>1, <3>2, Zenon DEF Sweep
    <3>3. CASE EndDone(c)
      BY <3>1, <3>3 DEF EndDone
    <3>4. CASE ExtractFails(c)
      BY <3>1, <3>4, Zenon DEF ExtractFails
    <3>5. CASE \E s \in Sessions : EndChat(c, s)
      BY <3>1, <3>5, Zenon DEF EndChat
    <3> QED
      BY <1>5, <3>2, <3>3, <3>4, <3>5
  <2>3. \A j \in Closers : closer'[j].pc = "extract" => closer'[j] = closer[j]
    BY <2>1, <2>2
  <2> QED
    BY <1>1, <2>2, <2>3, NothingReadKeeps
<1>6. ASSUME NEW c \in Closers, EndNext(c) \/ Extracted(c)
      PROVE  CopiesWhole' /\ OnePlace'
  BY <1>1, <1>6, EndNextKeepsHistories, ExtractedKeepsHistories
<1>7. ASSUME Crash PROVE CopiesWhole' /\ OnePlace'
  <2>1. UNCHANGED store /\ \A c \in Closers : closer'[c].pc # "extract"
    BY <1>7, Zenon DEF Crash, NoCloser
  <2> QED
    BY <1>1, <2>1, NothingReadKeeps
<1>8. ASSUME UNCHANGED vars PROVE CopiesWhole' /\ OnePlace'
  BY <1>2, <1>8 DEF vars
<1> QED
  BY <1>1, <1>3, <1>4, <1>5, <1>6, <1>7, <1>8 DEF Next, Close, HInv

\* The invariant says what is wanted of the documents.
LEMMA HistoriesImply == ASSUME HInv PROVE HistoriesAreWhole
<1> SUFFICES ASSUME NEW u \in Users, NEW s \in Sessions, store[u][s] # None,
                    NEW i \in DOMAIN store[u][s].msgs
             PROVE  LET m == store[u][s].msgs[i]
                    IN /\ turn[m.turn].pc = "answered"
                       /\ m.role = "agent" => i > 1 /\ store[u][s].msgs[i - 1] = [m EXCEPT !.role = "user"]
                       /\ \A v \in Users, z \in Sessions : store[v][z] # None =>
                            \A j \in DOMAIN store[v][z].msgs :
                              store[v][z].msgs[j] = m => v = u /\ z = s /\ j = i
  BY DEF HistoriesAreWhole
<1> DEFINE m == store[u][s].msgs[i]
<1>1. Copy(u, s, store[u][s])
  BY DEF Copy
<1>2. Whole(store[u][s]) /\ At(u, s, i, m)
  BY <1>1 DEF HInv, CopiesWhole, At
<1>3. ASSUME NEW v \in Users, NEW z \in Sessions, store[v][z] # None,
             NEW j \in DOMAIN store[v][z].msgs, store[v][z].msgs[j] = m
      PROVE  v = u /\ z = s /\ j = i
  <2>1. At(v, z, j, m)
    BY <1>3 DEF Copy, At
  <2> QED
    BY <1>2, <2>1 DEF HInv, OnePlace
<1> QED
  BY <1>2, <1>3 DEF Whole

-----------------------------------------------------------------------------
(* What a step may do to a session.                                        *)

\* The document of u and s after a step: the one before, or what a mirror
\* writes, or the end of an empty one, or the copy that a close puts back.
LEMMA StepWrites ==
  ASSUME TurnsAssumption, HInv, [Next]_vars, NEW u \in Users, NEW s \in Sessions
  PROVE  \/ store'[u][s] = store[u][s]
         \/ \E t \in Turns : Running(t) /\ Mirror(t)
         \/ /\ store[u][s] \in Session /\ store[u][s].msgs = <<>>
            /\ store'[u][s] = Ended(store[u][s])
         \/ \E c \in Closers :
              /\ closer[c].pc = "extract" /\ closer[c].user = u /\ closer[c].session = s
              /\ store'[u][s] = Ended(closer[c].seen)
              /\ memory'[u] = memory[u] \cup TurnsIn(closer[c].seen)
<1>1. store \in [Users -> [Sessions -> Session \cup {None}]] /\ memory \in [Users -> SUBSET Turns]
  BY DEF HInv, IInv, TypeOK
<1>2. ASSUME NEW t \in Turns, Continue(t) \/ Cancel(t) PROVE UNCHANGED store \/ (Running(t) /\ Mirror(t))
  BY <1>2, TurnStepWrites
<1>3. ASSUME NEW c \in Closers, EndNext(c)
      PROVE  \/ store'[u][s] = store[u][s]
             \/ /\ store[u][s] \in Session /\ store[u][s].msgs = <<>>
                /\ store'[u][s] = Ended(store[u][s])
  <2>1. PICK v \in Users : v = CurrentUser
    BY <1>3 DEF HInv, IInv, ClosersBound, EndNext
  <2>2. \/ UNCHANGED store
        \/ \E z \in closer[c].todo : /\ store[v][z] # None /\ store[v][z].msgs = <<>>
                                     /\ store' = [store EXCEPT ![v][z] = Ended(store[v][z])]
    BY <1>3, <2>1, Zenon DEF EndNext
  <2>3. closer[c].todo \subseteq Sessions
    BY DEF HInv, IInv, TypeOK, CloserState
  <2>4. ASSUME NEW z \in Sessions, store[v][z] # None, store[v][z].msgs = <<>>,
               store' = [store EXCEPT ![v][z] = Ended(store[v][z])]
        PROVE  \/ store'[u][s] = store[u][s]
               \/ /\ store[u][s] \in Session /\ store[u][s].msgs = <<>>
                  /\ store'[u][s] = Ended(store[u][s])
    <3>1. store'[u][s] = IF u = v /\ s = z THEN Ended(store[v][z]) ELSE store[u][s]
      BY <1>1, <2>4
    <3> QED
      BY <1>1, <2>4, <3>1
  <2> QED
    BY <2>2, <2>3, <2>4
<1>4. ASSUME NEW c \in Closers, Extracted(c)
      PROVE  \/ store'[u][s] = store[u][s]
             \/ /\ closer[c].pc = "extract" /\ closer[c].user = u /\ closer[c].session = s
                /\ store'[u][s] = Ended(closer[c].seen)
                /\ memory'[u] = memory[u] \cup TurnsIn(closer[c].seen)
  <2> DEFINE k == closer[c]
  <2>1. k.pc = "extract" /\ k.user \in Users /\ k.session \in Sessions
    BY <1>4 DEF Extracted, HInv, IInv, ClosersBound
  <2>2. CASE store' = [store EXCEPT ![k.user][k.session] = Ended(k.seen)]
    <3>1. store'[u][s] = IF u = k.user /\ s = k.session THEN Ended(k.seen) ELSE store[u][s]
      BY <1>1, <2>1, <2>2
    <3>2. memory'[k.user] = memory[k.user] \cup TurnsIn(k.seen)
      BY <1>1, <1>4, <2>1 DEF Extracted
    <3> QED
      BY <2>1, <3>1, <3>2
  <2> QED
    BY <1>4, <2>2 DEF Extracted
<1>5. UNCHANGED store \/ (\E t \in Turns : Continue(t) \/ Cancel(t)) \/ \E c \in Closers : EndNext(c) \/ Extracted(c)
  <2>1. ASSUME NEW t \in Turns, NEW v \in Users, NEW z \in Sessions, StartTurn(t, v, z) PROVE UNCHANGED store
    BY <2>1 DEF StartTurn
  <2>2. ASSUME NEW c \in Closers, Sweep(c) \/ (\E z \in Sessions : EndChat(c, z)) \/ EndDone(c) \/ ExtractFails(c)
        PROVE  UNCHANGED store
    BY <2>2, Zenon DEF Sweep, EndChat, EndDone, ExtractFails
  <2>3. (Crash => UNCHANGED store) /\ (UNCHANGED vars => UNCHANGED store)
    BY Zenon DEF Crash, vars
  <2> QED
    BY <2>1, <2>2, <2>3, Zenon DEF Next, Close
<1> QED
  BY <1>2, <1>3, <1>4, <1>5

\* Appending keeps the messages.
LEMMA AppendKeepsPrefix ==
  ASSUME NEW q \in Seq(Message), NEW p \in Seq(Message), NEW m \in Message, IsPrefix(q, p)
  PROVE  Append(p, m) \in Seq(Message) /\ IsPrefix(q, Append(p, m))
<1>1. /\ Len(q) \in Nat /\ Len(p) \in Nat /\ Len(q) <= Len(p)
      /\ Append(p, m) \in Seq(Message) /\ Len(Append(p, m)) = Len(p) + 1
      /\ \A i \in 1 .. Len(p) : Append(p, m)[i] = p[i]
  BY DEF IsPrefix
<1> HIDE DEF Message
<1>2. SubSeq(Append(p, m), 1, Len(q)) = SubSeq(p, 1, Len(q))
  BY <1>1
<1> QED
  BY <1>1, <1>2 DEF IsPrefix

\* A mirror into a session that is there goes on with it.
LEMMA ExchangedGoesOn ==
  ASSUME NEW u, NEW s, NEW t \in Turns, store[u][s] \in Session, store'[u][s] # None,
         Exchanged(store'[u][s], store[u][s], t)
  PROVE  GoesOn(u, s)
<1> DEFINE q == store[u][s].msgs
<1>1. q \in Seq(Message) /\ Asked(t) \in Message /\ Answered(t) \in Message
  BY DEF Session, Asked, Answered, Message
<1>2. IsPrefix(q, q)
  BY <1>1 DEF IsPrefix
<1> HIDE DEF q
<1>3. IsPrefix(q, Append(q, Asked(t))) /\ Append(q, Asked(t)) \in Seq(Message)
  BY <1>1, <1>2, AppendKeepsPrefix
<1>4. IsPrefix(q, Append(Append(q, Asked(t)), Answered(t)))
  BY <1>1, <1>3, AppendKeepsPrefix
<1> QED
  BY <1>3, <1>4 DEF Exchanged, GoesOn, q

\* So does a close that ends the document that is stored.
LEMMA EndedGoesOn ==
  ASSUME NEW u, NEW s, store[u][s] \in Session, store'[u][s] = Ended(store[u][s]), None \notin Session
  PROVE  GoesOn(u, s)
<1>1. /\ store'[u][s] \in Session /\ store'[u][s].msgs = store[u][s].msgs /\ store'[u][s].status = "ended"
  BY EndedHasMessages
<1>2. store[u][s].msgs \in Seq(Message)
  BY DEF Session
<1> QED
  BY <1>1, <1>2 DEF GoesOn, IsPrefix

LEMMA HistoryStep == ASSUME TurnsAssumption, HInv, [Next]_vars PROVE LosesByRaces
<1> SUFFICES ASSUME NEW u \in Users, NEW s \in Sessions, store[u][s] # None
             PROVE  GoesOn(u, s) \/ RestoresOldCopy(u, s) \/ MirrorsAcross(u, s)
  BY DEF LosesByRaces
<1>1. store[u][s] \in Session /\ None \notin Session
  BY DEF HInv, IInv, TypeOK, TurnsAssumption
<1>2. CASE store'[u][s] = store[u][s]
  <2>1. store[u][s].msgs \in Seq(Message)
    BY <1>1 DEF Session
  <2> QED
    BY <1>2, <2>1 DEF GoesOn, IsPrefix
<1>3. ASSUME NEW t \in Turns, Running(t), Mirror(t)
      PROVE  GoesOn(u, s) \/ RestoresOldCopy(u, s) \/ MirrorsAcross(u, s)
  <2>1. turn[t].pc # "answered" /\ turn'[t].pc = "answered"
    BY <1>3 DEF Running, Mirror, Finish, HInv, IInv, TypeOK
  <2>2. CurrentUser \in UsersOf(t)
    BY <1>3, RunningHasUser DEF HInv
  <2>3. CASE u = turn[t].user /\ s = turn[t].session /\ store[CurrentUser][s] = None
    <3>1. UsersOf(t) # {u}
      BY <2>2, <2>3
    <3> QED
      BY <2>1, <2>3, <3>1 DEF MirrorsAcross
  <2>4. CASE u = CurrentUser /\ s = turn[t].session /\ Exchanged(store'[u][s], Base(t), t)
    <3>1. Base(t) = store[u][s]
      BY <2>4 DEF Base
    <3>2. Exchanged(store'[u][s], store[u][s], t)
      BY <2>4, <3>1
    <3>3. store'[u][s] # None
      BY <1>1, <3>2 DEF Exchanged
    <3> QED
      BY <1>1, <1>3, <3>2, <3>3, ExchangedGoesOn
  <2> QED
    BY <1>2, <1>3, <2>3, <2>4, MirrorWrites DEF HInv
<1>4. CASE store'[u][s] = Ended(store[u][s])
  BY <1>1, <1>4, EndedGoesOn
<1>5. ASSUME NEW c \in Closers, closer[c].pc = "extract", closer[c].user = u, closer[c].session = s,
             store'[u][s] = Ended(closer[c].seen)
      PROVE  GoesOn(u, s) \/ RestoresOldCopy(u, s)
  <2>1. CASE closer[c].seen = store[u][s]
    BY <1>1, <1>5, <2>1, EndedGoesOn
  <2>2. CASE closer[c].seen # store[u][s]
    BY <1>5, <2>2 DEF RestoresOldCopy
  <2> QED
    BY <2>1, <2>2
<1> QED
  BY <1>2, <1>3, <1>4, <1>5, StepWrites

LEMMA RememberedStep == ASSUME TurnsAssumption, HInv, [Next]_vars PROVE EndsRemembered
<1> SUFFICES ASSUME NEW u \in Users, NEW s \in Sessions, store[u][s] # None, store'[u][s] # None,
                    store[u][s].status = "active", store'[u][s].status = "ended"
             PROVE  TurnsIn(store'[u][s]) \subseteq memory'[u]
  BY DEF EndsRemembered
<1>1. ASSUME NEW t \in Turns, Running(t), Mirror(t)
      PROVE  FALSE
  <2>1. CASE store[CurrentUser][s] = None /\ store'[u][s] = NewSession
    BY <2>1 DEF NewSession
  <2>2. CASE u = CurrentUser /\ s = turn[t].session /\ Exchanged(store'[u][s], Base(t), t)
    <3>1. Base(t) = store[u][s]
      BY <2>2 DEF Base
    <3>2. store'[u][s].status = Base(t).status
      BY <2>2 DEF Exchanged
    <3> QED
      BY <3>1, <3>2
  <2> QED
    BY <1>1, <2>1, <2>2, MirrorWrites DEF HInv
<1>2. CASE store[u][s] \in Session /\ store[u][s].msgs = <<>> /\ store'[u][s] = Ended(store[u][s])
  <2>1. store'[u][s].msgs = <<>> /\ Len(<<>>) = 0
    BY <1>2, EndedHasMessages
  <2> QED
    BY <2>1 DEF TurnsIn
<1>3. ASSUME NEW c \in Closers, closer[c].pc = "extract", closer[c].user = u, closer[c].session = s,
             store'[u][s] = Ended(closer[c].seen), memory'[u] = memory[u] \cup TurnsIn(closer[c].seen)
      PROVE  TurnsIn(store'[u][s]) \subseteq memory'[u]
  <2>1. closer[c].seen \in Session
    BY <1>3 DEF HInv, IInv, ClosersBound
  <2> QED
    BY <1>3, <2>1, EndedKeeps
<1> QED
  BY <1>1, <1>2, <1>3, StepWrites

\* A turn is recorded once, as a whole and once it has answered (Mirror); and
\* its record goes away only when a close puts an older copy back or a mirror
\* crosses into another user's session (end_session, create_with_id).
THEOREM HistoriesAreKept == Spec => HistoriesStayWhole
<1>1. Init => HInv
  BY TurnsAssumption, HistoriesInit
<1>2. HInv /\ [Next]_vars => HInv'
  BY TurnsAssumption, HistoriesNext
<1>3. HInv => HistoriesAreWhole
  BY HistoriesImply
<1>4. HInv /\ [Next]_vars => [LosesByRaces]_vars
  BY TurnsAssumption, HistoryStep
<1> QED
  BY <1>1, <1>2, <1>3, <1>4, PTL DEF Spec, HistoriesStayWhole, OnlyRacesLoseHistory

\* What a close stores as ended has been extracted into the memories of the
\* user under whom it is stored (end_session).
THEOREM EndedSessionsAreRemembered == Spec => EndedIsRemembered
<1>1. Init => HInv
  BY TurnsAssumption, HistoriesInit
<1>2. HInv /\ [Next]_vars => HInv'
  BY TurnsAssumption, HistoriesNext
<1>3. HInv /\ [Next]_vars => [EndsRemembered]_vars
  BY TurnsAssumption, RememberedStep
<1> QED
  BY <1>1, <1>2, <1>3, PTL DEF Spec, EndedIsRemembered

-----------------------------------------------------------------------------
(* The BigQuery writer.                                                    *)

WriterTypes ==
  /\ buffer \subseteq Rows /\ lateRows \subseteq Rows /\ fresh \subseteq Rows
  /\ batches \in [Flushers -> SUBSET Batch]
  /\ flusher \in [loop : {"none", "sleep", "flush", "stopped"}, asked : Nat, stop : {"none", "flush", "done"}]

\* Every flush that was asked for, by the enqueue of a row of its own.
AskedByRows == flusher.asked + Cardinality(fresh) <= Cardinality(Rows)

FreshAreNowhere ==
  \A r \in fresh : r \notin buffer /\ \A w \in Flushers : \A b \in batches[w] : r \notin b.rows

\* No row is in two batches, or in a batch and in the buffer.
BatchesAreApart ==
  \A w \in Flushers : \A b \in batches[w] :
    /\ b.rows # {} /\ b.rows \cap buffer = {}
    /\ \A v \in Flushers : \A c \in batches[v] : b.rows \cap c.rows # {} => v = w /\ b = c

RowsAreKept ==
  \A r \in Rows \ fresh : r \in buffer \/ \E w \in Flushers : \E b \in batches[w] : r \in b.rows

\* From the last flush on, the buffer has late rows only, and a flush that a late
\* row asked for if they fill it.
LateRowsOnly ==
  /\ flusher.stop = "flush" => flusher.loop # "none"
  /\ flusher.loop = "stopped" => flusher.stop # "none"
  /\ flusher.stop # "none" /\ flusher.loop # "none" =>
       buffer \subseteq lateRows /\ (Full(buffer) => flusher.asked > 0)

WriterInv ==
  WriterTypes /\ AskedByRows /\ FreshAreNowhere /\ BatchesAreApart /\ RowsAreKept /\ LateRowsOnly

LEMMA WriterStarts == WriterInit => WriterInv
<1> SUFFICES ASSUME WriterInit PROVE WriterInv
  OBVIOUS
<1>1. WriterTypes /\ FreshAreNowhere /\ BatchesAreApart /\ RowsAreKept /\ LateRowsOnly
  BY DEF WriterInit, WriterTypes, FreshAreNowhere, BatchesAreApart, RowsAreKept, LateRowsOnly
<1>2. AskedByRows
  BY BatchWriterAssumption, FS_CardinalityType DEF WriterInit, AskedByRows
<1>3. QED
  BY <1>1, <1>2 DEF WriterInv

\* An empty buffer is not full.
LEMMA EmptyIsNotFull == ~Full({})
BY BatchWriterAssumption, FS_EmptySet DEF Full

\* A row that is enqueued leaves what is to come; a flush is asked for if the
\* buffer is full.
LEMMA EnqueueKeeps == ASSUME WriterInv, NEW r \in Rows, Enqueue(r) PROVE WriterInv'
<1>1. /\ r \in fresh /\ buffer' = buffer \cup {r} /\ fresh' = fresh \ {r} /\ batches' = batches
      /\ lateRows' \in {lateRows, lateRows \cup {r}} /\ (flusher.stop # "none" => lateRows' = lateRows \cup {r})
  BY DEF Enqueue
<1>2. /\ flusher' \in {flusher, [flusher EXCEPT !.asked = @ + 1]}
      /\ (Full(buffer') /\ flusher.loop # "none" => flusher' = [flusher EXCEPT !.asked = @ + 1])
  BY DEF Enqueue
<1>3. flusher'.loop = flusher.loop /\ flusher'.stop = flusher.stop /\ flusher'.asked \in {flusher.asked, flusher.asked + 1}
      /\ (Full(buffer') /\ flusher.loop # "none" => flusher'.asked = flusher.asked + 1)
  BY <1>2 DEF WriterInv, WriterTypes
<1>4. WriterTypes'
  BY <1>1, <1>2 DEF WriterInv, WriterTypes
<1>5. AskedByRows'
  <2>1. IsFiniteSet(fresh)
    BY BatchWriterAssumption, FS_Subset DEF WriterInv, WriterTypes
  <2>2. Cardinality(fresh') = Cardinality(fresh) - 1 /\ Cardinality(fresh) \in Nat /\ Cardinality(Rows) \in Nat
    BY <1>1, <2>1, BatchWriterAssumption, FS_RemoveElement, FS_CardinalityType
  <2>3. QED
    BY <1>3, <2>2 DEF WriterInv, WriterTypes, AskedByRows
<1>6. FreshAreNowhere' /\ BatchesAreApart' /\ RowsAreKept'
  BY <1>1 DEF WriterInv, FreshAreNowhere, BatchesAreApart, RowsAreKept
<1>7. LateRowsOnly'
  BY <1>1, <1>3 DEF WriterInv, WriterTypes, LateRowsOnly
<1>8. QED
  BY <1>4, <1>5, <1>6, <1>7 DEF WriterInv

\* A batch takes all that the buffer has.
LEMMA TakeKeeps ==
  ASSUME WriterInv, NEW w \in Flushers, TakeBatch(w), UNCHANGED fresh
  PROVE  /\ batches' \in [Flushers -> SUBSET Batch] /\ buffer' = {}
         /\ FreshAreNowhere' /\ BatchesAreApart' /\ RowsAreKept'
<1> DEFINE n == [rows |-> buffer, state |-> "waited", told |-> FALSE]
<1>1. buffer' = {} /\ n \in Batch /\ n.rows = buffer
  BY DEF TakeBatch, WriterInv, WriterTypes, Batch
<1>2. batches' = IF buffer = {} THEN batches ELSE [batches EXCEPT ![w] = @ \cup {n}]
  BY DEF TakeBatch
<1> HIDE DEF n
<1>3. batches \in [Flushers -> SUBSET Batch]
  BY DEF WriterInv, WriterTypes
<1>4. CASE buffer = {}
  BY <1>1, <1>2, <1>3, <1>4 DEF WriterInv, FreshAreNowhere, BatchesAreApart, RowsAreKept
<1>5. CASE buffer # {}
  <2>1. \A v \in Flushers : batches'[v] = IF v = w THEN batches[w] \cup {n} ELSE batches[v]
    BY <1>2, <1>3, <1>5
  <2>2. batches' \in [Flushers -> SUBSET Batch]
    BY <1>1, <1>2, <1>3, <1>5
  <2>3. FreshAreNowhere' /\ RowsAreKept'
    BY <1>1, <2>1 DEF WriterInv, FreshAreNowhere, RowsAreKept
  <2>4. BatchesAreApart'
    BY <1>1, <1>5, <2>1 DEF WriterInv, BatchesAreApart
  <2>5. QED
    BY <1>1, <2>2, <2>3, <2>4
<1>6. QED
  BY <1>4, <1>5

\* The state of batches changes, their rows do not.
Relabelled ==
  /\ UNCHANGED <<buffer, fresh>> /\ batches' \in [Flushers -> SUBSET Batch]
  /\ \A w \in Flushers :
       /\ \A c \in batches'[w] : \E b \in batches[w] : c.rows = b.rows
       /\ \A b \in batches[w] : \E c \in batches'[w] : c.rows = b.rows
       /\ \A c, d \in batches'[w] : c.rows = d.rows => c = d

LEMMA RelabelledKeeps ==
  ASSUME WriterInv, Relabelled PROVE FreshAreNowhere' /\ BatchesAreApart' /\ RowsAreKept'
<1>1. FreshAreNowhere' /\ RowsAreKept'
  BY DEF Relabelled, WriterInv, FreshAreNowhere, RowsAreKept
<1>2. ASSUME NEW w \in Flushers, NEW c \in batches'[w]
      PROVE  /\ c.rows # {} /\ c.rows \cap buffer' = {}
             /\ \A v \in Flushers : \A d \in batches'[v] : c.rows \cap d.rows # {} => v = w /\ c = d
  <2>1. PICK b \in batches[w] : c.rows = b.rows
    BY <1>2 DEF Relabelled
  <2>2. ASSUME NEW v \in Flushers, NEW d \in batches'[v], c.rows \cap d.rows # {} PROVE v = w /\ c = d
    <3>1. PICK e \in batches[v] : d.rows = e.rows
      BY <2>2 DEF Relabelled
    <3>2. v = w /\ b = e
      BY <2>1, <2>2, <3>1 DEF WriterInv, BatchesAreApart
    <3>3. QED
      BY <2>1, <3>1, <3>2 DEF Relabelled
  <2>3. QED
    BY <2>1, <2>2 DEF Relabelled, WriterInv, BatchesAreApart
<1>3. QED
  BY <1>1, <1>2 DEF BatchesAreApart

\* The loop's and the asked flushes, and the start.
LEMMA FlushKeeps ==
  ASSUME WriterInv, Start \/ PeriodicFlush \/ LoopTurns \/ AskedFlush \/ Shutdown PROVE WriterInv'
<1>1. flusher \in [loop : {"none", "sleep", "flush", "stopped"}, asked : Nat, stop : {"none", "flush", "done"}]
  BY DEF WriterInv, WriterTypes
<1>2. UNCHANGED <<lateRows, fresh>>
  BY DEF Start, PeriodicFlush, LoopTurns, AskedFlush, Shutdown
<1>3. UNCHANGED <<buffer, batches>> \/ \E w \in Flushers : TakeBatch(w)
  BY DEF Start, PeriodicFlush, LoopTurns, AskedFlush, Shutdown, Flushers
<1>4. /\ batches' \in [Flushers -> SUBSET Batch] /\ buffer' \subseteq Rows
      /\ FreshAreNowhere' /\ BatchesAreApart' /\ RowsAreKept'
      /\ buffer' \in {buffer, {}}
  <2>1. CASE UNCHANGED <<buffer, batches>>
    BY <1>2, <2>1 DEF WriterInv, WriterTypes, FreshAreNowhere, BatchesAreApart, RowsAreKept
  <2>2. CASE \E w \in Flushers : TakeBatch(w)
    BY <1>2, <2>2, TakeKeeps DEF WriterInv, WriterTypes
  <2>3. QED
    BY <1>3, <2>1, <2>2
<1>5. /\ flusher' \in [loop : {"none", "sleep", "flush", "stopped"}, asked : Nat, stop : {"none", "flush", "done"}]
      /\ flusher'.asked <= flusher.asked
  BY <1>1 DEF Start, PeriodicFlush, LoopTurns, AskedFlush, Shutdown
<1>6. WriterTypes'
  BY <1>2, <1>4, <1>5 DEF WriterInv, WriterTypes
<1>7. AskedByRows'
  <2>1. Cardinality(fresh) \in Nat /\ Cardinality(Rows) \in Nat
    BY BatchWriterAssumption, FS_Subset, FS_CardinalityType DEF WriterInv, WriterTypes
  <2>2. QED
    BY <1>1, <1>2, <1>5, <2>1 DEF WriterInv, AskedByRows
<1>8. LateRowsOnly'
  <2>1. CASE Start
    BY <1>1, <2>1 DEF Start, LateRowsOnly
  <2>2. CASE PeriodicFlush
    BY <1>1, <2>2, EmptyIsNotFull DEF PeriodicFlush, TakeBatch, WriterInv, LateRowsOnly
  <2>3. CASE LoopTurns
    BY <1>1, <2>3 DEF LoopTurns, WriterInv, LateRowsOnly
  <2>4. CASE AskedFlush
    BY <1>1, <2>4, EmptyIsNotFull DEF AskedFlush, TakeBatch, WriterInv, LateRowsOnly
  <2>5. CASE Shutdown
    BY <1>1, <2>5, EmptyIsNotFull DEF Shutdown, TakeBatch, WriterInv, LateRowsOnly
  <2>6. QED
    BY <2>1, <2>2, <2>3, <2>4, <2>5
<1>9. QED
  BY <1>4, <1>6, <1>7, <1>8 DEF WriterInv

\* A write that ends, or that nobody waits for any more, relabels its batch.
LEMMA BatchKeeps ==
  ASSUME WriterInv, NEW w \in Flushers, NEW b \in batches[w], WriteBatch(w, b) \/ FlushTimesOut(w, b)
  PROVE  WriterInv'
<1>1. PICK s \in {"written", "failed", "left"}, t \in BOOLEAN : BatchEnds(w, b, s, t)
  <2>1. b.told \in BOOLEAN
    BY DEF WriterInv, WriterTypes, Batch
  <2>2. QED
    BY <2>1 DEF WriteBatch, FlushTimesOut
<1> DEFINE n == [b EXCEPT !.state = s, !.told = t]
<1>2. b \in Batch /\ batches \in [Flushers -> SUBSET Batch]
  BY DEF WriterInv, WriterTypes
<1>3. n \in Batch /\ n.rows = b.rows
  BY <1>2 DEF Batch
<1>4. batches' = [batches EXCEPT ![w] = (batches[w] \ {b}) \cup {n}] /\ UNCHANGED <<buffer, flusher, lateRows, fresh>>
  BY <1>1 DEF BatchEnds
<1> HIDE DEF n
<1>5. \A v \in Flushers : batches'[v] = IF v = w THEN (batches[w] \ {b}) \cup {n} ELSE batches[v]
  BY <1>2, <1>4
<1>6. \A v \in Flushers : \A c, d \in batches[v] : c.rows = d.rows => c = d
  BY DEF WriterInv, BatchesAreApart
<1>7. Relabelled
  <2>1. batches' \in [Flushers -> SUBSET Batch]
    BY <1>2, <1>3, <1>4
  <2>2. ASSUME NEW v \in Flushers
        PROVE  /\ \A c \in batches'[v] : \E d \in batches[v] : c.rows = d.rows
               /\ \A d \in batches[v] : \E c \in batches'[v] : c.rows = d.rows
               /\ \A c, d \in batches'[v] : c.rows = d.rows => c = d
    BY <1>3, <1>5, <1>6
  <2>3. QED
    BY <1>4, <2>1, <2>2 DEF Relabelled
<1>8. WriterTypes' /\ AskedByRows' /\ LateRowsOnly'
  BY <1>4, <1>7 DEF Relabelled, WriterInv, WriterTypes, AskedByRows, LateRowsOnly
<1>9. QED
  BY <1>7, <1>8, RelabelledKeeps DEF WriterInv

\* The loop's task is cancelled: what it waits for goes on in its thread.
LEMMA StoppedKeeps == ASSUME WriterInv, Stopped PROVE WriterInv'
<1> DEFINE g(b) == IF b.state = "waited" THEN [b EXCEPT !.state = "left"] ELSE b
<1>1. batches \in [Flushers -> SUBSET Batch] /\ "loop" \in Flushers
  BY DEF WriterInv, WriterTypes, Flushers
<1>2. \A b \in Batch : g(b) \in Batch /\ g(b).rows = b.rows
  BY DEF Batch
<1>3. /\ batches' = [batches EXCEPT !["loop"] = {g(b) : b \in batches["loop"]}]
      /\ UNCHANGED <<buffer, lateRows, fresh>>
      /\ flusher' = [flusher EXCEPT !.stop = "done", !.loop = "stopped"] /\ flusher.stop = "flush"
  BY DEF Stopped
<1> HIDE DEF g
<1>4. \A v \in Flushers : batches'[v] = IF v = "loop" THEN {g(b) : b \in batches["loop"]} ELSE batches[v]
  BY <1>1, <1>3
<1>5. \A v \in Flushers : \A c, d \in batches[v] : c.rows = d.rows => c = d
  BY DEF WriterInv, BatchesAreApart
<1>6. Relabelled
  <2>1. batches' \in [Flushers -> SUBSET Batch]
    BY <1>1, <1>2, <1>3
  <2>2. ASSUME NEW v \in Flushers
        PROVE  /\ \A c \in batches'[v] : \E d \in batches[v] : c.rows = d.rows
               /\ \A d \in batches[v] : \E c \in batches'[v] : c.rows = d.rows
               /\ \A c, d \in batches'[v] : c.rows = d.rows => c = d
    <3>1. CASE v = "loop"
      <4>1. batches[v] \subseteq Batch /\ batches'[v] = {g(b) : b \in batches[v]}
        BY <1>1, <1>4, <3>1
      <4>2. \A b \in batches[v] : g(b).rows = b.rows
        BY <1>2, <4>1
      <4>3. ASSUME NEW c \in batches'[v], NEW d \in batches'[v], c.rows = d.rows PROVE c = d
        <5>1. PICK b \in batches[v], e \in batches[v] : c = g(b) /\ d = g(e)
          BY <4>1
        <5>2. b = e
          BY <1>5, <4>2, <4>3, <5>1
        <5>3. QED
          BY <5>1, <5>2
      <4>4. QED
        BY <4>1, <4>2, <4>3
    <3>2. CASE v # "loop"
      BY <1>4, <1>5, <3>2
    <3>3. QED
      BY <3>1, <3>2
  <2>3. QED
    BY <1>3, <2>1, <2>2 DEF Relabelled
<1>7. WriterTypes' /\ AskedByRows' /\ LateRowsOnly'
  BY <1>3, <1>6 DEF Relabelled, WriterInv, WriterTypes, AskedByRows, LateRowsOnly
<1>8. QED
  BY <1>6, <1>7, RelabelledKeeps DEF WriterInv

LEMMA WriterGoesOn == WriterInv /\ [WriterNext]_writerVars => WriterInv'
<1> SUFFICES ASSUME WriterInv, [WriterNext]_writerVars PROVE WriterInv'
  OBVIOUS
<1>1. CASE \E r \in Rows : Enqueue(r)
  BY <1>1, EnqueueKeeps
<1>2. CASE Start \/ PeriodicFlush \/ LoopTurns \/ AskedFlush \/ Shutdown
  BY <1>2, FlushKeeps
<1>3. CASE BatchStep
  BY <1>3, BatchKeeps DEF BatchStep
<1>4. CASE Stopped
  BY <1>4, StoppedKeeps
<1>5. CASE UNCHANGED writerVars
  BY <1>5 DEF writerVars, WriterInv, WriterTypes, AskedByRows, FreshAreNowhere, BatchesAreApart, RowsAreKept,
              LateRowsOnly
<1>6. QED
  BY <1>1, <1>2, <1>3, <1>4, <1>5 DEF WriterNext

\* A row that is not fresh has exactly one holder.
LEMMA RowsInOnePlace == WriterInv => RowsHaveOnePlace
<1> SUFFICES ASSUME WriterInv, NEW r \in Rows \ fresh
             PROVE  LET holders == {w \in Flushers \X UNION {batches[v] : v \in Flushers} :
                                      w[2] \in batches[w[1]] /\ r \in w[2].rows}
                    IN Cardinality(holders) + Cardinality(buffer \cap {r}) = 1
  BY DEF RowsHaveOnePlace
<1> DEFINE holders == {w \in Flushers \X UNION {batches[v] : v \in Flushers} :
                         w[2] \in batches[w[1]] /\ r \in w[2].rows}
<1>1. CASE r \in buffer
  <2>1. holders = {}
    BY <1>1 DEF WriterInv, BatchesAreApart
  <2>2. buffer \cap {r} = {r}
    BY <1>1
  <2>3. Cardinality(holders) = 0 /\ Cardinality(buffer \cap {r}) = 1
    BY <2>1, <2>2, FS_EmptySet, FS_Singleton
  <2>4. QED
    BY <2>3
<1>2. CASE r \notin buffer
  <2>0. PICK w \in Flushers : \E b \in batches[w] : r \in b.rows
    BY <1>2 DEF WriterInv, RowsAreKept
  <2>1. PICK b \in batches[w] : r \in b.rows
    BY <2>0
  <2>2. \A v \in Flushers : \A c \in batches[v] : r \in c.rows => v = w /\ c = b
    BY <2>1 DEF WriterInv, BatchesAreApart
  <2>3. holders = {<<w, b>>}
    BY <2>1, <2>2
  <2>4. buffer \cap {r} = {}
    BY <1>2
  <2>5. Cardinality(holders) = 1 /\ Cardinality(buffer \cap {r}) = 0
    BY <2>3, <2>4, FS_EmptySet, FS_Singleton
  <2>6. QED
    BY <2>5
<1>3. QED
  BY <1>1, <1>2

\* What the parts of the invariant say of the buffer, the shutdown and the types.
LEMMA WriterImplies == WriterInv => WriterTypeOK /\ ShutdownDrains /\ FullBufferIsFlushed
<1> SUFFICES ASSUME WriterInv PROVE WriterTypeOK /\ ShutdownDrains /\ FullBufferIsFlushed
  OBVIOUS
<1>1. Cardinality(fresh) \in Nat /\ Cardinality(Rows) \in Nat
  BY BatchWriterAssumption, FS_Subset, FS_CardinalityType DEF WriterInv, WriterTypes
<1>2. flusher.asked \in 0 .. Cardinality(Rows)
  BY <1>1 DEF WriterInv, WriterTypes, AskedByRows
<1>3. WriterTypeOK
  BY <1>2 DEF WriterInv, WriterTypes, WriterTypeOK
<1>4. ShutdownDrains /\ FullBufferIsFlushed
  BY DEF WriterInv, WriterTypes, LateRowsOnly, ShutdownDrains, FullBufferIsFlushed, Full
<1>5. QED
  BY <1>3, <1>4

\* BigQueryAnalyticsWriter: whatever flushes, timeouts, failures and the shutdown
\* overlap, each row that was enqueued waits in the buffer or is in one batch;
\* what a shutdown leaves behind came after it began; and a full buffer has a
\* flush coming, late rows included.
THEOREM RowsAreNeverLost == WriterSpec => []RowsAreAccountedFor
<1>1. WriterInv => RowsAreAccountedFor
  BY RowsInOnePlace, WriterImplies DEF RowsAreAccountedFor
<1>2. QED
  BY <1>1, WriterStarts, WriterGoesOn, PTL DEF WriterSpec

-----------------------------------------------------------------------------
(* The prompt log.                                                         *)

States == {"start", "wait", "make", "upload", "none", "queued", "refused", "done", "failed"}

UploadTypes ==
  /\ span \in [Spans -> {"running", "prompt", "response", "over"}]
  /\ blob \in [G!Blobs -> [pc : States, payload : {"redacted", "none"}]]
  /\ client \in G!Blobs \cup {Nil} /\ lock \in G!Blobs \cup {Nil} /\ open \in BOOLEAN

\* A span's payloads are redacted before it submits any, and none is before it ends.
RedactedFirst ==
  \A s \in Spans, k \in {"prompt", "response"} :
    /\ span[s] \in {"prompt", "response"} => blob[<<s, k>>].payload = "redacted"
    /\ span[s] \in {"running", "prompt", k} => blob[<<s, k>>].pc = "none"

\* The queue holds what is queued, once.
QueueIsOfQueued ==
  /\ queue \in Seq(G!Blobs)
  /\ \A i \in 1 .. Len(queue) : blob[queue[i]].pc = "queued"
  /\ \A i, j \in 1 .. Len(queue) : queue[i] = queue[j] => i = j
  /\ \A b \in G!Blobs : blob[b].pc = "queued" => \E i \in 1 .. Len(queue) : b = queue[i]

\* Who makes the client has the lock, and there is none yet.
MakerHasLock ==
  /\ \A b \in G!Blobs : blob[b].pc = "make" => lock = b /\ client = Nil
  /\ lock # Nil => blob[lock].pc = "make"

PromptInv ==
  /\ UploadTypes /\ RedactedFirst /\ QueueIsOfQueued /\ MakerHasLock /\ G!OnlyRedactedLeaves
  /\ Cardinality(G!Working) <= MaxWorkers

\* An instance has the operators of FiniteSets under names of its own.
LEMMA SameFiniteness ==
  ASSUME NEW Q PROVE (G!IsFiniteSet(Q) <=> IsFiniteSet(Q)) /\ G!Cardinality(Q) = Cardinality(Q)
BY DEF G!IsFiniteSet, IsFiniteSet, G!Cardinality, Cardinality

LEMMA BlobsAreFinite ==
  ASSUME G!PromptLogAssumption PROVE IsFiniteSet(G!Blobs) /\ \A Q : Q \subseteq G!Blobs => IsFiniteSet(Q)
<1>1. IsFiniteSet({"prompt", "response"})
  <2>1. IsFiniteSet({"prompt"})
    BY FS_Singleton
  <2>2. IsFiniteSet({"prompt"} \cup {"response"})
    BY <2>1, FS_AddElement
  <2>3. {"prompt", "response"} = {"prompt"} \cup {"response"}
    OBVIOUS
  <2>4. QED
    BY <2>2, <2>3
<1>2. IsFiniteSet(G!Blobs)
  <2>1. IsFiniteSet(Spans)
    BY SameFiniteness DEF G!PromptLogAssumption
  <2>2. QED
    BY <1>1, <2>1, FS_Product DEF G!Blobs
<1>3. QED
  BY <1>2, FS_Subset

LEMMA LogStarts == ASSUME G!PromptLogAssumption, G!PromptInit PROVE PromptInv
<1>1. G!Working = {}
  BY DEF G!PromptInit, G!Working, G!AtWork
<1>2. Cardinality(G!Working) <= MaxWorkers
  BY <1>1, FS_EmptySet DEF G!PromptLogAssumption
<1>3. UploadTypes /\ RedactedFirst /\ MakerHasLock /\ G!OnlyRedactedLeaves
  BY DEF G!PromptInit, UploadTypes, States, RedactedFirst, MakerHasLock, G!OnlyRedactedLeaves, G!Blobs
<1>4. QueueIsOfQueued
  BY DEF G!PromptInit, QueueIsOfQueued
<1>5. QED
  BY <1>2, <1>3, <1>4 DEF PromptInv

\* A span ends: its payloads are redacted, or it has none to submit.
LEMMA EndSpanKeeps ==
  ASSUME PromptInv, NEW s \in Spans, G!EndSpan(s) PROVE PromptInv'
<1>1. PICK payload \in {"redacted", "none"} :
        /\ span' = [span EXCEPT ![s] = IF payload = "none" THEN "over" ELSE "prompt"]
        /\ blob' = [b \in G!Blobs |-> IF b[1] = s THEN [blob[b] EXCEPT !.payload = payload] ELSE blob[b]]
  BY DEF G!EndSpan
<1>2. span[s] = "running" /\ UNCHANGED <<queue, client, lock, open>>
  BY DEF G!EndSpan
<1>3. span \in [Spans -> {"running", "prompt", "response", "over"}]
      /\ blob \in [G!Blobs -> [pc : States, payload : {"redacted", "none"}]]
  BY DEF PromptInv, UploadTypes
<1>4. \A b \in G!Blobs : blob'[b] = IF b[1] = s THEN [blob[b] EXCEPT !.payload = payload] ELSE blob[b]
  BY <1>1
<1>5. \A b \in G!Blobs : blob'[b].pc = blob[b].pc /\ (b[1] = s => blob'[b].payload = payload) /\ (b[1] # s => blob'[b] = blob[b])
  BY <1>3, <1>4
<1>6. \A r \in Spans, k \in {"prompt", "response"} : <<r, k>> \in G!Blobs /\ <<r, k>>[1] = r
  BY DEF G!Blobs
<1>7. UploadTypes'
  <2>1. blob' \in [G!Blobs -> [pc : States, payload : {"redacted", "none"}]]
    BY <1>1, <1>3
  <2>2. QED
    BY <1>1, <1>2, <1>3, <2>1 DEF PromptInv, UploadTypes
<1>8. RedactedFirst'
  <2>1. ASSUME NEW r \in Spans, NEW k \in {"prompt", "response"}
        PROVE  /\ span'[r] \in {"prompt", "response"} => blob'[<<r, k>>].payload = "redacted"
               /\ span'[r] \in {"running", "prompt", k} => blob'[<<r, k>>].pc = "none"
    <3>1. blob'[<<r, k>>].pc = blob[<<r, k>>].pc
          /\ (r = s => blob'[<<r, k>>].payload = payload) /\ (r # s => blob'[<<r, k>>] = blob[<<r, k>>])
      BY <1>5, <1>6
    <3>2. /\ span[r] \in {"prompt", "response"} => blob[<<r, k>>].payload = "redacted"
          /\ span[r] \in {"running", "prompt", k} => blob[<<r, k>>].pc = "none"
      BY DEF PromptInv, RedactedFirst
    <3>3. CASE r = s
      BY <1>1, <1>2, <1>3, <3>1, <3>2, <3>3
    <3>4. CASE r # s
      BY <1>1, <1>3, <3>1, <3>2, <3>4
    <3>5. QED
      BY <3>3, <3>4
  <2>2. QED
    BY <2>1 DEF RedactedFirst
<1>9. G!OnlyRedactedLeaves'
  <2>1. ASSUME NEW b \in G!Blobs, b[1] = s PROVE blob[b].pc = "none"
    <3>1. PICK k \in {"prompt", "response"} : b = <<s, k>>
      BY <2>1 DEF G!Blobs
    <3>2. QED
      BY <1>2, <3>1 DEF PromptInv, RedactedFirst
  <2>2. QED
    BY <1>5, <2>1 DEF PromptInv, G!OnlyRedactedLeaves
<1>10. QueueIsOfQueued'
  <2>1. \A i \in 1 .. Len(queue) : queue[i] \in G!Blobs
    BY DEF PromptInv, QueueIsOfQueued
  <2>2. QED
    BY <1>2, <1>5, <2>1 DEF PromptInv, QueueIsOfQueued
<1>11. MakerHasLock'
  BY <1>2, <1>5 DEF PromptInv, MakerHasLock, UploadTypes
<1>12. G!Working' = G!Working
  BY <1>5 DEF G!Working
<1>13. QED
  BY <1>7, <1>8, <1>9, <1>10, <1>11, <1>12 DEF PromptInv

\* A payload is handed to the pool, which takes it or not.
LEMMA SubmitKeeps ==
  ASSUME PromptInv, NEW s \in Spans, G!Submit(s) PROVE PromptInv'
<1> DEFINE b == <<s, span[s]>>
           p == IF open THEN "queued" ELSE "refused"
<1>1. /\ span[s] \in {"prompt", "response"}
      /\ span' = [span EXCEPT ![s] = IF @ = "prompt" THEN "response" ELSE "over"]
      /\ blob' = [blob EXCEPT ![b].pc = p]
      /\ queue' = IF open THEN Append(queue, b) ELSE queue
      /\ UNCHANGED <<client, lock, open>>
  BY DEF G!Submit
<1>2. span \in [Spans -> {"running", "prompt", "response", "over"}]
      /\ blob \in [G!Blobs -> [pc : States, payload : {"redacted", "none"}]]
  BY DEF PromptInv, UploadTypes
<1>3. b \in G!Blobs /\ blob[b].pc = "none" /\ blob[b].payload = "redacted"
  BY <1>1 DEF G!Blobs, PromptInv, RedactedFirst
<1>4. p \in {"queued", "refused"} /\ p \in States
  BY DEF States
<1>5. /\ blob'[b].pc = p /\ blob'[b].payload = "redacted"
      /\ \A c \in G!Blobs : c # b => blob'[c] = blob[c]
      /\ blob' \in [G!Blobs -> [pc : States, payload : {"redacted", "none"}]]
  BY <1>1, <1>2, <1>3, <1>4
<1>6. \A r \in Spans, k \in {"prompt", "response"} : <<r, k>> \in G!Blobs /\ (<<r, k>> = b <=> r = s /\ k = span[s])
  BY <1>1 DEF G!Blobs
<1> HIDE DEF b, p
<1>7. UploadTypes'
  BY <1>1, <1>2, <1>5 DEF PromptInv, UploadTypes
<1>8. RedactedFirst'
  <2>1. ASSUME NEW r \in Spans, NEW k \in {"prompt", "response"}
        PROVE  /\ span'[r] \in {"prompt", "response"} => blob'[<<r, k>>].payload = "redacted"
               /\ span'[r] \in {"running", "prompt", k} => blob'[<<r, k>>].pc = "none"
    <3>1. <<r, k>> \in G!Blobs /\ (<<r, k>> = b <=> r = s /\ k = span[s])
      BY <1>6
    <3>2. /\ span[r] \in {"prompt", "response"} => blob[<<r, k>>].payload = "redacted"
          /\ span[r] \in {"running", "prompt", k} => blob[<<r, k>>].pc = "none"
      BY DEF PromptInv, RedactedFirst
    <3>3. CASE <<r, k>> = b
      BY <1>1, <1>2, <1>5, <3>1, <3>3
    <3>4. CASE <<r, k>> # b
      BY <1>1, <1>2, <1>5, <3>1, <3>2, <3>4
    <3>5. QED
      BY <3>3, <3>4
  <2>2. QED
    BY <2>1 DEF RedactedFirst
<1>9. G!OnlyRedactedLeaves'
  BY <1>5 DEF PromptInv, G!OnlyRedactedLeaves
<1>10. QueueIsOfQueued'
  <2>1. \A i \in 1 .. Len(queue) : queue[i] \in G!Blobs /\ queue[i] # b
    BY <1>3 DEF PromptInv, QueueIsOfQueued
  <2>2. CASE open
    <3>1. queue' = Append(queue, b) /\ p = "queued"
      BY <1>1, <2>2 DEF p
    <3>2. /\ queue' \in Seq(G!Blobs) /\ Len(queue') = Len(queue) + 1
          /\ \A i \in 1 .. Len(queue) : queue'[i] = queue[i]
          /\ queue'[Len(queue) + 1] = b
      BY <1>3, <3>1 DEF PromptInv, QueueIsOfQueued
    <3>3. QED
      BY <1>3, <1>5, <2>1, <3>1, <3>2 DEF PromptInv, QueueIsOfQueued
  <2>3. CASE ~open
    BY <1>1, <1>3, <1>5, <2>1, <2>3 DEF PromptInv, QueueIsOfQueued, p
  <2>4. QED
    BY <2>2, <2>3
<1>11. MakerHasLock'
  BY <1>1, <1>3, <1>4, <1>5 DEF PromptInv, MakerHasLock, UploadTypes
<1>12. G!Working' = G!Working
  BY <1>3, <1>4, <1>5 DEF G!Working, G!AtWork
<1>13. QED
  BY <1>7, <1>8, <1>9, <1>10, <1>11, <1>12 DEF PromptInv

\* An upload under way moves on; the queue and the spans do not see it.
LEMMA UploadMoves ==
  ASSUME PromptInv, NEW b \in G!Blobs, NEW pc \in States \ {"none", "queued"}, G!Move(b, pc),
         blob[b].pc \notin {"none", "queued"}
  PROVE  /\ blob' \in [G!Blobs -> [pc : States, payload : {"redacted", "none"}]]
         /\ RedactedFirst' /\ QueueIsOfQueued' /\ G!OnlyRedactedLeaves'
         /\ blob'[b].pc = pc /\ \A c \in G!Blobs : c # b => blob'[c] = blob[c]
<1>1. blob \in [G!Blobs -> [pc : States, payload : {"redacted", "none"}]]
  BY DEF PromptInv, UploadTypes
<1>2. blob' = [blob EXCEPT ![b].pc = pc] /\ UNCHANGED <<span, queue, open>>
  BY DEF G!Move
<1>3. /\ blob'[b].pc = pc /\ blob'[b].payload = blob[b].payload
      /\ \A c \in G!Blobs : c # b => blob'[c] = blob[c]
      /\ blob' \in [G!Blobs -> [pc : States, payload : {"redacted", "none"}]]
  BY <1>1, <1>2
<1>4. RedactedFirst'
  <2>1. \A s \in Spans, k \in {"prompt", "response"} : <<s, k>> \in G!Blobs
    BY DEF G!Blobs
  <2>2. ASSUME NEW s \in Spans, NEW k \in {"prompt", "response"}
        PROVE  /\ span'[s] \in {"prompt", "response"} => blob'[<<s, k>>].payload = "redacted"
               /\ span'[s] \in {"running", "prompt", k} => blob'[<<s, k>>].pc = "none"
    <3>1. <<s, k>> \in G!Blobs /\ span' = span
      BY <1>2, <2>1
    <3>2. /\ span[s] \in {"prompt", "response"} => blob[<<s, k>>].payload = "redacted"
          /\ span[s] \in {"running", "prompt", k} => blob[<<s, k>>].pc = "none"
      BY DEF PromptInv, RedactedFirst
    <3>3. CASE <<s, k>> = b
      BY <1>3, <3>1, <3>2, <3>3
    <3>4. CASE <<s, k>> # b
      BY <1>3, <3>1, <3>2, <3>4
    <3>5. QED
      BY <3>3, <3>4
  <2>3. QED
    BY <2>2 DEF RedactedFirst
<1>5. QueueIsOfQueued'
  <2>1. \A i \in 1 .. Len(queue) : queue[i] \in G!Blobs /\ queue[i] # b
    BY DEF PromptInv, QueueIsOfQueued
  <2>2. QED
    BY <1>2, <1>3, <2>1 DEF PromptInv, QueueIsOfQueued
<1>6. G!OnlyRedactedLeaves'
  BY <1>3 DEF PromptInv, G!OnlyRedactedLeaves
<1>7. QED
  BY <1>3, <1>4, <1>5, <1>6

\* A worker takes the head of the queue: one more works, and no more than there are.
LEMMA TakeUploadKeeps ==
  ASSUME G!PromptLogAssumption, PromptInv, G!TakeUpload PROVE PromptInv'
<1> DEFINE b == Head(queue)
<1>1. /\ queue # <<>> /\ Cardinality(G!Working) < MaxWorkers
      /\ blob' = [blob EXCEPT ![b].pc = "start"] /\ queue' = Tail(queue)
      /\ UNCHANGED <<span, client, lock, open>>
  BY SameFiniteness DEF G!TakeUpload
<1>2. queue \in Seq(G!Blobs) /\ blob \in [G!Blobs -> [pc : States, payload : {"redacted", "none"}]]
  BY DEF PromptInv, UploadTypes, QueueIsOfQueued
<1>3. /\ Len(queue) \in Nat \ {0} /\ 1 \in 1 .. Len(queue) /\ b = queue[1] /\ b \in G!Blobs
      /\ queue' \in Seq(G!Blobs) /\ Len(queue') = Len(queue) - 1
      /\ \A i \in 1 .. Len(queue') : queue'[i] = queue[i + 1] /\ i + 1 \in 1 .. Len(queue)
  BY <1>1, <1>2
<1>4. blob[b].pc = "queued"
  BY <1>3 DEF PromptInv, QueueIsOfQueued
<1> HIDE DEF b
<1>5. /\ blob'[b].pc = "start" /\ blob'[b].payload = blob[b].payload
      /\ \A c \in G!Blobs : c # b => blob'[c] = blob[c]
      /\ blob' \in [G!Blobs -> [pc : States, payload : {"redacted", "none"}]]
  BY <1>1, <1>2, <1>3 DEF States
<1>6. UploadTypes'
  BY <1>1, <1>5 DEF PromptInv, UploadTypes
<1>7. RedactedFirst'
  <2>1. \A s \in Spans, k \in {"prompt", "response"} : <<s, k>> \in G!Blobs
    BY DEF G!Blobs
  <2>2. ASSUME NEW s \in Spans, NEW k \in {"prompt", "response"}
        PROVE  /\ span'[s] \in {"prompt", "response"} => blob'[<<s, k>>].payload = "redacted"
               /\ span'[s] \in {"running", "prompt", k} => blob'[<<s, k>>].pc = "none"
    BY <1>1, <1>4, <1>5, <2>1 DEF PromptInv, RedactedFirst
  <2>3. QED
    BY <2>2 DEF RedactedFirst
<1>8. QueueIsOfQueued'
  <2>1. \A i \in 1 .. Len(queue') : queue'[i] \in G!Blobs /\ queue'[i] # b /\ blob'[queue'[i]].pc = "queued"
    <3>1. ASSUME NEW i \in 1 .. Len(queue') PROVE queue'[i] \in G!Blobs /\ queue'[i] # b /\ blob'[queue'[i]].pc = "queued"
      <4>1. i + 1 \in 1 .. Len(queue) /\ i + 1 # 1 /\ queue'[i] = queue[i + 1]
        BY <1>3
      <4>2. queue[i + 1] # queue[1]
        BY <1>3, <4>1 DEF PromptInv, QueueIsOfQueued
      <4>3. queue[i + 1] \in G!Blobs /\ blob[queue[i + 1]].pc = "queued"
        BY <1>2, <4>1 DEF PromptInv, QueueIsOfQueued
      <4>4. QED
        BY <1>3, <1>5, <4>1, <4>2, <4>3
    <3>2. QED
      BY <3>1
  <2>2. \A i, j \in 1 .. Len(queue') : queue'[i] = queue'[j] => i = j
    <3>1. ASSUME NEW i \in 1 .. Len(queue'), NEW j \in 1 .. Len(queue'), queue'[i] = queue'[j] PROVE i = j
      <4>1. /\ i + 1 \in 1 .. Len(queue) /\ j + 1 \in 1 .. Len(queue)
            /\ queue[i + 1] = queue[j + 1]
        BY <1>3, <3>1
      <4>2. i + 1 = j + 1
        BY <4>1 DEF PromptInv, QueueIsOfQueued
      <4>3. QED
        BY <4>2
    <3>2. QED
      BY <3>1
  <2>3. ASSUME NEW c \in G!Blobs, blob'[c].pc = "queued" PROVE \E i \in 1 .. Len(queue') : c = queue'[i]
    <3>1. c # b /\ blob[c].pc = "queued"
      BY <1>5, <2>3
    <3>2. PICK i \in 1 .. Len(queue) : c = queue[i]
      BY <3>1 DEF PromptInv, QueueIsOfQueued
    <3>3. i # 1
      BY <1>3, <3>1, <3>2
    <3>4. i - 1 \in 1 .. Len(queue') /\ (i - 1) + 1 = i
      BY <1>3, <3>3
    <3>5. QED
      BY <1>3, <3>2, <3>4
  <2>4. QED
    BY <1>3, <2>1, <2>2, <2>3 DEF QueueIsOfQueued
<1>9. G!OnlyRedactedLeaves'
  BY <1>4, <1>5 DEF PromptInv, G!OnlyRedactedLeaves
<1>10. MakerHasLock'
  BY <1>1, <1>3, <1>4, <1>5 DEF PromptInv, MakerHasLock, UploadTypes
<1>11. Cardinality(G!Working') <= MaxWorkers
  <2>1. G!Working' = G!Working \cup {b} /\ b \notin G!Working
    BY <1>3, <1>4, <1>5 DEF G!Working, G!AtWork
  <2>2. IsFiniteSet(G!Working)
    BY BlobsAreFinite DEF G!Working
  <2>3. Cardinality(G!Working') = Cardinality(G!Working) + 1 /\ Cardinality(G!Working) \in Nat
    BY <2>1, <2>2, FS_AddElement, FS_CardinalityType
  <2>4. QED
    BY <1>1, <2>3 DEF G!PromptLogAssumption
<1>12. QED
  BY <1>6, <1>7, <1>8, <1>9, <1>10, <1>11 DEF PromptInv

\* The uploads on their way through the workers, the lock and the client.
LEMMA WorkerKeeps ==
  ASSUME G!PromptLogAssumption, PromptInv, NEW b \in G!Blobs,
         G!LookForClient(b) \/ G!LookAgain(b) \/ G!MakeClient(b) \/ G!Upload(b)
  PROVE  PromptInv' /\ (client # Nil => client' = client)
<1> DEFINE Later == {"wait", "make", "upload", "done", "failed"}
<1>1. blob[b].pc \in G!AtWork /\ G!AtWork \subseteq States \ {"none", "queued"} /\ Later \subseteq States \ {"none", "queued"}
  BY DEF G!LookForClient, G!LookAgain, G!MakeClient, G!Upload, G!AtWork, States
<1>2. PICK pc \in Later : G!Move(b, pc)
  BY DEF G!LookForClient, G!LookAgain, G!MakeClient, G!Upload
<1>3. /\ blob' \in [G!Blobs -> [pc : States, payload : {"redacted", "none"}]]
      /\ RedactedFirst' /\ QueueIsOfQueued' /\ G!OnlyRedactedLeaves'
      /\ blob'[b].pc = pc /\ \A c \in G!Blobs : c # b => blob'[c] = blob[c]
  BY <1>1, <1>2, UploadMoves
<1>4. UNCHANGED <<span, queue, open>>
  BY <1>2 DEF G!Move
<1>5. lock \in G!Blobs \cup {Nil} /\ client \in G!Blobs \cup {Nil} /\ Nil \notin G!Blobs
      /\ (\A c \in G!Blobs : blob[c].pc = "make" => lock = c /\ client = Nil) /\ (lock # Nil => blob[lock].pc = "make")
  BY DEF PromptInv, UploadTypes, MakerHasLock, G!PromptLogAssumption
<1>6. blob \in [G!Blobs -> [pc : States, payload : {"redacted", "none"}]]
  BY DEF PromptInv, UploadTypes
<1>7. /\ client' \in G!Blobs \cup {Nil} /\ lock' \in G!Blobs \cup {Nil}
      /\ MakerHasLock' /\ (client # Nil => client' = client)
  <2>1. CASE G!LookForClient(b)
    <3>1. blob[b].pc = "start" /\ blob'[b].pc \in {"wait", "upload"} /\ UNCHANGED <<client, lock>>
      BY <1>6, <2>1 DEF G!LookForClient, G!Move
    <3>2. QED
      BY <1>3, <1>5, <3>1 DEF MakerHasLock
  <2>2. CASE G!LookAgain(b) /\ client = Nil
    <3>1. blob[b].pc = "wait" /\ lock = Nil /\ blob'[b].pc = "make" /\ lock' = b /\ client' = client
      BY <1>6, <2>2 DEF G!LookAgain, G!Move
    <3>2. QED
      BY <1>3, <1>5, <2>2, <3>1 DEF MakerHasLock
  <2>3. CASE G!LookAgain(b) /\ client # Nil
    <3>1. blob[b].pc = "wait" /\ blob'[b].pc = "upload" /\ UNCHANGED <<client, lock>>
      BY <1>6, <2>3 DEF G!LookAgain, G!Move
    <3>2. QED
      BY <1>3, <1>5, <3>1 DEF MakerHasLock
  <2>4. CASE G!MakeClient(b)
    <3>1. blob[b].pc = "make" /\ lock' = Nil /\ blob'[b].pc \in {"upload", "failed"} /\ client' \in {client, b}
      BY <1>6, <2>4 DEF G!MakeClient, G!Move
    <3>2. client = Nil /\ \A c \in G!Blobs : c # b => blob'[c].pc # "make"
      BY <1>3, <1>5, <3>1
    <3>3. QED
      BY <1>5, <3>1, <3>2 DEF MakerHasLock
  <2>5. CASE G!Upload(b)
    <3>1. blob[b].pc = "upload" /\ blob'[b].pc \in {"done", "failed"} /\ UNCHANGED <<client, lock>>
      BY <1>6, <2>5 DEF G!Upload, G!Move
    <3>2. QED
      BY <1>3, <1>5, <3>1 DEF MakerHasLock
  <2>6. QED
    BY <2>1, <2>2, <2>3, <2>4, <2>5
<1>8. UploadTypes'
  BY <1>3, <1>4, <1>7 DEF PromptInv, UploadTypes
<1>9. Cardinality(G!Working') <= MaxWorkers
  <2>1. G!Working' \subseteq G!Working
    BY <1>1, <1>3 DEF G!Working
  <2>2. IsFiniteSet(G!Working)
    BY BlobsAreFinite DEF G!Working
  <2>3. /\ Cardinality(G!Working') <= Cardinality(G!Working)
        /\ Cardinality(G!Working') \in Nat /\ Cardinality(G!Working) \in Nat
    BY <2>1, <2>2, FS_Subset, FS_CardinalityType
  <2>4. QED
    BY <2>3 DEF PromptInv, G!PromptLogAssumption
<1>10. QED
  BY <1>3, <1>7, <1>8, <1>9 DEF PromptInv

LEMMA LogGoesOn ==
  ASSUME G!PromptLogAssumption, PromptInv, [G!PromptNext]_G!promptVars
  PROVE  PromptInv' /\ (client # Nil => client' = client)
<1>1. CASE \E s \in Spans : G!EndSpan(s) \/ G!Submit(s)
  BY <1>1, EndSpanKeeps, SubmitKeeps DEF G!EndSpan, G!Submit
<1>2. CASE G!TakeUpload
  BY <1>2, TakeUploadKeeps DEF G!TakeUpload
<1>3. CASE \E b \in G!Blobs : G!LookForClient(b) \/ G!LookAgain(b) \/ G!MakeClient(b) \/ G!Upload(b)
  BY <1>3, WorkerKeeps
<1>4. CASE G!ClosePool \/ UNCHANGED G!promptVars
  <2>1. UNCHANGED <<span, blob, queue, client, lock>> /\ open' \in BOOLEAN
    BY <1>4 DEF G!ClosePool, G!promptVars, PromptInv, UploadTypes
  <2>2. QED
    BY <2>1 DEF PromptInv, UploadTypes, RedactedFirst, QueueIsOfQueued, MakerHasLock, G!OnlyRedactedLeaves, G!Working
<1>5. QED
  BY <1>1, <1>2, <1>3, <1>4 DEF G!PromptNext, G!WorkerStep

LEMMA LogIsTyped == ASSUME PromptInv PROVE G!PromptTypeOK
<1>1. \A b \in G!Blobs : /\ blob[b].pc \in G!AtWork \cup {"none", "queued", "refused", "done", "failed"}
                         /\ blob[b].pc = "queued" <=> b \in G!ToSet(queue)
  <2>1. ASSUME NEW b \in G!Blobs PROVE blob[b].pc = "queued" <=> b \in G!ToSet(queue)
    BY <2>1 DEF PromptInv, QueueIsOfQueued, G!ToSet
  <2>2. ASSUME NEW b \in G!Blobs PROVE blob[b].pc \in G!AtWork \cup {"none", "queued", "refused", "done", "failed"}
    BY <2>2 DEF PromptInv, UploadTypes, States, G!AtWork
  <2>3. QED
    BY <2>1, <2>2
<1>2. G!Cardinality(G!Working) <= MaxWorkers
  BY SameFiniteness DEF PromptInv
<1>3. {client, lock} \subseteq G!Blobs \cup {Nil} /\ open \in BOOLEAN
  BY DEF PromptInv, UploadTypes
<1>4. lock # Nil => blob[lock].pc = "make"
  BY DEF PromptInv, MakerHasLock
<1>5. span \in [Spans -> {"running", "prompt", "response", "over"}]
  BY DEF PromptInv, UploadTypes
<1>6. QED
  BY <1>1, <1>2, <1>3, <1>4, <1>5 DEF G!PromptTypeOK

\* PromptLogSpanProcessor and its writer, for any spans and workers: what reaches
\* a worker was redacted, at most max_workers work at a time, and the client is
\* made once, however workers, shutdown and failures interleave.
THEOREM PromptsLeaveRedacted == G!PromptSpec => PromptLogIsSafe
<1> USE PromptsAssumption
<1> SUFFICES G!PromptSpec => []G!PromptTypeOK /\ []G!OnlyRedactedLeaves /\ G!ClientIsMadeOnce
  BY DEF PromptLogIsSafe, G!PromptLogIsSafe
<1>1. G!PromptInit => PromptInv
  BY LogStarts
<1>2. PromptInv /\ [G!PromptNext]_G!promptVars => PromptInv'
  BY LogGoesOn
<1>3. PromptInv /\ [G!PromptNext]_G!promptVars => [client # Nil => client' = client]_G!promptVars
  BY LogGoesOn
<1>4. PromptInv => G!PromptTypeOK /\ G!OnlyRedactedLeaves
  BY LogIsTyped DEF PromptInv
<1>5. QED
  BY <1>1, <1>2, <1>3, <1>4, PTL DEF G!PromptSpec, G!ClientIsMadeOnce

-----------------------------------------------------------------------------
(* The live feeds.  The invariant is stated of any registry r, tabs t and  *)
(* emitters m, so that the steps which do several things to a registry are *)
(* followed one thing at a time.                                           *)

TabRecord ==
  [pc : {"idle", "opening", "waiting", "sending", "gone"}, key : F!Keys \cup {Nil},
   chan : F!Channels \cup {Nil}, held : F!Events \cup {Nil}, last : 0 .. MaxEvents]

EmitRecord ==
  [pc : {"idle", "look", "put"}, todo : Seq(F!Keys), chan : F!Channels \cup {Nil}, new : BOOLEAN]

TabOK(x) ==
  /\ x \in TabRecord
  /\ x.chan # Nil <=> x.pc \in {"opening", "waiting", "sending"}
  /\ x.key # Nil <=> x.chan # Nil
  /\ x.held # Nil <=> x.pc = "sending"

EmitOK(x) ==
  /\ x \in EmitRecord
  /\ x.chan # Nil <=> x.pc = "put"
  /\ x.new => x.pc = "put"
  /\ x.pc # "idle" => x.todo # <<>>

FeedTypes(r, t, m) ==
  /\ r \in F!Registry
  /\ \A c \in F!Channels : Len(r.queue[c]) <= MaxQueue
  /\ DOMAIN t = Tabs /\ \A b \in Tabs : TabOK(t[b])
  /\ DOMAIN m = Threads /\ \A h \in Threads : EmitOK(m[h])

\* Channel c is used for key k: registered, watched, or found by an emitter.
UsedFor(r, t, m, c, k) ==
  \/ r.of[k] = c
  \/ \E b \in Tabs : t[b].chan = c /\ t[b].key = k
  \/ \E h \in Threads : m[h].chan = c /\ Head(m[h].todo) = k

NobodyHas(r, t, m, c) ==
  /\ \A k \in F!Keys : r.of[k] # c
  /\ \A b \in Tabs : t[b].chan # c
  /\ \A h \in Threads : m[h].chan # c

\* A channel that an emitter made and nobody else knows.
Newly(m, c) == \E h \in Threads : m[h].new /\ m[h].chan = c

NewIsAlone(r, t, m) ==
  \A h \in Threads : m[h].new =>
    /\ \A k \in F!Keys : r.of[k] # m[h].chan
    /\ \A b \in Tabs : t[b].chan # m[h].chan
    /\ \A g \in Threads : g # h => m[g].chan # m[h].chan

\* A channel is used for one key, and has events of that key.
OneKeyEach(r, t, m) ==
  \A c \in F!Channels, k \in F!Keys : UsedFor(r, t, m, c, k) =>
    /\ \A l \in F!Keys : UsedFor(r, t, m, c, l) => l = k
    /\ ~Newly(m, c) => \A e \in F!Elements(r.queue[c]) : e[1] = k

\* Queues are in the order of the puts; who takes from one is behind them all.
InPutOrder(r, t) ==
  /\ \A c \in F!Channels : \A i, j \in 1 .. Len(r.queue[c]) :
       i < j => r.queue[c][i][2] < r.queue[c][j][2]
  /\ \A b \in Tabs : t[b].chan # Nil =>
       /\ t[b].last <= r.count[t[b].key]
       /\ \A e \in F!Elements(r.queue[t[b].chan]) : t[b].last < e[2]

Ends(r) == r.sent \cup r.dropped \cup r.lost

\* An event is somewhere once it was put, and in one place only.
PutIsSomewhere(r, t) ==
  \A e \in F!Events :
    e[2] <= r.count[e[1]] <=>
      \/ \E c \in F!Channels : e \in F!Elements(r.queue[c])
      \/ \E b \in Tabs : t[b].held = e
      \/ e \in Ends(r)

PlacesAreApart(r, t) ==
  /\ \A c, d \in F!Channels : \A e \in F!Elements(r.queue[c]) : e \in F!Elements(r.queue[d]) => c = d
  /\ \A a, b \in Tabs : t[a].held # Nil /\ t[a].held = t[b].held => a = b
  /\ \A c \in F!Channels : F!Elements(r.queue[c]) \cap Ends(r) = {}
  /\ \A b \in Tabs : t[b].held \notin Ends(r) /\ \A c \in F!Channels : t[b].held \notin F!Elements(r.queue[c])
  /\ r.sent \cap r.dropped = {} /\ r.sent \cap r.lost = {} /\ r.dropped \cap r.lost = {}

FeedInv(r, t, m) ==
  /\ FeedTypes(r, t, m) /\ NewIsAlone(r, t, m) /\ OneKeyEach(r, t, m)
  /\ InPutOrder(r, t) /\ PutIsSomewhere(r, t) /\ PlacesAreApart(r, t)

-----------------------------------------------------------------------------
(* Queues and registries.                                                  *)

LEMMA FeedFiniteness ==
  ASSUME NEW Subs PROVE (F!IsFiniteSet(Subs) <=> IsFiniteSet(Subs)) /\ F!Cardinality(Subs) = Cardinality(Subs)
BY DEF F!IsFiniteSet, IsFiniteSet, F!Cardinality, Cardinality

\* What Append and Tail do to a queue and its events.
LEMMA QueueAppend ==
  ASSUME NEW Vals, NEW q \in Seq(Vals), NEW e \in Vals
  PROVE  /\ Append(q, e) \in Seq(Vals) /\ Len(Append(q, e)) = Len(q) + 1 /\ Len(q) \in Nat
         /\ \A i \in 1 .. Len(q) : Append(q, e)[i] = q[i]
         /\ Append(q, e)[Len(q) + 1] = e
         /\ F!Elements(Append(q, e)) = F!Elements(q) \cup {e}
         /\ F!Elements(q) \subseteq Vals
<1>1. /\ Append(q, e) \in Seq(Vals) /\ Len(Append(q, e)) = Len(q) + 1 /\ Len(q) \in Nat
      /\ \A i \in 1 .. Len(q) : Append(q, e)[i] = q[i]
      /\ Append(q, e)[Len(q) + 1] = e
      /\ DOMAIN q = 1 .. Len(q) /\ DOMAIN Append(q, e) = 1 .. Len(q) + 1
  OBVIOUS
<1>2. F!Elements(q) = {q[i] : i \in 1 .. Len(q)} /\ F!Elements(q) \subseteq Vals
  BY <1>1 DEF F!Elements
<1>3. F!Elements(Append(q, e)) = {Append(q, e)[i] : i \in 1 .. Len(q) + 1}
  BY <1>1 DEF F!Elements
<1>4. 1 .. Len(q) + 1 = (1 .. Len(q)) \cup {Len(q) + 1}
  BY <1>1
<1>5. F!Elements(Append(q, e)) = F!Elements(q) \cup {e}
  BY <1>1, <1>2, <1>3, <1>4
<1>6. QED
  BY <1>1, <1>2, <1>5

LEMMA QueueTail ==
  ASSUME NEW Vals, NEW q \in Seq(Vals), q # <<>>
  PROVE  /\ Tail(q) \in Seq(Vals) /\ Len(Tail(q)) = Len(q) - 1 /\ Len(q) \in Nat \ {0}
         /\ \A i \in 1 .. Len(q) - 1 : Tail(q)[i] = q[i + 1]
         /\ Head(q) = q[1] /\ Head(q) \in Vals /\ Head(q) \in F!Elements(q)
         /\ F!Elements(q) = F!Elements(Tail(q)) \cup {Head(q)}
<1>1. /\ Tail(q) \in Seq(Vals) /\ Len(Tail(q)) = Len(q) - 1 /\ Len(q) \in Nat \ {0}
      /\ \A i \in 1 .. Len(q) - 1 : Tail(q)[i] = q[i + 1]
      /\ Head(q) = q[1] /\ Head(q) \in Vals
      /\ DOMAIN q = 1 .. Len(q) /\ DOMAIN Tail(q) = 1 .. Len(q) - 1
  OBVIOUS
<1>2. F!Elements(q) = {q[i] : i \in 1 .. Len(q)} /\ F!Elements(Tail(q)) = {Tail(q)[i] : i \in 1 .. Len(q) - 1}
  BY <1>1 DEF F!Elements
<1>3. Head(q) \in F!Elements(q)
  BY <1>1, <1>2
<1>4. F!Elements(Tail(q)) \subseteq F!Elements(q)
  BY <1>1, <1>2
<1>5. ASSUME NEW e \in F!Elements(q) PROVE e \in F!Elements(Tail(q)) \cup {Head(q)}
  <2>1. PICK i \in 1 .. Len(q) : e = q[i]
    BY <1>2
  <2>2. CASE i = 1
    BY <1>1, <2>1, <2>2
  <2>3. CASE i # 1
    <3>1. i - 1 \in 1 .. Len(q) - 1 /\ e = Tail(q)[i - 1]
      BY <1>1, <2>1, <2>3
    <3>2. QED
      BY <1>2, <3>1
  <2>4. QED
    BY <2>2, <2>3
<1>6. QED
  BY <1>1, <1>3, <1>4, <1>5

LEMMA EmptyQueue == F!Elements(<<>>) = {}
BY DEF F!Elements

\* In a queue that is in order, the head is not in the tail.
LEMMA HeadLeaves ==
  ASSUME NEW q \in Seq(F!Events), q # <<>>,
         \A i, j \in 1 .. Len(q) : i < j => q[i][2] < q[j][2]
  PROVE  /\ F!Elements(Tail(q)) = F!Elements(q) \ {Head(q)}
         /\ \A e \in F!Elements(Tail(q)) : Head(q)[2] < e[2]
<1>1. \A e \in F!Events : e[2] \in Int
  BY DEF F!Events
<1>2. /\ Len(q) \in Nat \ {0} /\ Len(Tail(q)) = Len(q) - 1 /\ Head(q) = q[1] /\ Head(q) \in F!Events
      /\ \A i \in 1 .. Len(q) - 1 : Tail(q)[i] = q[i + 1]
      /\ F!Elements(q) = F!Elements(Tail(q)) \cup {Head(q)} /\ Tail(q) \in Seq(F!Events)
  BY QueueTail
<1>3. ASSUME NEW e \in F!Elements(Tail(q)) PROVE Head(q)[2] < e[2]
  <2>1. PICK i \in 1 .. Len(q) - 1 : e = Tail(q)[i]
    BY <1>2 DEF F!Elements
  <2>2. e = q[i + 1] /\ i + 1 \in 1 .. Len(q) /\ 1 \in 1 .. Len(q) /\ 1 < i + 1
    BY <1>2, <2>1
  <2>3. QED
    BY <1>2, <2>2
<1>4. Head(q) \notin F!Elements(Tail(q))
  BY <1>1, <1>2, <1>3
<1>5. QED
  BY <1>2, <1>3, <1>4

LEMMA StoredIs ==
  ASSUME NEW r \in F!Registry, NEW k \in F!Keys, NEW c \in F!Channels,
         NEW s, s = F!Stored(r, k, c)
  PROVE  /\ s \in F!Registry
         /\ s.of[k] = c /\ \A l \in F!Keys : l # k => s.of[l] = r.of[l]
         /\ s.queue[c] = <<>> /\ s.watchers[c] = 0 /\ s.leaked[c] = 0
         /\ \A d \in F!Channels : d # c =>
              s.queue[d] = r.queue[d] /\ s.watchers[d] = r.watchers[d] /\ s.leaked[d] = r.leaked[d]
         /\ s.count = r.count /\ s.dropped = r.dropped /\ s.sent = r.sent
         /\ s.lost = r.lost \cup F!Elements(r.queue[c])
<1>1. /\ s.of = [r.of EXCEPT ![k] = c] /\ s.queue = [r.queue EXCEPT ![c] = <<>>]
      /\ s.watchers = [r.watchers EXCEPT ![c] = 0] /\ s.leaked = [r.leaked EXCEPT ![c] = 0]
      /\ s.count = r.count /\ s.dropped = r.dropped /\ s.sent = r.sent
      /\ s.lost = r.lost \cup F!Elements(r.queue[c])
  BY DEF F!Stored, F!Registry
<1>2. F!Elements(r.queue[c]) \subseteq F!Events
  BY DEF F!Elements, F!Registry
<1>3. <<>> \in Seq(F!Events)
  OBVIOUS
<1>4. s \in F!Registry
  BY <1>2, <1>3 DEF F!Stored, F!Registry
<1>5. /\ s.of[k] = c /\ \A l \in F!Keys : l # k => s.of[l] = r.of[l]
      /\ s.queue[c] = <<>> /\ s.watchers[c] = 0 /\ s.leaked[c] = 0
      /\ \A d \in F!Channels : d # c =>
           s.queue[d] = r.queue[d] /\ s.watchers[d] = r.watchers[d] /\ s.leaked[d] = r.leaked[d]
  BY <1>1 DEF F!Registry
<1>6. QED
  BY <1>1, <1>4, <1>5

\* p is r with one more event of k, in channel c, whose oldest makes room.
Room(r, k) == r.count[k] < MaxEvents

PutIs(p, r, k, c) ==
  LET e == <<k, r.count[k] + 1>>
      q == r.queue[c]
  IN /\ p \in F!Registry /\ e \in F!Events
     /\ p.of = r.of /\ p.watchers = r.watchers /\ p.leaked = r.leaked
     /\ p.sent = r.sent /\ p.lost = r.lost
     /\ p.count[k] = r.count[k] + 1 /\ \A l \in F!Keys : l # k => p.count[l] = r.count[l]
     /\ \A d \in F!Channels : d # c => p.queue[d] = r.queue[d]
     /\ \/ Len(q) < MaxQueue /\ p.queue[c] = Append(q, e) /\ p.dropped = r.dropped
        \/ /\ Len(q) = MaxQueue /\ q # <<>> /\ p.queue[c] = Append(Tail(q), e)
           /\ p.dropped = r.dropped \cup {Head(q)}

LEMMA PushedIs ==
  ASSUME F!FeedAssumption, NEW r, NEW t, NEW m, FeedTypes(r, t, m), NEW k \in F!Keys, NEW c \in F!Channels, Room(r, k)
  PROVE  PutIs(F!Pushed(r, k, c), r, k, c)
<1> DEFINE p == F!Pushed(r, k, c)
           e == <<k, r.count[k] + 1>>
           q == r.queue[c]
<1>0. /\ r \in F!Registry /\ r.count[k] < MaxEvents /\ Len(q) <= MaxQueue
      /\ MaxQueue \in Nat \ {0} /\ MaxEvents \in Nat
  BY DEF F!FeedAssumption, FeedTypes, Room
<1>1. /\ r.count \in [F!Keys -> 0 .. MaxEvents] /\ r.queue \in [F!Channels -> Seq(F!Events)] /\ q \in Seq(F!Events)
      /\ r.count[k] \in 0 .. MaxEvents
      /\ r = [of |-> r.of, queue |-> r.queue, watchers |-> r.watchers, count |-> r.count, dropped |-> r.dropped,
              lost |-> r.lost, sent |-> r.sent, leaked |-> r.leaked]
  BY <1>0 DEF F!Registry
<1>2. e \in F!Events /\ [r.count EXCEPT ![k] = @ + 1] \in [F!Keys -> 0 .. MaxEvents] /\ Len(q) \in Nat
  BY <1>0, <1>1 DEF F!Events
<1>3. CASE Len(q) < MaxQueue
  <2>1. p = [r EXCEPT !.count[k] = @ + 1, !.queue[c] = Append(q, e)]
    BY <1>3 DEF F!Pushed
  <2>2. Append(q, e) \in Seq(F!Events)
    BY <1>1, <1>2, QueueAppend
  <2>3. /\ p.of = r.of /\ p.watchers = r.watchers /\ p.leaked = r.leaked
        /\ p.sent = r.sent /\ p.lost = r.lost /\ p.dropped = r.dropped
        /\ p.count = [r.count EXCEPT ![k] = @ + 1] /\ p.queue = [r.queue EXCEPT ![c] = Append(q, e)]
    BY <1>0, <2>1 DEF F!Registry
  <2>4. [r.queue EXCEPT ![c] = Append(q, e)] \in [F!Channels -> Seq(F!Events)]
    BY <1>1, <2>2
  <2>5. p \in F!Registry
    BY <1>0, <1>2, <2>1, <2>4 DEF F!Registry
  <2>6. QED
    BY <1>1, <1>2, <1>3, <2>3, <2>5 DEF PutIs
<1>4. CASE ~(Len(q) < MaxQueue)
  <2>1. p = [r EXCEPT !.count[k] = @ + 1, !.queue[c] = Append(Tail(q), e), !.dropped = @ \cup {Head(q)}]
    BY <1>4 DEF F!Pushed
  <2>2. q # <<>> /\ Len(q) = MaxQueue
    BY <1>0, <1>1, <1>2, <1>4
  <2>3. Append(Tail(q), e) \in Seq(F!Events) /\ Head(q) \in F!Events
    <3>1. Tail(q) \in Seq(F!Events) /\ Head(q) \in F!Events
      BY <1>1, <2>2, QueueTail
    <3>2. QED
      BY <1>2, <3>1, QueueAppend
  <2>4. /\ p.of = r.of /\ p.watchers = r.watchers /\ p.leaked = r.leaked
        /\ p.sent = r.sent /\ p.lost = r.lost /\ p.dropped = r.dropped \cup {Head(q)}
        /\ p.count = [r.count EXCEPT ![k] = @ + 1] /\ p.queue = [r.queue EXCEPT ![c] = Append(Tail(q), e)]
    BY <1>0, <2>1 DEF F!Registry
  <2>5. [r.queue EXCEPT ![c] = Append(Tail(q), e)] \in [F!Channels -> Seq(F!Events)] /\ r.dropped \cup {Head(q)} \subseteq F!Events
    BY <1>0, <1>1, <2>3 DEF F!Registry
  <2>6. p \in F!Registry
    BY <1>0, <1>2, <2>1, <2>5 DEF F!Registry
  <2>7. QED
    BY <1>1, <1>2, <2>2, <2>4, <2>6 DEF PutIs
<1>5. QED
  BY <1>3, <1>4

\* There are more channels than references to any, so one is free.
LEMMA FreeIsFree ==
  ASSUME F!FeedAssumption, FeedTypes(reg, tab, emit)
  PROVE  F!FreeChannel \in F!Channels /\ NobodyHas(reg, tab, emit, F!FreeChannel)
<1> DEFINE ByKey == {reg.of[k] : k \in F!Keys}
           B == {tab[b].chan : b \in Tabs}
           H == {emit[h].chan : h \in Threads}
<1>1. IsFiniteSet(F!Keys) /\ IsFiniteSet(Tabs) /\ IsFiniteSet(Threads)
  BY FeedFiniteness DEF F!FeedAssumption
<1>2. IsFiniteSet(ByKey) /\ Cardinality(ByKey) <= Cardinality(F!Keys)
  <2>1. [k \in F!Keys |-> reg.of[k]] \in Surjection(F!Keys, ByKey)
    BY DEF Surjection
  <2>2. QED
    BY <1>1, <2>1, FS_Surjection
<1>3. IsFiniteSet(B) /\ Cardinality(B) <= Cardinality(Tabs)
  <2>1. [b \in Tabs |-> tab[b].chan] \in Surjection(Tabs, B)
    BY DEF Surjection
  <2>2. QED
    BY <1>1, <2>1, FS_Surjection
<1>4. IsFiniteSet(H) /\ Cardinality(H) <= Cardinality(Threads)
  <2>1. [h \in Threads |-> emit[h].chan] \in Surjection(Threads, H)
    BY DEF Surjection
  <2>2. QED
    BY <1>1, <2>1, FS_Surjection
<1> HIDE DEF ByKey, B, H
<1>5. /\ Cardinality(ByKey) \in Nat /\ Cardinality(B) \in Nat /\ Cardinality(H) \in Nat
      /\ Cardinality(F!Keys) \in Nat /\ Cardinality(Tabs) \in Nat /\ Cardinality(Threads) \in Nat
  BY <1>1, <1>2, <1>3, <1>4, FS_CardinalityType
<1>6. IsFiniteSet(ByKey \cup B) /\ Cardinality(ByKey \cup B) <= Cardinality(ByKey) + Cardinality(B) /\ Cardinality(ByKey \cup B) \in Nat
  <2>1. /\ IsFiniteSet(ByKey \cup B)
        /\ Cardinality(ByKey \cup B) = Cardinality(ByKey) + Cardinality(B) - Cardinality(ByKey \cap B)
    BY <1>2, <1>3, FS_Union
  <2>2. IsFiniteSet(ByKey \cap B)
    BY <1>2, FS_Intersection
  <2>3. Cardinality(ByKey \cap B) \in Nat /\ Cardinality(ByKey \cup B) \in Nat
    BY <2>1, <2>2, FS_CardinalityType
  <2>4. QED
    BY <1>5, <2>1, <2>3
<1>7. IsFiniteSet(ByKey \cup B \cup H) /\ Cardinality(ByKey \cup B \cup H) <= Cardinality(ByKey) + Cardinality(B) + Cardinality(H)
  <2>1. /\ IsFiniteSet((ByKey \cup B) \cup H)
        /\ Cardinality((ByKey \cup B) \cup H) = Cardinality(ByKey \cup B) + Cardinality(H) - Cardinality((ByKey \cup B) \cap H)
    BY <1>6, <1>4, FS_Union
  <2>2. IsFiniteSet((ByKey \cup B) \cap H)
    BY <1>6, FS_Intersection
  <2>3. Cardinality((ByKey \cup B) \cap H) \in Nat
    BY <2>2, FS_CardinalityType
  <2>4. QED
    BY <1>5, <1>6, <2>1, <2>3
<1>8. Cardinality(F!Channels) = Cardinality(F!Keys) + Cardinality(Tabs) + Cardinality(Threads) + 1
  <2>1. F!Channels = 1 .. (Cardinality(F!Keys) + Cardinality(Tabs) + Cardinality(Threads) + 1)
    BY FeedFiniteness DEF F!Channels
  <2> DEFINE n == Cardinality(F!Keys) + Cardinality(Tabs) + Cardinality(Threads) + 1
  <2>2. n \in Nat \ {0}
    BY <1>5
  <2> HIDE DEF n
  <2>3. Cardinality(1 .. n) = n
    BY <2>2, FS_Interval
  <2>4. QED
    BY <2>1, <2>3 DEF n
<1>9. PICK c \in F!Channels : c \notin ByKey \cup B \cup H
  <2>1. SUFFICES ASSUME F!Channels \subseteq ByKey \cup B \cup H PROVE FALSE
    OBVIOUS
  <2>2. Cardinality(F!Channels) <= Cardinality(ByKey \cup B \cup H)
    BY <1>7, <2>1, FS_Subset
  <2>3. Cardinality(ByKey \cup B \cup H) \in Nat
    BY <1>7, FS_CardinalityType
  <2>4. QED
    BY <1>2, <1>3, <1>4, <1>5, <1>7, <1>8, <2>2, <2>3
<1> DEFINE IsFree(d) == /\ \A k \in F!Keys : reg.of[k] # d
                        /\ \A b \in Tabs : tab[b].chan # d
                        /\ \A h \in Threads : emit[h].chan # d
<1>10. \E d \in F!Channels : IsFree(d)
  BY <1>9 DEF ByKey, B, H
<1>11. F!FreeChannel \in F!Channels /\ IsFree(F!FreeChannel)
  <2>1. F!FreeChannel = CHOOSE d \in F!Channels : IsFree(d)
    BY DEF F!FreeChannel
  <2> HIDE DEF IsFree
  <2>2. QED
    BY <1>10, <2>1
<1>12. QED
  BY <1>11 DEF NobodyHas

-----------------------------------------------------------------------------
(* What keeps the invariant, one thing at a time.                          *)

\* A registry that differs in its counts of subscribers, or forgets a channel.
LEMMA LessKeeps ==
  ASSUME NEW r, NEW t, NEW m, FeedInv(r, t, m), NEW s \in F!Registry,
         \A k \in F!Keys : s.of[k] \in {r.of[k], Nil},
         s.queue = r.queue, s.count = r.count, s.dropped = r.dropped, s.lost = r.lost, s.sent = r.sent,
         Nil \notin F!Channels
  PROVE  FeedInv(s, t, m)
<1>1. FeedTypes(s, t, m)
  BY DEF FeedInv, FeedTypes
<1>2. NewIsAlone(s, t, m)
  <2>1. \A h \in Threads : m[h].new => m[h].chan # Nil
    BY DEF FeedInv, FeedTypes, EmitOK
  <2>2. QED
    BY <2>1 DEF FeedInv, NewIsAlone
<1>3. OneKeyEach(s, t, m)
  <2>1. \A c \in F!Channels, k \in F!Keys : UsedFor(s, t, m, c, k) => UsedFor(r, t, m, c, k)
    BY DEF UsedFor
  <2>2. QED
    BY <2>1 DEF FeedInv, OneKeyEach
<1>4. InPutOrder(s, t)
  BY DEF FeedInv, InPutOrder
<1>5. PutIsSomewhere(s, t)
  BY DEF FeedInv, PutIsSomewhere, Ends
<1>6. PlacesAreApart(s, t)
  BY DEF FeedInv, PlacesAreApart, Ends
<1>7. QED
  BY <1>1, <1>2, <1>3, <1>4, <1>5, <1>6 DEF FeedInv

\* A channel that nothing refers to is stored for k.
LEMMA StoreKeeps ==
  ASSUME F!FeedAssumption, NEW r, NEW t, NEW m, FeedInv(r, t, m), NEW k \in F!Keys, NEW c \in F!Channels,
         NobodyHas(r, t, m, c), NEW s, s = F!Stored(r, k, c)
  PROVE  FeedInv(s, t, m)
<1>1. r \in F!Registry
  BY DEF FeedInv, FeedTypes
<1>2. /\ s \in F!Registry
      /\ s.of[k] = c /\ \A l \in F!Keys : l # k => s.of[l] = r.of[l]
      /\ s.queue[c] = <<>> /\ \A d \in F!Channels : d # c => s.queue[d] = r.queue[d]
      /\ s.count = r.count /\ s.dropped = r.dropped /\ s.sent = r.sent
      /\ s.lost = r.lost \cup F!Elements(r.queue[c])
  BY <1>1, StoredIs
<1>3. /\ Len(s.queue[c]) = 0 /\ F!Elements(s.queue[c]) = {}
      /\ \A d \in F!Channels \ {c} : s.queue[d] = r.queue[d]
      /\ s.of[k] = c /\ \A l \in F!Keys \ {k} : s.of[l] = r.of[l]
  BY <1>2, EmptyQueue
<1>4. FeedTypes(s, t, m)
  <2>1. \A d \in F!Channels : Len(s.queue[d]) <= MaxQueue
    BY <1>3 DEF FeedInv, FeedTypes, F!FeedAssumption
  <2>2. QED
    BY <1>2, <2>1 DEF FeedInv, FeedTypes
<1>5. NewIsAlone(s, t, m)
  BY <1>3 DEF FeedInv, NewIsAlone, NobodyHas
<1>6. OneKeyEach(s, t, m)
  <2>1. \A l \in F!Keys : UsedFor(s, t, m, c, l) => l = k
    BY <1>3 DEF UsedFor, NobodyHas
  <2>2. \A d \in F!Channels \ {c}, l \in F!Keys : UsedFor(s, t, m, d, l) => UsedFor(r, t, m, d, l)
    BY <1>3 DEF UsedFor
  <2>3. ASSUME NEW d \in F!Channels, NEW l \in F!Keys, UsedFor(s, t, m, d, l)
        PROVE  /\ \A g \in F!Keys : UsedFor(s, t, m, d, g) => g = l
               /\ ~Newly(m, d) => \A e \in F!Elements(s.queue[d]) : e[1] = l
    <3>1. CASE d = c
      BY <1>3, <2>1, <2>3, <3>1
    <3>2. CASE d # c
      <4>1. s.queue[d] = r.queue[d] /\ UsedFor(r, t, m, d, l)
        BY <1>3, <2>2, <2>3, <3>2
      <4>2. QED
        BY <2>2, <3>2, <4>1 DEF FeedInv, OneKeyEach
    <3>3. QED
      BY <3>1, <3>2
  <2>4. QED
    BY <2>3 DEF OneKeyEach
<1>7. InPutOrder(s, t)
  <2>1. ASSUME NEW d \in F!Channels, NEW i \in 1 .. Len(s.queue[d]), NEW j \in 1 .. Len(s.queue[d]), i < j
        PROVE  s.queue[d][i][2] < s.queue[d][j][2]
    <3>1. d # c /\ s.queue[d] = r.queue[d]
      BY <1>3, <2>1
    <3>2. QED
      BY <2>1, <3>1 DEF FeedInv, InPutOrder
  <2>2. ASSUME NEW b \in Tabs, t[b].chan # Nil
        PROVE  /\ t[b].last <= s.count[t[b].key]
               /\ \A e \in F!Elements(s.queue[t[b].chan]) : t[b].last < e[2]
    <3>1. t[b].chan \in F!Channels \ {c}
      BY <2>2 DEF NobodyHas, FeedInv, FeedTypes, TabOK, TabRecord
    <3>2. s.queue[t[b].chan] = r.queue[t[b].chan] /\ s.count = r.count
      BY <1>2, <1>3, <3>1
    <3>3. QED
      BY <2>2, <3>2 DEF FeedInv, InPutOrder
  <2>3. QED
    BY <2>1, <2>2 DEF InPutOrder
<1>8. PutIsSomewhere(s, t)
  <2>1. ASSUME NEW e \in F!Events
        PROVE  ((\E d \in F!Channels : e \in F!Elements(s.queue[d])) \/ e \in Ends(s))
                 <=> ((\E d \in F!Channels : e \in F!Elements(r.queue[d])) \/ e \in Ends(r))
    BY <1>2, <1>3 DEF Ends
  <2>2. QED
    BY <1>2, <2>1 DEF FeedInv, PutIsSomewhere
<1>9. PlacesAreApart(s, t)
  <2>1. \A d \in F!Channels : F!Elements(s.queue[d]) = IF d = c THEN {} ELSE F!Elements(r.queue[d])
    BY <1>3
  <2>2. Ends(s) = Ends(r) \cup F!Elements(r.queue[c])
    BY <1>2 DEF Ends
  <2>3. /\ \A d, a \in F!Channels : \A e \in F!Elements(s.queue[d]) : e \in F!Elements(s.queue[a]) => d = a
        /\ \A d \in F!Channels : F!Elements(s.queue[d]) \cap Ends(s) = {}
    BY <2>1, <2>2 DEF FeedInv, PlacesAreApart
  <2>4. \A b \in Tabs : t[b].held \notin Ends(s) /\ \A d \in F!Channels : t[b].held \notin F!Elements(s.queue[d])
    BY <2>1, <2>2 DEF FeedInv, PlacesAreApart
  <2>5. s.sent \cap s.dropped = {} /\ s.sent \cap s.lost = {} /\ s.dropped \cap s.lost = {}
    BY <1>2 DEF FeedInv, PlacesAreApart, Ends
  <2>6. QED
    BY <2>3, <2>4, <2>5 DEF FeedInv, PlacesAreApart
<1>10. QED
  BY <1>4, <1>5, <1>6, <1>7, <1>8, <1>9 DEF FeedInv

\* An event of k is put into a channel that is used for k.
LEMMA PushKeeps ==
  ASSUME F!FeedAssumption, NEW r, NEW t, NEW m, FeedInv(r, t, m), NEW k \in F!Keys, NEW c \in F!Channels,
         UsedFor(r, t, m, c, k), ~Newly(m, c), NEW p, PutIs(p, r, k, c)
  PROVE  FeedInv(p, t, m)
<1> DEFINE n == <<k, r.count[k] + 1>>
           q == r.queue[c]
<1>1. /\ r \in F!Registry /\ q \in Seq(F!Events) /\ Len(q) <= MaxQueue /\ Len(q) \in Nat
      /\ MaxQueue \in Nat \ {0} /\ MaxEvents \in Nat /\ r.count[k] \in 0 .. MaxEvents
      /\ r.count \in [F!Keys -> 0 .. MaxEvents] /\ r.queue \in [F!Channels -> Seq(F!Events)]
  BY DEF FeedInv, FeedTypes, F!Registry, F!FeedAssumption
<1>2. /\ p \in F!Registry /\ n \in F!Events
      /\ p.of = r.of /\ p.sent = r.sent /\ p.lost = r.lost
      /\ p.count[k] = r.count[k] + 1 /\ \A l \in F!Keys : l # k => p.count[l] = r.count[l]
      /\ \A d \in F!Channels : d # c => p.queue[d] = r.queue[d]
      /\ \/ Len(q) < MaxQueue /\ p.queue[c] = Append(q, n) /\ p.dropped = r.dropped
         \/ /\ Len(q) = MaxQueue /\ q # <<>> /\ p.queue[c] = Append(Tail(q), n)
            /\ p.dropped = r.dropped \cup {Head(q)}
  BY <1>1 DEF PutIs
<1>3. \A i, j \in 1 .. Len(q) : i < j => q[i][2] < q[j][2]
  BY DEF FeedInv, InPutOrder
<1>4. PICK q0 \in Seq(F!Events), Lost \in SUBSET F!Elements(q) :
        /\ p.queue[c] = Append(q0, n) /\ p.dropped = r.dropped \cup Lost
        /\ F!Elements(q0) = F!Elements(q) \ Lost /\ Len(q0) < MaxQueue
        /\ \A i, j \in 1 .. Len(q0) : i < j => q0[i][2] < q0[j][2]
  <2>1. CASE Len(q) < MaxQueue /\ p.queue[c] = Append(q, n) /\ p.dropped = r.dropped
    <3>1. p.dropped = r.dropped \cup {} /\ F!Elements(q) = F!Elements(q) \ {} /\ {} \in SUBSET F!Elements(q)
      BY <2>1
    <3>2. QED
      BY <1>1, <1>3, <2>1, <3>1
  <2>2. CASE /\ Len(q) = MaxQueue /\ q # <<>> /\ p.queue[c] = Append(Tail(q), n)
             /\ p.dropped = r.dropped \cup {Head(q)}
    <3>1. /\ Tail(q) \in Seq(F!Events) /\ Len(Tail(q)) = Len(q) - 1 /\ Head(q) \in F!Elements(q)
          /\ \A i \in 1 .. Len(q) - 1 : Tail(q)[i] = q[i + 1]
      BY <1>1, <2>2, QueueTail
    <3>2. F!Elements(Tail(q)) = F!Elements(q) \ {Head(q)}
      BY <1>1, <1>3, <2>2, HeadLeaves
    <3>3. ASSUME NEW i \in 1 .. Len(Tail(q)), NEW j \in 1 .. Len(Tail(q)), i < j
          PROVE  Tail(q)[i][2] < Tail(q)[j][2]
      <4>1. /\ i + 1 \in 1 .. Len(q) /\ j + 1 \in 1 .. Len(q) /\ i + 1 < j + 1
            /\ Tail(q)[i] = q[i + 1] /\ Tail(q)[j] = q[j + 1]
        BY <1>1, <3>1, <3>3
      <4>2. QED
        BY <1>3, <4>1
    <3>4. Len(Tail(q)) < MaxQueue /\ {Head(q)} \in SUBSET F!Elements(q)
      BY <1>1, <2>2, <3>1
    <3>5. QED
      BY <2>2, <3>1, <3>2, <3>3, <3>4
  <2>3. QED
    BY <1>2, <2>1, <2>2
<1>5. /\ Append(q0, n) \in Seq(F!Events) /\ Len(Append(q0, n)) = Len(q0) + 1 /\ Len(q0) \in Nat
      /\ \A i \in 1 .. Len(q0) : Append(q0, n)[i] = q0[i] /\ q0[i] \in F!Elements(q0)
      /\ Append(q0, n)[Len(q0) + 1] = n /\ F!Elements(Append(q0, n)) = F!Elements(q0) \cup {n}
  <2>1. DOMAIN q0 = 1 .. Len(q0)
    OBVIOUS
  <2>2. \A i \in 1 .. Len(q0) : q0[i] \in F!Elements(q0)
    BY <2>1 DEF F!Elements
  <2>3. n \in F!Events
    BY <1>2
  <2> HIDE DEF n
  <2>4. Append(q0, n) \in Seq(F!Events) /\ Len(Append(q0, n)) = Len(q0) + 1 /\ Len(q0) \in Nat
    BY <2>3
  <2>5. \A i \in 1 .. Len(q0) : Append(q0, n)[i] = q0[i]
    BY <2>3
  <2>6. Append(q0, n)[Len(q0) + 1] = n
    BY <2>3
  <2>7. F!Elements(Append(q0, n)) = F!Elements(q0) \cup {n}
    BY <2>3, QueueAppend
  <2>8. QED
    BY <2>2, <2>4, <2>5, <2>6, <2>7
<1>6. /\ p.queue[c] = Append(q0, n) /\ \A d \in F!Channels \ {c} : p.queue[d] = r.queue[d]
      /\ p.count[k] = r.count[k] + 1 /\ \A l \in F!Keys \ {k} : p.count[l] = r.count[l]
      /\ F!Elements(p.queue[c]) = (F!Elements(q) \ Lost) \cup {n}
  BY <1>1, <1>2, <1>4, <1>5
<1>7. ASSUME NEW d \in F!Channels, NEW e \in F!Elements(r.queue[d])
      PROVE  e \in F!Events /\ e # n /\ e[1] \in F!Keys /\ e[2] \in Nat /\ e[2] <= r.count[e[1]]
  <2>1. e \in F!Events
    BY <1>1 DEF F!Elements
  <2>2. e[1] \in F!Keys /\ e[2] \in Nat
    BY <2>1 DEF F!Events
  <2>3. e[2] <= r.count[e[1]]
    BY <2>1 DEF FeedInv, PutIsSomewhere
  <2>4. QED
    BY <1>1, <2>1, <2>2, <2>3
<1>8. \A e \in F!Elements(q) : e[1] = k
  <2>1. ~Newly(m, c) => \A e \in F!Elements(r.queue[c]) : e[1] = k
    BY DEF FeedInv, OneKeyEach
  <2>2. QED
    BY <2>1
<1>9. FeedTypes(p, t, m)
  <2>1. \A d \in F!Channels : Len(p.queue[d]) <= MaxQueue
    <3>1. Len(p.queue[c]) <= MaxQueue
      BY <1>1, <1>4, <1>5, <1>6
    <3>2. QED
      BY <1>6, <3>1 DEF FeedInv, FeedTypes
  <2>2. QED
    BY <1>2, <2>1 DEF FeedInv, FeedTypes
<1>10. NewIsAlone(p, t, m)
  BY <1>2 DEF FeedInv, NewIsAlone
<1>11. OneKeyEach(p, t, m)
  <2>1. \A d \in F!Channels, l \in F!Keys : UsedFor(p, t, m, d, l) => UsedFor(r, t, m, d, l)
    BY <1>2 DEF UsedFor
  <2>2. \A e \in F!Elements(p.queue[c]) : e[1] = k
    BY <1>6, <1>8
  <2>3. \A l \in F!Keys : UsedFor(r, t, m, c, l) => l = k
    BY DEF FeedInv, OneKeyEach
  <2>4. ASSUME NEW d \in F!Channels, NEW l \in F!Keys, UsedFor(p, t, m, d, l)
        PROVE  /\ \A g \in F!Keys : UsedFor(p, t, m, d, g) => g = l
               /\ ~Newly(m, d) => \A e \in F!Elements(p.queue[d]) : e[1] = l
    <3>1. CASE d = c
      BY <2>1, <2>2, <2>3, <2>4, <3>1
    <3>2. CASE d # c
      <4>1. p.queue[d] = r.queue[d] /\ UsedFor(r, t, m, d, l)
        BY <1>6, <2>1, <2>4, <3>2
      <4>2. QED
        BY <2>1, <4>1 DEF FeedInv, OneKeyEach
    <3>3. QED
      BY <3>1, <3>2
  <2>5. QED
    BY <2>4 DEF OneKeyEach
<1>12. InPutOrder(p, t)
  <2>1. ASSUME NEW i \in 1 .. Len(p.queue[c]), NEW j \in 1 .. Len(p.queue[c]), i < j
        PROVE  p.queue[c][i][2] < p.queue[c][j][2]
    <3>1. i \in 1 .. Len(q0) /\ p.queue[c][i] = q0[i] /\ q0[i] \in F!Elements(q)
      BY <1>4, <1>5, <1>6, <2>1
    <3>2. CASE j \in 1 .. Len(q0)
      BY <1>4, <1>5, <1>6, <2>1, <3>1, <3>2
    <3>3. CASE j = Len(q0) + 1
      <4>1. q0[i][2] <= r.count[k] /\ q0[i][2] \in Nat
        BY <1>7, <1>8, <3>1
      <4>2. p.queue[c][j][2] = r.count[k] + 1
        BY <1>5, <1>6, <3>3
      <4>3. QED
        BY <1>1, <3>1, <4>1, <4>2
    <3>4. QED
      BY <1>5, <1>6, <3>2, <3>3
  <2>2. ASSUME NEW b \in Tabs, t[b].chan # Nil
        PROVE  /\ t[b].last <= p.count[t[b].key]
               /\ \A e \in F!Elements(p.queue[t[b].chan]) : t[b].last < e[2]
    <3>1. t[b].chan \in F!Channels /\ t[b].key \in F!Keys /\ t[b].last \in Nat
      BY <2>2 DEF FeedInv, FeedTypes, TabOK, TabRecord
    <3>2. t[b].last <= r.count[t[b].key] /\ \A e \in F!Elements(r.queue[t[b].chan]) : t[b].last < e[2]
      BY <2>2 DEF FeedInv, InPutOrder
    <3>3. r.count[t[b].key] \in Nat /\ t[b].last <= p.count[t[b].key]
      <4>1. r.count[t[b].key] \in Nat /\ p.count[t[b].key] \in {r.count[t[b].key], r.count[t[b].key] + 1}
        <5>1. r.count[t[b].key] \in Nat
          BY <1>1, <3>1
        <5>2. p.count[t[b].key] \in {r.count[t[b].key], r.count[t[b].key] + 1}
          BY <1>6, <3>1
        <5>3. QED
          BY <5>1, <5>2
      <4>2. QED
        BY <3>1, <3>2, <4>1
    <3>4. CASE t[b].chan = c
      <4>1. t[b].key = k
        <5>1. UsedFor(r, t, m, c, t[b].key)
          BY <3>4 DEF UsedFor
        <5>2. QED
          BY <3>1, <5>1 DEF FeedInv, OneKeyEach
      <4>2. t[b].last < n[2]
        BY <1>1, <3>1, <3>2, <4>1
      <4>3. QED
        BY <1>6, <3>2, <3>3, <3>4, <4>2
    <3>5. CASE t[b].chan # c
      BY <1>6, <3>1, <3>2, <3>3, <3>5
    <3>6. QED
      BY <3>4, <3>5
  <2>3. \A d \in F!Channels \ {c} : \A i, j \in 1 .. Len(p.queue[d]) :
          i < j => p.queue[d][i][2] < p.queue[d][j][2]
    BY <1>6 DEF FeedInv, InPutOrder
  <2>4. QED
    BY <2>1, <2>2, <2>3 DEF InPutOrder
<1>13. \A e \in F!Events : e[2] <= p.count[e[1]] <=> e[2] <= r.count[e[1]] \/ e = n
  <2>1. ASSUME NEW e \in F!Events PROVE e[2] <= p.count[e[1]] <=> e[2] <= r.count[e[1]] \/ e = n
    <3>1. e = <<e[1], e[2]>> /\ e[1] \in F!Keys /\ e[2] \in Nat /\ r.count[e[1]] \in Nat
      BY <1>1 DEF F!Events
    <3>2. QED
      BY <1>1, <1>6, <3>1
  <2>2. QED
    BY <2>1
<1>14. ~(n[2] <= r.count[n[1]])
  BY <1>1
<1>15. /\ \A d \in F!Channels : n \notin F!Elements(r.queue[d])
       /\ \A b \in Tabs : t[b].held # n
       /\ n \notin Ends(r)
  BY <1>2, <1>14 DEF FeedInv, PutIsSomewhere
<1>16. Ends(p) = Ends(r) \cup Lost
  BY <1>2, <1>4 DEF Ends
<1>17. PutIsSomewhere(p, t)
  <2>1. ASSUME NEW e \in F!Events
        PROVE  ((\E d \in F!Channels : e \in F!Elements(p.queue[d])) \/ e \in Ends(p))
                 <=> ((\E d \in F!Channels : e \in F!Elements(r.queue[d])) \/ e \in Ends(r) \/ e = n)
    BY <1>4, <1>6, <1>16
  <2>2. QED
    BY <1>13, <2>1 DEF FeedInv, PutIsSomewhere
<1>18. PlacesAreApart(p, t)
  <2>1. \A d \in F!Channels : F!Elements(p.queue[d]) = IF d = c THEN (F!Elements(q) \ Lost) \cup {n} ELSE F!Elements(r.queue[d])
    BY <1>6
  <2>2. /\ \A d, a \in F!Channels : \A e \in F!Elements(p.queue[d]) : e \in F!Elements(p.queue[a]) => d = a
        /\ \A d \in F!Channels : F!Elements(p.queue[d]) \cap Ends(p) = {}
    <3>1. /\ \A d, a \in F!Channels : \A e \in F!Elements(r.queue[d]) : e \in F!Elements(r.queue[a]) => d = a
          /\ \A d \in F!Channels : F!Elements(r.queue[d]) \cap Ends(r) = {}
          /\ Lost \subseteq F!Elements(r.queue[c])
      BY <1>4 DEF FeedInv, PlacesAreApart
    <3>2. ASSUME NEW d \in F!Channels, NEW a \in F!Channels, NEW e \in F!Elements(p.queue[d]), e \in F!Elements(p.queue[a])
          PROVE  d = a
      BY <1>15, <2>1, <3>1, <3>2
    <3>3. ASSUME NEW d \in F!Channels, NEW e \in F!Elements(p.queue[d]) PROVE e \notin Ends(r) /\ e \notin Lost
      BY <1>15, <2>1, <3>1, <3>3
    <3>4. QED
      BY <1>16, <3>2, <3>3
  <2>3. \A b \in Tabs : t[b].held \notin Ends(p) /\ \A d \in F!Channels : t[b].held \notin F!Elements(p.queue[d])
    BY <1>4, <1>15, <1>16, <2>1 DEF FeedInv, PlacesAreApart
  <2>4. p.sent \cap p.dropped = {} /\ p.sent \cap p.lost = {} /\ p.dropped \cap p.lost = {}
    BY <1>2, <1>4 DEF FeedInv, PlacesAreApart, Ends
  <2>5. QED
    BY <2>2, <2>3, <2>4 DEF FeedInv, PlacesAreApart
<1>19. QED
  BY <1>9, <1>10, <1>11, <1>12, <1>17, <1>18 DEF FeedInv

\* An emitter looks, is idle again, or takes the next key: it finds the channel
\* of its key, makes one that nothing refers to, or has none.
LEMMA EmitKeeps ==
  ASSUME NEW r, NEW t, NEW m, FeedInv(r, t, m), NEW h \in Threads, NEW x, EmitOK(x), Nil \notin F!Channels,
         \/ x.chan = Nil
         \/ x.new /\ NobodyHas(r, t, m, x.chan)
         \/ ~x.new /\ r.of[Head(x.todo)] = x.chan
  PROVE  FeedInv(r, t, [m EXCEPT ![h] = x])
<1> DEFINE n == [m EXCEPT ![h] = x]
<1>1. /\ DOMAIN m = Threads /\ n[h] = x /\ \A g \in Threads \ {h} : n[g] = m[g]
      /\ DOMAIN n = Threads
  BY DEF FeedInv, FeedTypes
<1>2. x.chan = Nil => ~x.new
  BY DEF EmitOK
<1>3. \A g \in Threads : m[g].new => m[g].chan # Nil
  BY DEF FeedInv, FeedTypes, EmitOK
<1>4. x.chan # Nil => x.chan \in F!Channels /\ Head(x.todo) \in F!Keys
  <2>1. x.chan # Nil => x.todo \in Seq(F!Keys) /\ x.todo # <<>> /\ x.chan \in F!Channels
    BY DEF EmitOK, EmitRecord
  <2>2. QED
    BY <2>1
<1> HIDE DEF n
<1>5. FeedTypes(r, t, n)
  BY <1>1 DEF FeedInv, FeedTypes
<1>6. NewIsAlone(r, t, n)
  <2>1. ASSUME NEW g \in Threads, n[g].new
        PROVE  /\ \A k \in F!Keys : r.of[k] # n[g].chan
               /\ \A b \in Tabs : t[b].chan # n[g].chan
               /\ \A f \in Threads : f # g => n[f].chan # n[g].chan
    <3>1. CASE g = h
      BY <1>1, <1>2, <2>1, <3>1 DEF NobodyHas
    <3>2. CASE g # h
      <4>1. m[g].new /\ n[g] = m[g] /\ m[g].chan # Nil
        BY <1>1, <1>3, <2>1, <3>2
      <4>2. x.chan # m[g].chan
        <5>1. CASE x.chan = Nil
          BY <4>1, <5>1
        <5>2. CASE x.chan # Nil /\ x.new /\ NobodyHas(r, t, m, x.chan)
          BY <5>2 DEF NobodyHas
        <5>3. CASE x.chan # Nil /\ ~x.new /\ r.of[Head(x.todo)] = x.chan
          BY <1>4, <4>1, <5>3 DEF FeedInv, NewIsAlone
        <5>4. QED
          BY <5>1, <5>2, <5>3
      <4>3. QED
        BY <1>1, <4>1, <4>2 DEF FeedInv, NewIsAlone
    <3>3. QED
      BY <3>1, <3>2
  <2>2. QED
    BY <2>1 DEF NewIsAlone
<1>7. OneKeyEach(r, t, n)
  <2>1. ASSUME NEW c \in F!Channels, NEW k \in F!Keys, UsedFor(r, t, n, c, k)
        PROVE  /\ \A l \in F!Keys : UsedFor(r, t, n, c, l) => l = k
               /\ ~Newly(n, c) => \A e \in F!Elements(r.queue[c]) : e[1] = k
    <3>1. CASE x.chan = c /\ x.new /\ NobodyHas(r, t, m, c)
      <4>1. \A l \in F!Keys : UsedFor(r, t, n, c, l) => l = Head(x.todo)
        BY <1>1, <3>1 DEF UsedFor, NobodyHas
      <4>2. Newly(n, c)
        BY <1>1, <3>1 DEF Newly
      <4>3. QED
        BY <2>1, <4>1, <4>2
    <3>2. CASE ~(x.chan = c /\ x.new)
      <4>1. \A l \in F!Keys : UsedFor(r, t, n, c, l) => UsedFor(r, t, m, c, l)
        BY <1>1, <3>2 DEF UsedFor
      <4>2. ~Newly(n, c) => ~Newly(m, c)
        <5>1. SUFFICES ASSUME ~Newly(n, c), Newly(m, c) PROVE FALSE
          OBVIOUS
        <5>2. m[h].new /\ m[h].chan = c
          BY <1>1, <5>1 DEF Newly
        <5>3. /\ \A l \in F!Keys : r.of[l] # c
              /\ \A b \in Tabs : t[b].chan # c
              /\ \A g \in Threads : g # h => m[g].chan # c
          BY <5>2 DEF FeedInv, NewIsAlone
        <5>4. x.chan = c
          BY <1>1, <2>1, <5>3 DEF UsedFor
        <5>5. QED
          BY <1>4, <3>2, <5>3, <5>4
      <4>3. QED
        BY <2>1, <4>1, <4>2 DEF FeedInv, OneKeyEach
    <3>3. QED
      BY <3>1, <3>2
  <2>2. QED
    BY <2>1 DEF OneKeyEach
<1>8. QED
  BY <1>5, <1>6, <1>7 DEF FeedInv, n

\* A stream opens on the channel of its key, goes on, or is gone, with no event
\* in hand.
LEMMA TabKeeps ==
  ASSUME NEW r, NEW t, NEW m, FeedInv(r, t, m), NEW b \in Tabs, NEW x, TabOK(x), Nil \notin F!Channels, MaxEvents \in Nat,
         x.held = Nil, t[b].held = Nil,
         \/ x.chan = Nil
         \/ r.of[x.key] = x.chan /\ x.last = 0
         \/ x.chan = t[b].chan /\ x.key = t[b].key /\ x.last = t[b].last
  PROVE  FeedInv(r, [t EXCEPT ![b] = x], m)
<1> DEFINE u == [t EXCEPT ![b] = x]
<1>1. /\ DOMAIN t = Tabs /\ u[b] = x /\ \A a \in Tabs \ {b} : u[a] = t[a]
      /\ DOMAIN u = Tabs
  BY DEF FeedInv, FeedTypes
<1>2. x.chan # Nil => x.key \in F!Keys /\ x.chan \in F!Channels
  BY DEF TabOK, TabRecord
<1>3. \A a \in Tabs : u[a].held = t[a].held
  BY <1>1
<1> HIDE DEF u
<1>4. FeedTypes(r, u, m)
  BY <1>1 DEF FeedInv, FeedTypes
<1>5. \A c \in F!Channels, k \in F!Keys : UsedFor(r, u, m, c, k) => UsedFor(r, t, m, c, k)
  BY <1>1, <1>2 DEF UsedFor
<1>6. NewIsAlone(r, u, m)
  <2>1. ASSUME NEW h \in Threads, m[h].new PROVE x.chan # m[h].chan
    <3>1. m[h].chan # Nil
      BY <2>1 DEF FeedInv, FeedTypes, EmitOK
    <3>2. QED
      BY <1>2, <2>1, <3>1 DEF FeedInv, NewIsAlone
  <2>2. QED
    BY <1>1, <2>1 DEF FeedInv, NewIsAlone
<1>7. OneKeyEach(r, u, m)
  BY <1>5 DEF FeedInv, OneKeyEach
<1>8. InPutOrder(r, u)
  <2>1. ASSUME x.chan # Nil
        PROVE  /\ x.last <= r.count[x.key]
               /\ \A e \in F!Elements(r.queue[x.chan]) : x.last < e[2]
    <3>1. CASE r.of[x.key] = x.chan /\ x.last = 0
      <4>1. r.count[x.key] \in Nat /\ \A e \in F!Elements(r.queue[x.chan]) : e[2] \in Nat \ {0}
        <5>1. r.count \in [F!Keys -> 0 .. MaxEvents] /\ r.queue \in [F!Channels -> Seq(F!Events)]
          BY DEF FeedInv, FeedTypes, F!Registry
        <5>2. \A e \in F!Elements(r.queue[x.chan]) : e \in F!Events
          BY <1>2, <2>1, <5>1 DEF F!Elements
        <5>3. \A e \in F!Events : e[2] \in Nat \ {0}
          BY DEF F!Events
        <5>4. QED
          BY <1>2, <2>1, <5>1, <5>2, <5>3
      <4>2. QED
        BY <3>1, <4>1
    <3>2. CASE x.chan = t[b].chan /\ x.key = t[b].key /\ x.last = t[b].last
      BY <2>1, <3>2 DEF FeedInv, InPutOrder
    <3>3. QED
      BY <2>1, <3>1, <3>2
  <2>2. QED
    BY <1>1, <2>1 DEF FeedInv, InPutOrder
<1>9. PutIsSomewhere(r, u)
  BY <1>3 DEF FeedInv, PutIsSomewhere
<1>10. PlacesAreApart(r, u)
  BY <1>3 DEF FeedInv, PlacesAreApart
<1>11. QED
  BY <1>4, <1>6, <1>7, <1>8, <1>9, <1>10 DEF FeedInv, u

\* The head of a channel's queue goes into the hand of a stream that waits.
LEMMA TakeEventKeeps ==
  ASSUME F!FeedAssumption, NEW r, NEW t, NEW m, FeedInv(r, t, m), NEW b \in Tabs, t[b].pc = "waiting",
         NEW q, q = r.queue[t[b].chan], q # <<>>
  PROVE  /\ FeedInv([r EXCEPT !.queue[t[b].chan] = Tail(q)],
                    [t EXCEPT ![b].pc = "sending", ![b].held = Head(q), ![b].last = Head(q)[2]], m)
         /\ Head(q)[2] > t[b].last
<1> DEFINE c == t[b].chan
           s == [r EXCEPT !.queue[t[b].chan] = Tail(q)]
           u == [t EXCEPT ![b].pc = "sending", ![b].held = Head(q), ![b].last = Head(q)[2]]
<1>1. /\ c \in F!Channels /\ t[b].key \in F!Keys /\ t[b].held = Nil /\ t[b].last \in Nat /\ t[b] \in TabRecord
      /\ c # Nil
  BY DEF FeedInv, FeedTypes, TabOK, TabRecord
<1>2. /\ r \in F!Registry /\ q \in Seq(F!Events)
      /\ r.count \in [F!Keys -> 0 .. MaxEvents] /\ r.queue \in [F!Channels -> Seq(F!Events)]
  BY <1>1 DEF FeedInv, FeedTypes, F!Registry
<1>3. \A i, j \in 1 .. Len(q) : i < j => q[i][2] < q[j][2]
  BY <1>1 DEF FeedInv, InPutOrder
<1>4. /\ Tail(q) \in Seq(F!Events) /\ Len(Tail(q)) = Len(q) - 1 /\ Len(q) \in Nat \ {0}
      /\ \A i \in 1 .. Len(q) - 1 : Tail(q)[i] = q[i + 1]
      /\ Head(q) \in F!Events /\ Head(q) \in F!Elements(q)
      /\ F!Elements(Tail(q)) = F!Elements(q) \ {Head(q)}
      /\ \A e \in F!Elements(Tail(q)) : Head(q)[2] < e[2]
  <2>1. /\ Tail(q) \in Seq(F!Events) /\ Len(Tail(q)) = Len(q) - 1 /\ Len(q) \in Nat \ {0}
        /\ \A i \in 1 .. Len(q) - 1 : Tail(q)[i] = q[i + 1]
        /\ Head(q) \in F!Events /\ Head(q) \in F!Elements(q)
    BY <1>2, QueueTail
  <2>2. /\ F!Elements(Tail(q)) = F!Elements(q) \ {Head(q)}
        /\ \A e \in F!Elements(Tail(q)) : Head(q)[2] < e[2]
    BY <1>2, <1>3, HeadLeaves
  <2>3. QED
    BY <2>1, <2>2
<1>5. Head(q)[2] \in 0 .. MaxEvents /\ Head(q)[2] \in Nat /\ Head(q)[1] \in F!Keys
  BY <1>4 DEF F!Events, F!FeedAssumption
<1>6. t[b].last < Head(q)[2] /\ Head(q)[1] = t[b].key /\ Head(q)[2] <= r.count[t[b].key]
  <2>1. UsedFor(r, t, m, c, t[b].key)
    BY <1>1 DEF UsedFor
  <2>2. ~Newly(m, c)
    BY DEF Newly, FeedInv, NewIsAlone
  <2>3. Head(q)[1] = t[b].key
    BY <1>1, <1>4, <2>1, <2>2 DEF FeedInv, OneKeyEach
  <2>4. Head(q)[2] <= r.count[Head(q)[1]]
    BY <1>1, <1>4 DEF FeedInv, PutIsSomewhere
  <2>5. t[b].last < Head(q)[2]
    BY <1>1, <1>4 DEF FeedInv, InPutOrder
  <2>6. QED
    BY <2>3, <2>4, <2>5
<1>7. /\ s.of = r.of /\ s.queue = [r.queue EXCEPT ![c] = Tail(q)] /\ s.count = r.count
      /\ s.dropped = r.dropped /\ s.lost = r.lost /\ s.sent = r.sent
      /\ s.queue[c] = Tail(q) /\ \A d \in F!Channels \ {c} : s.queue[d] = r.queue[d]
      /\ s \in F!Registry
  <2>1. [r.queue EXCEPT ![c] = Tail(q)] \in [F!Channels -> Seq(F!Events)]
    BY <1>2, <1>4
  <2>2. QED
    BY <1>1, <1>2, <2>1 DEF F!Registry
<1>8. /\ u[b].pc = "sending" /\ u[b].held = Head(q) /\ u[b].last = Head(q)[2]
      /\ u[b].chan = c /\ u[b].key = t[b].key /\ u[b] \in TabRecord
      /\ \A a \in Tabs \ {b} : u[a] = t[a]
      /\ DOMAIN u = Tabs
  BY <1>1, <1>4, <1>5 DEF FeedInv, FeedTypes, TabRecord
<1>9. Head(q) # Nil
  BY <1>4 DEF F!FeedAssumption
<1> HIDE DEF c, s, u
<1>10. \A d \in F!Channels : F!Elements(s.queue[d]) = IF d = c THEN F!Elements(q) \ {Head(q)} ELSE F!Elements(r.queue[d])
  BY <1>4, <1>7
<1>11. F!Elements(r.queue[c]) = F!Elements(q)
  BY DEF c
<1>12. FeedTypes(s, u, m)
  <2>1. \A d \in F!Channels : Len(s.queue[d]) <= MaxQueue
    <3>1. Len(q) <= MaxQueue /\ MaxQueue \in Nat
      BY <1>1 DEF FeedInv, FeedTypes, F!FeedAssumption, c
    <3>2. QED
      BY <1>4, <1>7, <3>1 DEF FeedInv, FeedTypes
  <2>2. TabOK(u[b])
    BY <1>1, <1>8, <1>9 DEF TabOK, FeedInv, FeedTypes
  <2>3. QED
    BY <1>7, <1>8, <2>1, <2>2 DEF FeedInv, FeedTypes
<1>13. \A d \in F!Channels, k \in F!Keys : UsedFor(s, u, m, d, k) => UsedFor(r, t, m, d, k)
  BY <1>7, <1>8 DEF UsedFor, c
<1>14. NewIsAlone(s, u, m)
  BY <1>7, <1>8 DEF FeedInv, NewIsAlone, c
<1>15. OneKeyEach(s, u, m)
  <2>1. \A d \in F!Channels : F!Elements(s.queue[d]) \subseteq F!Elements(r.queue[d])
    BY <1>10, <1>11
  <2>2. QED
    BY <1>13, <2>1 DEF FeedInv, OneKeyEach
<1>16. InPutOrder(s, u)
  <2>1. ASSUME NEW i \in 1 .. Len(Tail(q)), NEW j \in 1 .. Len(Tail(q)), i < j
        PROVE  Tail(q)[i][2] < Tail(q)[j][2]
    <3>1. Len(Tail(q)) = Len(q) - 1 /\ Len(q) \in Nat \ {0}
      BY <1>4
    <3>2. i \in 1 .. Len(q) - 1 /\ j \in 1 .. Len(q) - 1
      BY <2>1, <3>1
    <3>3. i + 1 \in 1 .. Len(q) /\ j + 1 \in 1 .. Len(q) /\ i + 1 < j + 1
      BY <2>1, <3>1, <3>2
    <3>4. Tail(q)[i] = q[i + 1] /\ Tail(q)[j] = q[j + 1]
      BY <1>4, <3>2, Zenon
    <3>5. QED
      BY <1>3, <3>3, <3>4
  <2>2. ASSUME NEW a \in Tabs, u[a].chan # Nil
        PROVE  /\ u[a].last <= s.count[u[a].key]
               /\ \A e \in F!Elements(s.queue[u[a].chan]) : u[a].last < e[2]
    <3>1. CASE a = b
      BY <1>4, <1>6, <1>7, <1>8, <3>1
    <3>2. CASE a # b
      <4>1. u[a] = t[a] /\ t[a].chan \in F!Channels
        BY <1>8, <2>2, <3>2 DEF FeedInv, FeedTypes, TabOK, TabRecord
      <4>2. QED
        BY <1>7, <1>10, <1>11, <2>2, <4>1 DEF FeedInv, InPutOrder
    <3>3. QED
      BY <3>1, <3>2
  <2>3. QED
    BY <1>7, <2>1, <2>2 DEF FeedInv, InPutOrder
<1>17. PutIsSomewhere(s, u)
  <2>1. ASSUME NEW e \in F!Events
        PROVE  ((\E d \in F!Channels : e \in F!Elements(s.queue[d])) \/ \E a \in Tabs : u[a].held = e)
                 <=> ((\E d \in F!Channels : e \in F!Elements(r.queue[d])) \/ \E a \in Tabs : t[a].held = e)
    <3>1. e # Nil
      BY DEF F!FeedAssumption
    <3>2. (\E a \in Tabs : u[a].held = e) <=> e = Head(q) \/ \E a \in Tabs : t[a].held = e
      BY <1>1, <1>8, <3>1
    <3>3. (\E d \in F!Channels : e \in F!Elements(r.queue[d]))
            <=> e = Head(q) \/ \E d \in F!Channels : e \in F!Elements(s.queue[d])
      <4>1. c \in F!Channels
        BY <1>1 DEF c
      <4>2. QED
        BY <1>4, <1>10, <1>11, <4>1
    <3>4. QED
      BY <3>2, <3>3
  <2>2. Ends(s) = Ends(r)
    BY <1>7 DEF Ends
  <2>3. QED
    BY <1>7, <2>1, <2>2 DEF FeedInv, PutIsSomewhere
<1>18. PlacesAreApart(s, u)
  <2>1. Ends(s) = Ends(r) /\ c \in F!Channels
    BY <1>1, <1>7 DEF Ends, c
  <2>2. /\ \A a \in Tabs : t[a].held # Head(q)
        /\ Head(q) \notin Ends(r)
        /\ \A d \in F!Channels : Head(q) \in F!Elements(r.queue[d]) => d = c
    <3>1. Head(q) \in F!Elements(r.queue[c])
      BY <1>4, <1>11
    <3>2. \A a \in Tabs : t[a].held # Head(q)
      BY <2>1, <3>1 DEF FeedInv, PlacesAreApart
    <3>3. Head(q) \notin Ends(r)
      BY <2>1, <3>1 DEF FeedInv, PlacesAreApart
    <3>4. \A d \in F!Channels : Head(q) \in F!Elements(r.queue[d]) => d = c
      BY <2>1, <3>1 DEF FeedInv, PlacesAreApart
    <3>5. QED
      BY <3>2, <3>3, <3>4
  <2>3. /\ \A d, a \in F!Channels : \A e \in F!Elements(s.queue[d]) : e \in F!Elements(s.queue[a]) => d = a
        /\ \A d \in F!Channels : F!Elements(s.queue[d]) \cap Ends(s) = {}
    BY <1>10, <1>11, <2>1 DEF FeedInv, PlacesAreApart
  <2>4. \A a, d \in Tabs : u[a].held # Nil /\ u[a].held = u[d].held => a = d
    BY <1>8, <2>2 DEF FeedInv, PlacesAreApart
  <2>5. \A a \in Tabs : u[a].held \notin Ends(s) /\ \A d \in F!Channels : u[a].held \notin F!Elements(s.queue[d])
    BY <1>8, <1>10, <1>11, <2>1, <2>2 DEF FeedInv, PlacesAreApart
  <2>6. QED
    BY <1>7, <2>3, <2>4, <2>5 DEF FeedInv, PlacesAreApart
<1>19. QED
  BY <1>6, <1>12, <1>14, <1>15, <1>16, <1>17, <1>18 DEF FeedInv, s, u

\* The event in the hand of a stream is sent, or lost with its client.
LEMMA HandOverKeeps ==
  ASSUME NEW r, NEW t, NEW m, FeedInv(r, t, m), NEW b \in Tabs, t[b].pc = "sending",
         NEW s \in F!Registry, s.of = r.of, s.queue = r.queue, s.count = r.count, s.dropped = r.dropped,
         \/ s.sent = r.sent \cup {t[b].held} /\ s.lost = r.lost
         \/ s.sent = r.sent /\ s.lost = r.lost \cup {t[b].held},
         Nil \notin F!Events
  PROVE  FeedInv(s, [t EXCEPT ![b].pc = "waiting", ![b].held = Nil], m)
<1> DEFINE u == [t EXCEPT ![b].pc = "waiting", ![b].held = Nil]
           e0 == t[b].held
<1>1. /\ DOMAIN t = Tabs /\ DOMAIN u = Tabs /\ TabOK(t[b]) /\ e0 \in F!Events
      /\ e0 # Nil /\ e0 \in F!Events
  BY DEF FeedInv, FeedTypes, TabOK, TabRecord
<1>2. /\ u[b].pc = "waiting" /\ u[b].held = Nil /\ u[b].chan = t[b].chan /\ u[b].key = t[b].key /\ u[b].last = t[b].last
      /\ \A a \in Tabs \ {b} : u[a] = t[a]
      /\ TabOK(u[b])
  BY <1>1 DEF TabOK, TabRecord
<1>3. \A a \in Tabs : u[a].chan = t[a].chan /\ u[a].key = t[a].key /\ u[a].last = t[a].last
  BY <1>2
<1>4. Ends(s) = Ends(r) \cup {e0}
  BY DEF Ends
<1> HIDE DEF u
<1>5. FeedTypes(s, u, m)
  BY <1>1, <1>2 DEF FeedInv, FeedTypes
<1>6. NewIsAlone(s, u, m)
  BY <1>3 DEF FeedInv, NewIsAlone
<1>7. OneKeyEach(s, u, m)
  <2>1. \A d \in F!Channels, k \in F!Keys : UsedFor(s, u, m, d, k) => UsedFor(r, t, m, d, k)
    BY <1>3 DEF UsedFor
  <2>2. QED
    BY <2>1 DEF FeedInv, OneKeyEach
<1>8. InPutOrder(s, u)
  BY <1>3 DEF FeedInv, InPutOrder
<1>9. PutIsSomewhere(s, u)
  <2>1. ASSUME NEW e \in F!Events
        PROVE  (\E a \in Tabs : u[a].held = e) \/ e \in Ends(s) <=> (\E a \in Tabs : t[a].held = e) \/ e \in Ends(r)
    BY <1>1, <1>2, <1>4
  <2>2. QED
    BY <2>1 DEF FeedInv, PutIsSomewhere
<1>10. PlacesAreApart(s, u)
  <2>1. /\ \A d \in F!Channels : e0 \notin F!Elements(r.queue[d])
        /\ e0 \notin Ends(r)
        /\ \A a \in Tabs : a # b => t[a].held # e0
    BY <1>1 DEF FeedInv, PlacesAreApart
  <2>2. \A a, d \in Tabs : u[a].held # Nil /\ u[a].held = u[d].held => a = d
    BY <1>2 DEF FeedInv, PlacesAreApart
  <2>3. Nil \notin Ends(s) /\ \A d \in F!Channels : Nil \notin F!Elements(s.queue[d])
    <3>1. Ends(s) \subseteq F!Events
      BY DEF Ends, F!Registry
    <3>2. \A d \in F!Channels : F!Elements(s.queue[d]) \subseteq F!Events
      BY DEF F!Elements, F!Registry
    <3>3. QED
      BY <3>1, <3>2
  <2>4. \A a \in Tabs : u[a].held \notin Ends(s) /\ \A d \in F!Channels : u[a].held \notin F!Elements(s.queue[d])
    BY <1>2, <1>4, <2>1, <2>3 DEF FeedInv, PlacesAreApart
  <2>5. /\ \A d \in F!Channels : F!Elements(s.queue[d]) \cap Ends(s) = {}
        /\ s.sent \cap s.dropped = {} /\ s.sent \cap s.lost = {} /\ s.dropped \cap s.lost = {}
    BY <1>4, <2>1 DEF FeedInv, PlacesAreApart, Ends
  <2>6. QED
    BY <2>2, <2>4, <2>5 DEF FeedInv, PlacesAreApart
<1>11. QED
  BY <1>5, <1>6, <1>7, <1>8, <1>9, <1>10 DEF FeedInv, u

-----------------------------------------------------------------------------
(* Subscriptions.                                                          *)

Watching(t, k) == {b \in Tabs : t[b].key = k}

Started(t) == {b \in Tabs : t[b].pc # "idle"}

CountsBounded(r, t) == \A c \in F!Channels : r.watchers[c] <= Cardinality(Started(t))

\* Streams are on the registered channel, whose count they are, with the leaked.
CountsExact(r, t) ==
  /\ \A k \in F!Keys, b \in Tabs : t[b].key = k => t[b].chan = r.of[k]
  /\ \A k \in F!Keys : r.of[k] # Nil => r.watchers[r.of[k]] = Cardinality(Watching(t, k)) + r.leaked[r.of[k]]

\* For the keys other than those of K, no idle channel is registered.
NoneIdleBut(r, but) ==
  \A k \in F!Keys \ but : r.of[k] # Nil /\ r.queue[r.of[k]] = <<>> => r.watchers[r.of[k]] > 0

FeedsInv ==
  /\ FeedInv(reg, tab, emit) /\ raced \in BOOLEAN /\ CountsBounded(reg, tab)
  /\ ~raced => CountsExact(reg, tab) /\ NoneIdleBut(reg, {})

LEMMA WatchingIsFinite ==
  ASSUME F!FeedAssumption, NEW t, NEW k
  PROVE  /\ IsFiniteSet(Watching(t, k)) /\ Cardinality(Watching(t, k)) \in Nat
         /\ IsFiniteSet(Started(t)) /\ Cardinality(Started(t)) \in Nat
         /\ Cardinality(Started(t)) <= Cardinality(Tabs) /\ Cardinality(Tabs) \in Nat
<1>1. IsFiniteSet(Tabs)
  BY FeedFiniteness DEF F!FeedAssumption
<1>2. Watching(t, k) \in SUBSET Tabs /\ Started(t) \in SUBSET Tabs
  BY DEF Watching, Started
<1>3. IsFiniteSet(Watching(t, k)) /\ IsFiniteSet(Started(t)) /\ Cardinality(Started(t)) <= Cardinality(Tabs)
  BY <1>1, <1>2, FS_Subset
<1>4. QED
  BY <1>1, <1>3, FS_CardinalityType

\* Who watches is counted.
LEMMA WatcherCounts ==
  ASSUME F!FeedAssumption, NEW t, NEW k, NEW b \in Watching(t, k)
  PROVE  /\ Cardinality(Watching(t, k)) >= 1
         /\ Cardinality(Watching(t, k) \ {b}) = Cardinality(Watching(t, k)) - 1
<1>1. IsFiniteSet(Watching(t, k)) /\ Cardinality(Watching(t, k)) \in Nat
  BY WatchingIsFinite
<1>2. Cardinality(Watching(t, k) \ {b}) = Cardinality(Watching(t, k)) - 1 /\ IsFiniteSet(Watching(t, k) \ {b})
  BY <1>1, FS_RemoveElement
<1>3. Cardinality(Watching(t, k) \ {b}) \in Nat
  BY <1>2, FS_CardinalityType
<1>4. QED
  BY <1>1, <1>2, <1>3

\* A registered channel has one key.
LEMMA ChannelsDiffer ==
  ASSUME NEW r, NEW t, NEW m, FeedInv(r, t, m), NEW k \in F!Keys, NEW l \in F!Keys, r.of[k] # Nil
  PROVE  /\ r.of[k] \in F!Channels
         /\ r.of[l] = r.of[k] => l = k
         /\ \A b \in Tabs : t[b].chan = r.of[k] => t[b].key = k
<1>1. r.of[k] \in F!Channels
  BY DEF FeedInv, FeedTypes, F!Registry
<1>2. UsedFor(r, t, m, r.of[k], k)
  BY DEF UsedFor
<1>3. \A g \in F!Keys : UsedFor(r, t, m, r.of[k], g) => g = k
  BY <1>1, <1>2 DEF FeedInv, OneKeyEach
<1>4. ASSUME NEW b \in Tabs, t[b].chan = r.of[k] PROVE t[b].key = k
  <2>1. t[b].key \in F!Keys
    BY <1>4 DEF FeedInv, FeedTypes, TabOK, TabRecord
  <2>2. UsedFor(r, t, m, r.of[k], t[b].key)
    BY <1>4 DEF UsedFor
  <2>3. QED
    BY <1>3, <2>1, <2>2
<1>5. r.of[l] = r.of[k] => UsedFor(r, t, m, r.of[k], l)
  BY DEF UsedFor
<1>6. QED
  BY <1>1, <1>3, <1>4, <1>5

\* A channel stored for a key that had none has no streams and no count.
LEMMA StoreCounts ==
  ASSUME F!FeedAssumption, NEW r, NEW t, NEW m, FeedInv(r, t, m), NEW k \in F!Keys, NEW c \in F!Channels,
         NobodyHas(r, t, m, c), NEW s, s = F!Stored(r, k, c)
  PROVE  /\ CountsBounded(r, t) => CountsBounded(s, t)
         /\ NoneIdleBut(r, {}) => NoneIdleBut(s, {k})
         /\ r.of[k] = Nil /\ CountsExact(r, t) => CountsExact(s, t)
<1>1. r \in F!Registry
  BY DEF FeedInv, FeedTypes
<1>2. /\ s.of[k] = c /\ \A l \in F!Keys : l # k => s.of[l] = r.of[l]
      /\ s.queue[c] = <<>> /\ s.watchers[c] = 0 /\ s.leaked[c] = 0
      /\ \A d \in F!Channels : d # c =>
           s.queue[d] = r.queue[d] /\ s.watchers[d] = r.watchers[d] /\ s.leaked[d] = r.leaked[d]
  BY <1>1, StoredIs
<1>3. Cardinality(Started(t)) \in Nat
  BY WatchingIsFinite
<1>4. CountsBounded(r, t) => CountsBounded(s, t)
  BY <1>2, <1>3 DEF CountsBounded
<1>5. ASSUME NEW l \in F!Keys, l # k, s.of[l] # Nil
      PROVE  s.of[l] = r.of[l] /\ s.of[l] # c /\ s.of[l] \in F!Channels
  BY <1>1, <1>2, <1>5 DEF NobodyHas, F!Registry
<1>6. ASSUME NoneIdleBut(r, {}) PROVE NoneIdleBut(s, {k})
  <2>1. ASSUME NEW l \in F!Keys \ {k}, s.of[l] # Nil, s.queue[s.of[l]] = <<>> PROVE s.watchers[s.of[l]] > 0
    <3>1. /\ s.of[l] = r.of[l] /\ s.of[l] # c /\ s.of[l] \in F!Channels
      BY <1>5, <2>1
    <3>2. s.queue[s.of[l]] = r.queue[r.of[l]] /\ s.watchers[s.of[l]] = r.watchers[r.of[l]]
      BY <1>2, <3>1
    <3>3. \A g \in F!Keys : r.of[g] # Nil /\ r.queue[r.of[g]] = <<>> => r.watchers[r.of[g]] > 0
      BY <1>6 DEF NoneIdleBut
    <3>4. QED
      BY <2>1, <3>1, <3>2, <3>3
  <2>2. QED
    BY <2>1 DEF NoneIdleBut
<1>7. ASSUME r.of[k] = Nil, CountsExact(r, t) PROVE CountsExact(s, t)
  <2>1. \A b \in Tabs : t[b].key # k
    <3>1. ASSUME NEW b \in Tabs, t[b].key = k PROVE FALSE
      <4>1. t[b].chan = Nil
        BY <1>7, <3>1 DEF CountsExact
      <4>2. t[b].key = Nil
        BY <4>1 DEF FeedInv, FeedTypes, TabOK
      <4>3. QED
        BY <3>1, <4>2 DEF F!FeedAssumption
    <3>2. QED
      BY <3>1
  <2>2. Watching(t, k) = {}
    BY <2>1 DEF Watching
  <2>3. Cardinality(Watching(t, k)) = 0
    BY <2>2, FS_EmptySet
  <2>4. \A l \in F!Keys, b \in Tabs : t[b].key = l => t[b].chan = s.of[l]
    <3>1. ASSUME NEW l \in F!Keys, NEW b \in Tabs, t[b].key = l PROVE t[b].chan = s.of[l]
      <4>1. l # k /\ t[b].chan = r.of[l]
        BY <1>7, <2>1, <3>1 DEF CountsExact
      <4>2. QED
        BY <1>2, <4>1
    <3>2. QED
      BY <3>1
  <2>5. ASSUME NEW l \in F!Keys, s.of[l] # Nil
        PROVE  s.watchers[s.of[l]] = Cardinality(Watching(t, l)) + s.leaked[s.of[l]]
    <3>1. CASE l = k
      BY <1>2, <2>3, <3>1
    <3>2. CASE l # k
      <4>1. s.of[l] = r.of[l] /\ s.of[l] # c /\ s.of[l] \in F!Channels
        BY <1>5, <2>5, <3>2
      <4>2. s.watchers[s.of[l]] = r.watchers[r.of[l]] /\ s.leaked[s.of[l]] = r.leaked[r.of[l]]
        BY <1>2, <4>1
      <4>3. r.of[l] # Nil => r.watchers[r.of[l]] = Cardinality(Watching(t, l)) + r.leaked[r.of[l]]
        BY <1>7 DEF CountsExact
      <4>4. QED
        BY <2>5, <4>1, <4>2, <4>3
    <3>3. QED
      BY <3>1, <3>2
  <2>6. QED
    BY <2>4, <2>5 DEF CountsExact
<1>8. QED
  BY <1>4, <1>6, <1>7

\* A put leaves the counts alone, and its own channel is not idle.
LEMMA PushCounts ==
  ASSUME NEW r, NEW t, NEW m, FeedInv(r, t, m), NEW k \in F!Keys, NEW c \in F!Channels, NEW p, PutIs(p, r, k, c)
  PROVE  /\ CountsBounded(r, t) => CountsBounded(p, t)
         /\ CountsExact(r, t) => CountsExact(p, t)
         /\ r.of[k] = c /\ NoneIdleBut(r, {k}) /\ Nil \notin F!Channels => NoneIdleBut(p, {})
<1>1. /\ p.of = r.of /\ p.watchers = r.watchers /\ p.leaked = r.leaked
      /\ \A d \in F!Channels : d # c => p.queue[d] = r.queue[d]
  BY DEF PutIs
<1>2. p.queue[c] # <<>>
  <2>1. <<k, r.count[k] + 1>> \in F!Events /\ r.queue[c] \in Seq(F!Events)
    BY DEF PutIs, FeedInv, FeedTypes, F!Registry
  <2>2. ASSUME NEW q \in Seq(F!Events), NEW e \in F!Events PROVE Append(q, e) # <<>>
    <3>1. Len(Append(q, e)) = Len(q) + 1 /\ Len(q) \in Nat
      BY QueueAppend
    <3>2. Len(<<>>) = 0
      OBVIOUS
    <3>3. QED
      BY <3>1, <3>2
  <2>3. r.queue[c] # <<>> => Tail(r.queue[c]) \in Seq(F!Events)
    BY <2>1
  <2>4. QED
    BY <2>1, <2>2, <2>3 DEF PutIs
<1>3. ASSUME r.of[k] = c, NoneIdleBut(r, {k}), Nil \notin F!Channels PROVE NoneIdleBut(p, {})
  <2>1. ASSUME NEW l \in F!Keys, p.of[l] # Nil, p.queue[p.of[l]] = <<>> PROVE p.watchers[p.of[l]] > 0
    <3>1. p.of[l] # c /\ l # k
      BY <1>1, <1>2, <1>3, <2>1
    <3>2. p.of[l] \in F!Channels /\ p.of[l] = r.of[l]
      BY <1>1, <2>1 DEF FeedInv, FeedTypes, F!Registry
    <3>3. QED
      BY <1>1, <1>3, <2>1, <3>1, <3>2 DEF NoneIdleBut
  <2>2. QED
    BY <2>1 DEF NoneIdleBut
<1>4. QED
  BY <1>1, <1>3 DEF CountsBounded, CountsExact

\* The channel of k is there, or is made.
LEMMA EnsuredIs ==
  ASSUME F!FeedAssumption, FeedsInv, NEW k \in F!Keys, NEW s, s = F!Ensured(reg, k)
  PROVE  /\ FeedInv(s, tab, emit) /\ CountsBounded(s, tab)
         /\ ~raced => CountsExact(s, tab) /\ NoneIdleBut(s, {k})
         /\ s.of[k] \in F!Channels /\ UsedFor(s, tab, emit, s.of[k], k) /\ ~Newly(emit, s.of[k])
         /\ s.count = reg.count
<1>1. reg \in F!Registry /\ FeedTypes(reg, tab, emit)
  BY DEF FeedsInv, FeedInv, FeedTypes
<1>2. CASE reg.of[k] = Nil
  <2>1. F!FreeChannel \in F!Channels /\ NobodyHas(reg, tab, emit, F!FreeChannel)
    BY <1>1, FreeIsFree
  <2>2. s = F!Stored(reg, k, F!FreeChannel)
    BY <1>2 DEF F!Ensured
  <2>3. s.of[k] = F!FreeChannel /\ s.count = reg.count
    BY <1>1, <2>1, <2>2, StoredIs
  <2>4. FeedInv(s, tab, emit)
    BY <2>1, <2>2, StoreKeeps DEF FeedsInv
  <2>5. CountsBounded(s, tab) /\ (~raced => CountsExact(s, tab) /\ NoneIdleBut(s, {k}))
    BY <1>2, <2>1, <2>2, StoreCounts DEF FeedsInv
  <2>6. UsedFor(s, tab, emit, s.of[k], k) /\ ~Newly(emit, s.of[k])
    BY <2>1, <2>3 DEF UsedFor, Newly, NobodyHas
  <2>7. QED
    BY <2>1, <2>3, <2>4, <2>5, <2>6
<1>3. CASE reg.of[k] # Nil
  <2>1. s = reg
    BY <1>3 DEF F!Ensured
  <2>2. s.of[k] \in F!Channels
    BY <1>1, <1>3, <2>1 DEF F!Registry
  <2>3. UsedFor(s, tab, emit, s.of[k], k)
    BY DEF UsedFor
  <2>4. ~Newly(emit, s.of[k])
    BY <2>1 DEF FeedsInv, FeedInv, NewIsAlone, Newly
  <2>5. NoneIdleBut(reg, {}) => NoneIdleBut(reg, {k})
    BY DEF NoneIdleBut
  <2>6. QED
    BY <2>1, <2>2, <2>3, <2>4, <2>5 DEF FeedsInv
<1>4. QED
  BY <1>2, <1>3

-----------------------------------------------------------------------------
(* The steps.                                                              *)

LEMMA EmitOnLoopKeeps ==
  ASSUME F!FeedAssumption, FeedsInv, NEW k \in F!Keys, F!EmitOnLoop(k) PROVE FeedsInv'
<1> DEFINE s == F!Ensured(reg, k)
           c == s.of[k]
<1>1. /\ FeedInv(s, tab, emit) /\ CountsBounded(s, tab)
      /\ ~raced => CountsExact(s, tab) /\ NoneIdleBut(s, {k})
      /\ c \in F!Channels /\ UsedFor(s, tab, emit, c, k) /\ ~Newly(emit, c) /\ s.count = reg.count
  BY EnsuredIs
<1>2. reg' = F!Pushed(s, k, c) /\ UNCHANGED <<tab, emit, raced>>
  BY DEF F!EmitOnLoop, F!PutAtOnce
<1>3. Room(s, k)
  <2>1. reg.count[k] < MaxEvents
    BY DEF F!EmitOnLoop, F!MayPut
  <2>2. QED
    BY <1>1, <2>1 DEF Room
<1> HIDE DEF s, c
<1>4. PutIs(reg', s, k, c)
  <2>1. FeedTypes(s, tab, emit)
    BY <1>1 DEF FeedInv
  <2>2. QED
    BY <1>1, <1>2, <1>3, <2>1, PushedIs
<1>5. FeedInv(reg', tab, emit)
  BY <1>1, <1>4, PushKeeps
<1>6. CountsBounded(reg', tab) /\ (~raced => CountsExact(reg', tab) /\ NoneIdleBut(reg', {}))
  <2>1. Nil \notin F!Channels /\ s.of[k] = c
    BY DEF F!FeedAssumption, c
  <2>2. QED
    BY <1>1, <1>4, <2>1, PushCounts
<1>7. QED
  BY <1>2, <1>5, <1>6 DEF FeedsInv

LEMMA EmitInThreadKeeps ==
  ASSUME F!FeedAssumption, FeedsInv, NEW h \in Threads, NEW keys \in F!Targets, F!EmitInThread(h, keys) PROVE FeedsInv'
<1> DEFINE x == [F!IdleEmit EXCEPT !.pc = "look", !.todo = keys]
<1>1. emit' = [emit EXCEPT ![h] = x] /\ UNCHANGED <<reg, tab, raced>>
  BY DEF F!EmitInThread
<1>2. keys \in Seq(F!Keys) /\ keys # <<>>
  <2>1. CASE \E s \in Chats, u \in Viewers : keys = <<s, u>>
    BY <2>1 DEF F!Keys
  <2>2. CASE \E k \in F!Keys : keys = <<k>>
    BY <2>2
  <2>3. QED
    BY <2>1, <2>2 DEF F!Targets
<1>3. EmitOK(x) /\ x.chan = Nil
  BY <1>2 DEF EmitOK, EmitRecord, F!IdleEmit
<1> HIDE DEF x
<1>4. FeedInv(reg, tab, emit')
  BY <1>1, <1>3, EmitKeeps DEF FeedsInv, F!FeedAssumption
<1>5. QED
  BY <1>1, <1>4 DEF FeedsInv

LEMMA LookKeeps ==
  ASSUME F!FeedAssumption, FeedsInv, NEW h \in Threads, F!Look(h) PROVE FeedsInv'
<1> DEFINE k == Head(emit[h].todo)
           x == emit'[h]
<1>1. EmitOK(emit[h]) /\ emit[h].pc = "look" /\ reg \in F!Registry /\ DOMAIN emit = Threads
  BY DEF FeedsInv, FeedInv, FeedTypes, F!Look
<1>2. k \in F!Keys
  BY <1>1 DEF EmitOK, EmitRecord
<1>3. /\ emit' = [emit EXCEPT ![h] = x] /\ UNCHANGED <<reg, tab, raced>>
      /\ x.pc = "put" /\ x.todo = emit[h].todo /\ x.new = (reg.of[k] = Nil)
      /\ x.chan = IF reg.of[k] = Nil THEN F!FreeChannel ELSE reg.of[k]
      /\ x = [pc |-> x.pc, todo |-> x.todo, chan |-> x.chan, new |-> x.new]
  BY <1>1 DEF F!Look, EmitOK, EmitRecord
<1>4. F!FreeChannel \in F!Channels /\ NobodyHas(reg, tab, emit, F!FreeChannel)
  BY FreeIsFree DEF FeedsInv, FeedInv
<1>5. Nil \notin F!Channels
  BY DEF F!FeedAssumption
<1>6. x.chan \in F!Channels /\ x.new \in BOOLEAN
  BY <1>1, <1>2, <1>3, <1>4 DEF F!Registry
<1>7. EmitOK(x)
  BY <1>1, <1>3, <1>5, <1>6 DEF EmitOK, EmitRecord
<1>8. \/ x.new /\ NobodyHas(reg, tab, emit, x.chan)
      \/ ~x.new /\ reg.of[Head(x.todo)] = x.chan
  BY <1>3, <1>4
<1> HIDE DEF x
<1>9. FeedInv(reg, tab, [emit EXCEPT ![h] = x])
  BY <1>5, <1>7, <1>8, EmitKeeps DEF FeedsInv
<1>10. QED
  BY <1>3, <1>9 DEF FeedsInv

LEMMA PutFoundKeeps ==
  ASSUME F!FeedAssumption, FeedsInv, NEW h \in Threads, F!PutFound(h) PROVE FeedsInv'
<1> DEFINE k == Head(emit[h].todo)
           c == emit[h].chan
           rest == Tail(emit[h].todo)
           x == IF rest = <<>> THEN F!IdleEmit ELSE [F!IdleEmit EXCEPT !.pc = "look", !.todo = rest]
           base == IF emit[h].new THEN F!Stored(reg, k, c) ELSE reg
<1>1. EmitOK(emit[h]) /\ emit[h].pc = "put" /\ reg \in F!Registry /\ DOMAIN emit = Threads
  BY DEF FeedsInv, FeedInv, FeedTypes, F!PutFound
<1>2. k \in F!Keys /\ c \in F!Channels /\ rest \in Seq(F!Keys) /\ Nil \notin F!Channels
  BY <1>1 DEF EmitOK, EmitRecord, F!FeedAssumption
<1>3. /\ reg' = F!Pushed(base, k, c) /\ emit' = [emit EXCEPT ![h] = x] /\ UNCHANGED tab
      /\ raced' \in BOOLEAN
      /\ ~raced' => ~raced /\ IF emit[h].new THEN reg.of[k] = Nil ELSE reg.of[k] = c
  BY <1>1 DEF F!PutFound, FeedsInv
<1>4. reg.count[k] < MaxEvents
  BY DEF F!PutFound, F!MayPut
<1>5. EmitOK(x) /\ x.chan = Nil /\ ~x.new
  BY <1>2 DEF EmitOK, EmitRecord, F!IdleEmit
<1> HIDE DEF x, base
<1>6. FeedInv(reg, tab, emit')
  BY <1>2, <1>3, <1>5, EmitKeeps DEF FeedsInv
<1>7. CASE emit[h].new
  <2>1. NobodyHas(reg, tab, emit', c)
    <3>1. /\ \A l \in F!Keys : reg.of[l] # c
          /\ \A b \in Tabs : tab[b].chan # c
          /\ \A g \in Threads : g # h => emit[g].chan # c
      BY <1>7 DEF FeedsInv, FeedInv, NewIsAlone
    <3>2. emit'[h] = x /\ \A g \in Threads : g # h => emit'[g] = emit[g]
      BY <1>1, <1>3
    <3>3. \A g \in Threads : emit'[g].chan # c
      BY <1>2, <1>5, <3>1, <3>2
    <3>4. QED
      BY <3>1, <3>3 DEF NobodyHas
  <2>2. base = F!Stored(reg, k, c)
    BY <1>7 DEF base
  <2>3. FeedInv(base, tab, emit')
    BY <1>2, <1>6, <2>1, <2>2, StoreKeeps
  <2>4. /\ CountsBounded(base, tab) /\ (NoneIdleBut(reg, {}) => NoneIdleBut(base, {k}))
        /\ reg.of[k] = Nil /\ CountsExact(reg, tab) => CountsExact(base, tab)
    <3> HIDE DEF k, c
    <3>1. /\ CountsBounded(reg, tab) => CountsBounded(base, tab)
          /\ NoneIdleBut(reg, {}) => NoneIdleBut(base, {k})
          /\ reg.of[k] = Nil /\ CountsExact(reg, tab) => CountsExact(base, tab)
      BY <1>2, <1>6, <2>1, <2>2, StoreCounts
    <3>2. CountsBounded(reg, tab)
      BY DEF FeedsInv
    <3>3. QED
      BY <3>1, <3>2
  <2>5. base.of[k] = c /\ base.count = reg.count
    BY <1>1, <1>2, <2>2, StoredIs
  <2>6. UsedFor(base, tab, emit', c, k) /\ ~Newly(emit', c)
    BY <2>1, <2>5 DEF UsedFor, Newly, NobodyHas
  <2>7. Room(base, k)
    BY <1>4, <2>5 DEF Room
  <2> HIDE DEF k, c
  <2>8. PutIs(reg', base, k, c)
    <3>1. FeedTypes(base, tab, emit')
      BY <2>3 DEF FeedInv
    <3>2. QED
      BY <1>2, <1>3, <2>7, <3>1, PushedIs
  <2>9. FeedInv(reg', tab, emit')
    BY <1>2, <2>3, <2>6, <2>8, PushKeeps
  <2>10. /\ CountsBounded(reg', tab)
         /\ ~raced' => CountsExact(reg', tab) /\ NoneIdleBut(reg', {})
    <3>1. /\ CountsBounded(base, tab) => CountsBounded(reg', tab)
          /\ CountsExact(base, tab) => CountsExact(reg', tab)
          /\ base.of[k] = c /\ NoneIdleBut(base, {k}) => NoneIdleBut(reg', {})
      BY <1>2, <2>3, <2>8, PushCounts
    <3>2. QED
      BY <1>3, <1>7, <2>4, <2>5, <3>1 DEF FeedsInv
  <2>11. QED
    BY <1>3, <2>9, <2>10 DEF FeedsInv
<1>8. CASE ~emit[h].new
  <2>1. base = reg
    BY <1>8 DEF base
  <2>2. UsedFor(reg, tab, emit, c, k)
    BY DEF UsedFor
  <2>3. ~Newly(emit, c)
    BY <1>8 DEF Newly, FeedsInv, FeedInv, NewIsAlone
  <2>4. Room(reg, k)
    BY <1>4 DEF Room
  <2> HIDE DEF k, c
  <2>5. PutIs(reg', reg, k, c)
    <3>1. FeedTypes(reg, tab, emit)
      BY DEF FeedsInv, FeedInv
    <3>2. QED
      BY <1>2, <1>3, <2>1, <2>4, <3>1, PushedIs
  <2>6. FeedInv(reg', tab, emit)
    BY <1>2, <2>2, <2>3, <2>5, PushKeeps DEF FeedsInv
  <2>7. FeedInv(reg', tab, emit')
    BY <1>2, <1>3, <1>5, <2>6, EmitKeeps
  <2>8. /\ CountsBounded(reg', tab)
        /\ ~raced' => CountsExact(reg', tab) /\ NoneIdleBut(reg', {})
    <3>1. /\ CountsBounded(reg, tab) => CountsBounded(reg', tab)
          /\ CountsExact(reg, tab) => CountsExact(reg', tab)
          /\ reg.of[k] = c /\ NoneIdleBut(reg, {k}) => NoneIdleBut(reg', {})
      BY <1>2, <2>5, PushCounts DEF FeedsInv
    <3>2. NoneIdleBut(reg, {}) => NoneIdleBut(reg, {k})
      BY DEF NoneIdleBut
    <3>3. QED
      BY <1>3, <1>8, <3>1, <3>2 DEF FeedsInv
  <2>9. QED
    BY <1>3, <2>7, <2>8 DEF FeedsInv
<1>9. QED
  BY <1>7, <1>8

\* A step of a stream that is not for starting starts it.
LEMMA StartedAfter ==
  ASSUME NEW t, NEW b \in Tabs, DOMAIN t = Tabs, NEW x, x.pc # "idle", NEW u, u = [t EXCEPT ![b] = x]
  PROVE  Started(u) = Started(t) \cup {b}
<1>1. u[b] = x /\ \A a \in Tabs : a # b => u[a] = t[a]
  OBVIOUS
<1>2. QED
  BY <1>1 DEF Started

Subscribes(b, k) ==
  /\ tab[b].pc = "idle"
  /\ reg' = F!Subscribed(reg, k)
  /\ tab' = [tab EXCEPT ![b] = [F!IdleTab EXCEPT !.pc = "opening", !.key = k, !.chan = reg'.of[k]]]
  /\ UNCHANGED <<emit, raced>>

LEMMA SubscribesKeeps ==
  ASSUME F!FeedAssumption, FeedsInv, NEW b \in Tabs, NEW k \in F!Keys, Subscribes(b, k) PROVE FeedsInv'
<1> DEFINE s == F!Ensured(reg, k)
           c == s.of[k]
           x == [F!IdleTab EXCEPT !.pc = "opening", !.key = k, !.chan = c]
<1>1. /\ FeedInv(s, tab, emit) /\ CountsBounded(s, tab)
      /\ ~raced => CountsExact(s, tab) /\ NoneIdleBut(s, {k})
      /\ c \in F!Channels
  BY EnsuredIs
<1>2. s \in F!Registry /\ DOMAIN tab = Tabs /\ TabOK(tab[b]) /\ tab[b].pc = "idle"
  BY <1>1 DEF FeedInv, FeedTypes, Subscribes
<1>3. tab[b].chan = Nil /\ tab[b].key = Nil /\ tab[b].held = Nil /\ Nil \notin F!Channels /\ Nil \notin F!Keys
      /\ MaxEvents \in Nat
  BY <1>2 DEF TabOK, F!FeedAssumption
<1>4. reg' = [s EXCEPT !.watchers[c] = @ + 1] /\ UNCHANGED <<emit, raced>>
  BY DEF Subscribes, F!Subscribed
<1> HIDE DEF s
<1>5. /\ reg' \in F!Registry /\ reg'.of = s.of /\ reg'.queue = s.queue /\ reg'.count = s.count
      /\ reg'.dropped = s.dropped /\ reg'.lost = s.lost /\ reg'.sent = s.sent /\ reg'.leaked = s.leaked
      /\ reg'.watchers[c] = s.watchers[c] + 1 /\ s.watchers[c] \in Nat
      /\ \A d \in F!Channels : d # c => reg'.watchers[d] = s.watchers[d]
  <2>1. s.watchers \in [F!Channels -> Nat]
    BY <1>2 DEF F!Registry
  <2> HIDE DEF c
  <2>2. /\ reg'.of = s.of /\ reg'.queue = s.queue /\ reg'.count = s.count
        /\ reg'.dropped = s.dropped /\ reg'.lost = s.lost /\ reg'.sent = s.sent /\ reg'.leaked = s.leaked
        /\ reg'.watchers = [s.watchers EXCEPT ![c] = @ + 1]
    BY <1>2, <1>4 DEF F!Registry
  <2>3. [s.watchers EXCEPT ![c] = @ + 1] \in [F!Channels -> Nat]
    BY <1>1, <2>1
  <2>4. reg' \in F!Registry
    BY <1>2, <1>4, <2>3 DEF F!Registry
  <2>5. QED
    BY <1>1, <2>1, <2>2, <2>4
<1>6. tab' = [tab EXCEPT ![b] = x]
  <2>1. reg'.of[k] = c
    BY <1>5
  <2>2. QED
    BY <2>1 DEF Subscribes
<1>7. /\ TabOK(x) /\ x.key = k /\ x.chan = c /\ x.held = Nil /\ x.last = 0 /\ x.pc = "opening"
  <2> HIDE DEF c
  <2>1. x.key = k /\ x.chan = c /\ x.held = Nil /\ x.last = 0 /\ x.pc = "opening"
    BY DEF F!IdleTab
  <2>2. x \in TabRecord
    <3>1. 0 \in 0 .. MaxEvents
      BY <1>3
    <3>2. F!IdleTab \in TabRecord
      BY <3>1 DEF TabRecord, F!IdleTab
    <3>3. ASSUME NEW y \in TabRecord PROVE [y EXCEPT !.pc = "opening", !.key = k, !.chan = c] \in TabRecord
      BY <1>1 DEF TabRecord
    <3>4. QED
      BY <3>2, <3>3
  <2>3. QED
    BY <1>1, <1>3, <2>1, <2>2 DEF TabOK
<1> HIDE DEF x, c
<1>8. s.of[k] = c
  BY DEF c
<1>9. FeedInv(reg', tab, emit)
  BY <1>1, <1>3, <1>5, LessKeeps
<1>10. FeedInv(reg', tab', emit)
  BY <1>3, <1>5, <1>6, <1>7, <1>8, <1>9, TabKeeps
<1>11. /\ tab'[b] = x /\ \A a \in Tabs : a # b => tab'[a] = tab[a]
       /\ Watching(tab', k) = Watching(tab, k) \cup {b}
       /\ \A l \in F!Keys : l # k => Watching(tab', l) = Watching(tab, l) \ {b}
       /\ Started(tab') = Started(tab) \cup {b}
  <2>1. tab'[b] = x /\ \A a \in Tabs : a # b => tab'[a] = tab[a]
    BY <1>2, <1>6
  <2>2. Started(tab') = Started(tab) \cup {b}
    <3>1. x.pc # "idle"
      BY <1>7
    <3>2. QED
      BY <1>2, <1>6, <3>1, StartedAfter
  <2>0. Watching(tab', k) = Watching(tab, k) \cup {b}
    BY <1>7, <2>1 DEF Watching
  <2>3. ASSUME NEW l \in F!Keys, l # k PROVE Watching(tab', l) = Watching(tab, l) \ {b}
    BY <1>7, <2>1, <2>3 DEF Watching
  <2>4. QED
    BY <2>0, <2>1, <2>2, <2>3
<1>12. /\ b \notin Started(tab) /\ \A l \in F!Keys : b \notin Watching(tab, l)
  BY <1>2, <1>3 DEF Started, Watching
<1>13. /\ IsFiniteSet(Started(tab)) /\ Cardinality(Started(tab)) \in Nat
       /\ IsFiniteSet(Watching(tab, k)) /\ Cardinality(Watching(tab, k)) \in Nat
  BY WatchingIsFinite
<1>14. /\ Cardinality(Started(tab')) = Cardinality(Started(tab)) + 1
       /\ Cardinality(Watching(tab', k)) = Cardinality(Watching(tab, k)) + 1
       /\ \A l \in F!Keys : l # k => Watching(tab', l) = Watching(tab, l)
  <2>1. Cardinality(Started(tab) \cup {b}) = Cardinality(Started(tab)) + 1
    BY <1>12, <1>13, FS_AddElement
  <2>2. Cardinality(Watching(tab, k) \cup {b}) = Cardinality(Watching(tab, k)) + 1
    BY <1>12, <1>13, FS_AddElement
  <2>3. QED
    BY <1>11, <1>12, <2>1, <2>2
<1>15. CountsBounded(reg', tab')
  <2>1. ASSUME NEW d \in F!Channels PROVE reg'.watchers[d] <= Cardinality(Started(tab')) 
    <3>1. s.watchers[d] <= Cardinality(Started(tab)) /\ s.watchers[d] \in Nat
      BY <1>1, <1>2 DEF CountsBounded, F!Registry
    <3>2. QED
      BY <1>5, <1>13, <1>14, <3>1
  <2>2. QED
    BY <2>1 DEF CountsBounded
<1>16. ASSUME NEW l \in F!Keys, l # k, s.of[l] # Nil
       PROVE  s.of[l] \in F!Channels /\ reg'.watchers[s.of[l]] = s.watchers[s.of[l]]
  <2>1. s.of[l] \in F!Channels /\ s.of[l] # c
    BY <1>1, <1>8, <1>16, ChannelsDiffer
  <2>2. QED
    BY <1>5, <2>1
<1>17. ASSUME ~raced PROVE CountsExact(reg', tab')
  <2>1. CountsExact(s, tab)
    BY <1>1, <1>17
  <2>2. ASSUME NEW l \in F!Keys, NEW a \in Tabs, tab'[a].key = l PROVE tab'[a].chan = reg'.of[l]
    <3>1. CASE a = b
      BY <1>5, <1>7, <1>8, <1>11, <2>2, <3>1
    <3>2. CASE a # b
      BY <1>5, <1>11, <2>1, <2>2, <3>2 DEF CountsExact
    <3>3. QED
      BY <3>1, <3>2
  <2>3. ASSUME NEW l \in F!Keys, reg'.of[l] # Nil
        PROVE  reg'.watchers[reg'.of[l]] = Cardinality(Watching(tab', l)) + reg'.leaked[reg'.of[l]]
    <3>1. s.of[l] # Nil => s.watchers[s.of[l]] = Cardinality(Watching(tab, l)) + s.leaked[s.of[l]]
      BY <2>1 DEF CountsExact
    <3>2. CASE l = k
      <4>1. s.leaked[c] \in Nat
        BY <1>1, <1>2, <1>8 DEF F!Registry
      <4>2. QED
        BY <1>5, <1>8, <1>13, <1>14, <2>3, <3>1, <3>2, <4>1
    <3>3. CASE l # k
      BY <1>5, <1>14, <1>16, <2>3, <3>1, <3>3
    <3>4. QED
      BY <3>2, <3>3
  <2>4. QED
    BY <2>2, <2>3 DEF CountsExact
<1>18. ASSUME ~raced PROVE NoneIdleBut(reg', {})
  <2>1. ASSUME NEW l \in F!Keys, reg'.of[l] # Nil, reg'.queue[reg'.of[l]] = <<>> PROVE reg'.watchers[reg'.of[l]] > 0
    <3>1. CASE l = k
      BY <1>5, <1>8, <3>1
    <3>2. CASE l # k
      <4>1. s.watchers[s.of[l]] > 0
        BY <1>1, <1>5, <1>18, <2>1, <3>2 DEF NoneIdleBut
      <4>2. QED
        BY <1>5, <1>16, <2>1, <3>2, <4>1
    <3>3. QED
      BY <3>1, <3>2
  <2>2. QED
    BY <2>1 DEF NoneIdleBut
<1>19. QED
  BY <1>4, <1>10, <1>15, <1>17, <1>18 DEF FeedsInv

LEMMA StreamKeeps ==
  ASSUME F!FeedAssumption, FeedsInv, NEW b \in Tabs, F!Stream(b) PROVE FeedsInv'
<1> DEFINE x == [tab[b] EXCEPT !.pc = "waiting"]
<1>1. TabOK(tab[b]) /\ tab[b].pc = "opening" /\ DOMAIN tab = Tabs
  BY DEF FeedsInv, FeedInv, FeedTypes, F!Stream
<1>2. tab' = [tab EXCEPT ![b] = x] /\ UNCHANGED <<reg, emit, raced>>
  BY DEF F!Stream
<1>3. /\ TabOK(x) /\ x.chan = tab[b].chan /\ x.key = tab[b].key /\ x.last = tab[b].last
      /\ x.held = Nil /\ tab[b].held = Nil /\ x.pc = "waiting"
  BY <1>1 DEF TabOK, TabRecord
<1> HIDE DEF x
<1>4. Nil \notin F!Channels /\ MaxEvents \in Nat
  BY DEF F!FeedAssumption
<1>5. FeedInv(reg, tab', emit)
  BY <1>2, <1>3, <1>4, TabKeeps DEF FeedsInv
<1>6. /\ tab'[b] = x /\ \A a \in Tabs : a # b => tab'[a] = tab[a]
      /\ \A k \in F!Keys : Watching(tab', k) = Watching(tab, k)
      /\ Started(tab') = Started(tab) \cup {b}
  <2>1. tab'[b] = x /\ \A a \in Tabs : a # b => tab'[a] = tab[a]
    BY <1>1, <1>2
  <2>2. \A k \in F!Keys : Watching(tab', k) = Watching(tab, k)
    BY <1>3, <2>1 DEF Watching
  <2>3. Started(tab') = Started(tab) \cup {b}
    <3>1. x.pc # "idle"
      BY <1>3
    <3>2. QED
      BY <1>1, <1>2, <3>1, StartedAfter
  <2>4. QED
    BY <2>1, <2>2, <2>3
<1>7. Started(tab') = Started(tab)
  BY <1>1, <1>6 DEF Started
<1>8. \A a \in Tabs : tab'[a].key = tab[a].key /\ tab'[a].chan = tab[a].chan
  BY <1>3, <1>6
<1>9. CountsBounded(reg, tab')
  BY <1>7 DEF FeedsInv, CountsBounded
<1>10. CountsExact(reg, tab) => CountsExact(reg, tab')
  BY <1>6, <1>8 DEF CountsExact
<1>11. QED
  BY <1>2, <1>5, <1>9, <1>10 DEF FeedsInv

LEMMA AbandonKeeps ==
  ASSUME F!FeedAssumption, FeedsInv, NEW b \in Tabs, F!Abandon(b) PROVE FeedsInv'
<1> DEFINE c == tab[b].chan
           k == tab[b].key
           x == [F!IdleTab EXCEPT !.pc = "gone"]
<1>1. TabOK(tab[b]) /\ tab[b].pc = "opening" /\ DOMAIN tab = Tabs /\ reg \in F!Registry /\ FeedInv(reg, tab, emit)
  BY DEF FeedsInv, FeedInv, FeedTypes, F!Abandon
<1>2. c \in F!Channels /\ k \in F!Keys /\ tab[b].held = Nil /\ Nil \notin F!Channels /\ Nil \notin F!Keys /\ MaxEvents \in Nat
  BY <1>1 DEF TabOK, TabRecord, F!FeedAssumption
<1>3. tab' = [tab EXCEPT ![b] = x] /\ reg' = [reg EXCEPT !.leaked[c] = @ + 1] /\ UNCHANGED <<emit, raced>>
  BY DEF F!Abandon
<1>4. TabOK(x) /\ x.chan = Nil /\ x.key = Nil /\ x.held = Nil /\ x.pc = "gone"
  BY <1>2 DEF TabOK, TabRecord, F!IdleTab
<1>5. /\ reg' \in F!Registry /\ reg'.of = reg.of /\ reg'.queue = reg.queue /\ reg'.count = reg.count
      /\ reg'.dropped = reg.dropped /\ reg'.lost = reg.lost /\ reg'.sent = reg.sent /\ reg'.watchers = reg.watchers
      /\ reg'.leaked[c] = reg.leaked[c] + 1 /\ reg.leaked[c] \in Nat
      /\ \A d \in F!Channels : d # c => reg'.leaked[d] = reg.leaked[d]
  <2>1. reg.leaked \in [F!Channels -> Nat]
    BY <1>1 DEF F!Registry
  <2> HIDE DEF c
  <2>2. /\ reg'.of = reg.of /\ reg'.queue = reg.queue /\ reg'.count = reg.count
        /\ reg'.dropped = reg.dropped /\ reg'.lost = reg.lost /\ reg'.sent = reg.sent /\ reg'.watchers = reg.watchers
        /\ reg'.leaked = [reg.leaked EXCEPT ![c] = @ + 1]
    BY <1>1, <1>3 DEF F!Registry
  <2>3. [reg.leaked EXCEPT ![c] = @ + 1] \in [F!Channels -> Nat]
    BY <1>2, <2>1
  <2>4. reg' \in F!Registry
    BY <1>1, <1>3, <2>3 DEF F!Registry
  <2>5. QED
    BY <1>2, <2>1, <2>2, <2>4
<1>6. b \in Watching(tab, k) /\ b \in Started(tab)
  BY <1>1 DEF Watching, Started
<1> HIDE DEF x
<1>7. FeedInv(reg', tab, emit)
  BY <1>1, <1>2, <1>5, LessKeeps
<1>8. FeedInv(reg', tab', emit)
  BY <1>2, <1>3, <1>4, <1>7, TabKeeps
<1>9. /\ tab'[b] = x /\ \A a \in Tabs : a # b => tab'[a] = tab[a]
      /\ \A l \in F!Keys : Watching(tab', l) = Watching(tab, l) \ {b}
      /\ Started(tab') = Started(tab)
  <2>1. tab'[b] = x /\ \A a \in Tabs : a # b => tab'[a] = tab[a]
    BY <1>1, <1>3
  <2>2. Started(tab') = Started(tab) \cup {b}
    <3>1. x.pc # "idle"
      BY <1>4
    <3>2. QED
      BY <1>1, <1>3, <3>1, StartedAfter
  <2>3. ASSUME NEW l \in F!Keys PROVE Watching(tab', l) = Watching(tab, l) \ {b}
    BY <1>2, <1>4, <2>1 DEF Watching
  <2>4. QED
    BY <1>6, <2>1, <2>2, <2>3
<1>10. CountsBounded(reg', tab')
  BY <1>5, <1>9 DEF FeedsInv, CountsBounded
<1>11. ASSUME ~raced PROVE CountsExact(reg', tab')
  <2>1. CountsExact(reg, tab)
    BY <1>11 DEF FeedsInv
  <2>2. reg.of[k] = c
    BY <1>2, <2>1 DEF CountsExact
  <2>3. ASSUME NEW l \in F!Keys, NEW a \in Tabs, tab'[a].key = l PROVE tab'[a].chan = reg'.of[l]
    <3>1. a # b
      BY <1>2, <1>4, <1>9, <2>3
    <3>2. QED
      BY <1>5, <1>9, <2>1, <2>3, <3>1 DEF CountsExact
  <2>4. ASSUME NEW l \in F!Keys, reg'.of[l] # Nil
        PROVE  reg'.watchers[reg'.of[l]] = Cardinality(Watching(tab', l)) + reg'.leaked[reg'.of[l]]
    <3>1. reg.of[l] # Nil => reg.watchers[reg.of[l]] = Cardinality(Watching(tab, l)) + reg.leaked[reg.of[l]]
      BY <2>1 DEF CountsExact
    <3>2. CASE l = k
      <4>1. /\ Cardinality(Watching(tab, k) \ {b}) = Cardinality(Watching(tab, k)) - 1
        BY <1>6, WatcherCounts
      <4>2. Cardinality(Watching(tab, k)) \in Nat
        BY WatchingIsFinite
      <4> HIDE DEF c, k
      <4>3. reg.watchers[c] = Cardinality(Watching(tab, k)) + reg.leaked[c]
        BY <1>5, <2>2, <2>4, <3>1, <3>2
      <4>4. Watching(tab', k) = Watching(tab, k) \ {b}
        BY <1>2, <1>9
      <4>5. QED
        BY <1>5, <2>2, <3>2, <4>1, <4>2, <4>3, <4>4
    <3>3. CASE l # k
      <4>1. reg.of[l] # c /\ reg.of[l] \in F!Channels
        BY <1>1, <1>2, <1>5, <2>2, <2>4, <3>3, ChannelsDiffer
      <4>2. Watching(tab', l) = Watching(tab, l)
        BY <1>9, <3>3 DEF Watching
      <4>3. QED
        BY <1>5, <2>4, <3>1, <4>1, <4>2
    <3>4. QED
      BY <3>2, <3>3
  <2>5. QED
    BY <2>3, <2>4 DEF CountsExact
<1>12. NoneIdleBut(reg, {}) => NoneIdleBut(reg', {})
  BY <1>5 DEF NoneIdleBut
<1>13. QED
  BY <1>3, <1>8, <1>10, <1>11, <1>12 DEF FeedsInv

LEMMA TakeStepKeeps ==
  ASSUME F!FeedAssumption, FeedsInv, NEW b \in Tabs, F!Take(b)
  PROVE  /\ FeedsInv'
         /\ tab'[b].held[2] > tab[b].last /\ \A a \in Tabs : a # b => tab'[a] = tab[a]
<1> DEFINE c == tab[b].chan
           k == tab[b].key
           q == reg.queue[c]
<1>1. /\ TabOK(tab[b]) /\ tab[b].pc = "waiting" /\ DOMAIN tab = Tabs /\ reg \in F!Registry /\ FeedInv(reg, tab, emit)
      /\ q # <<>>
  BY DEF FeedsInv, FeedInv, FeedTypes, F!Take
<1>2. c \in F!Channels /\ k \in F!Keys /\ Nil \notin F!Channels /\ Nil \notin F!Keys
  BY <1>1 DEF TabOK, TabRecord, F!FeedAssumption
<1>3. /\ reg' = [reg EXCEPT !.queue[c] = Tail(q)]
      /\ tab' = [tab EXCEPT ![b].pc = "sending", ![b].held = Head(q), ![b].last = Head(q)[2]]
      /\ UNCHANGED <<emit, raced>>
  BY DEF F!Take
<1>4. FeedInv(reg', tab', emit) /\ Head(q)[2] > tab[b].last
  BY <1>1, <1>3, TakeEventKeeps
<1>5. /\ tab'[b].held = Head(q) /\ tab'[b].pc = "sending"
      /\ tab'[b].key = tab[b].key /\ tab'[b].chan = tab[b].chan
      /\ \A a \in Tabs : a # b => tab'[a] = tab[a]
  BY <1>1, <1>3 DEF TabOK, TabRecord
<1>6. /\ reg'.of = reg.of /\ reg'.watchers = reg.watchers /\ reg'.leaked = reg.leaked
      /\ \A d \in F!Channels : d # c => reg'.queue[d] = reg.queue[d]
  BY <1>1, <1>2, <1>3 DEF F!Registry
<1> HIDE DEF q
<1>7. /\ \A a \in Tabs : tab'[a].key = tab[a].key /\ tab'[a].chan = tab[a].chan
      /\ \A l : Watching(tab', l) = Watching(tab, l)
      /\ Started(tab') = Started(tab)
  <2>1. \A a \in Tabs : tab'[a].key = tab[a].key /\ tab'[a].chan = tab[a].chan
    BY <1>5
  <2>2. Started(tab') = Started(tab)
    BY <1>1, <1>5 DEF Started
  <2>3. QED
    BY <2>1, <2>2 DEF Watching
<1>8. CountsBounded(reg', tab')
  BY <1>6, <1>7 DEF FeedsInv, CountsBounded
<1>9. CountsExact(reg, tab) => CountsExact(reg', tab')
  BY <1>6, <1>7 DEF CountsExact
<1>10. ASSUME ~raced PROVE NoneIdleBut(reg', {})
  <2>1. ASSUME NEW l \in F!Keys, reg'.of[l] # Nil, reg'.queue[reg'.of[l]] = <<>> PROVE reg'.watchers[reg'.of[l]] > 0
    <3>1. CASE reg.of[l] = c
      <4>1. k = l
        BY <1>1, <1>2, <3>1, ChannelsDiffer
      <4>2. b \in Watching(tab, l)
        BY <4>1 DEF Watching
      <4>3. Cardinality(Watching(tab, l)) >= 1 /\ Cardinality(Watching(tab, l)) \in Nat
        BY <4>2, WatcherCounts, WatchingIsFinite
      <4>4. reg.leaked[c] \in Nat
        BY <1>1, <1>2 DEF F!Registry
      <4>5. reg.watchers[c] = Cardinality(Watching(tab, l)) + reg.leaked[c]
        BY <1>2, <1>10, <3>1 DEF FeedsInv, CountsExact
      <4>6. QED
        BY <1>6, <3>1, <4>3, <4>4, <4>5
    <3>2. CASE reg.of[l] # c
      <4>1. reg.of[l] \in F!Channels
        BY <1>1, <1>6, <2>1 DEF F!Registry
      <4>2. QED
        BY <1>6, <1>10, <2>1, <3>2, <4>1 DEF FeedsInv, NoneIdleBut
    <3>3. QED
      BY <3>1, <3>2
  <2>2. QED
    BY <2>1 DEF NoneIdleBut
<1>11. QED
  BY <1>3, <1>4, <1>5, <1>8, <1>9, <1>10 DEF FeedsInv

LEMMA SendKeeps ==
  ASSUME F!FeedAssumption, FeedsInv, NEW b \in Tabs, F!Send(b)
  PROVE  FeedsInv' /\ tab'[b].held = Nil /\ \A a \in Tabs : a # b => tab'[a] = tab[a]
<1>1. TabOK(tab[b]) /\ tab[b].pc = "sending" /\ DOMAIN tab = Tabs /\ reg \in F!Registry /\ FeedInv(reg, tab, emit)
  BY DEF FeedsInv, FeedInv, FeedTypes, F!Send
<1>2. tab[b].held \in F!Events /\ Nil \notin F!Events
  BY <1>1 DEF TabOK, TabRecord, F!FeedAssumption
<1>3. /\ reg' = [reg EXCEPT !.sent = @ \cup {tab[b].held}]
      /\ tab' = [tab EXCEPT ![b].pc = "waiting", ![b].held = Nil] /\ UNCHANGED <<emit, raced>>
  BY DEF F!Send
<1>4. /\ reg' \in F!Registry /\ reg'.of = reg.of /\ reg'.queue = reg.queue /\ reg'.count = reg.count
      /\ reg'.dropped = reg.dropped /\ reg'.lost = reg.lost /\ reg'.sent = reg.sent \cup {tab[b].held}
      /\ reg'.watchers = reg.watchers /\ reg'.leaked = reg.leaked
  BY <1>1, <1>2, <1>3 DEF F!Registry
<1>5. FeedInv(reg', tab', emit)
  BY <1>1, <1>2, <1>3, <1>4, HandOverKeeps
<1>6. /\ tab'[b].held = Nil /\ tab'[b].pc = "waiting"
      /\ tab'[b].key = tab[b].key /\ tab'[b].chan = tab[b].chan
      /\ \A a \in Tabs : a # b => tab'[a] = tab[a]
  BY <1>1, <1>3 DEF TabOK, TabRecord
<1>7. /\ \A a \in Tabs : tab'[a].key = tab[a].key /\ tab'[a].chan = tab[a].chan
      /\ \A l : Watching(tab', l) = Watching(tab, l)
      /\ Started(tab') = Started(tab)
  <2>1. \A a \in Tabs : tab'[a].key = tab[a].key /\ tab'[a].chan = tab[a].chan
    BY <1>6
  <2>2. Started(tab') = Started(tab)
    BY <1>1, <1>6 DEF Started
  <2>3. QED
    BY <2>1, <2>2 DEF Watching
<1>8. CountsBounded(reg', tab')
  BY <1>4, <1>7 DEF FeedsInv, CountsBounded
<1>9. CountsExact(reg, tab) => CountsExact(reg', tab')
  BY <1>4, <1>7 DEF CountsExact
<1>10. NoneIdleBut(reg, {}) => NoneIdleBut(reg', {})
  BY <1>4 DEF NoneIdleBut
<1>11. QED
  BY <1>3, <1>5, <1>6, <1>8, <1>9, <1>10 DEF FeedsInv

\* One less, and never less than none.
LEMMA OneLess ==
  ASSUME NEW w \in Nat
  PROVE  /\ F!Max({0, w - 1}) \in Nat /\ F!Max({0, w - 1}) <= w
         /\ w >= 1 => F!Max({0, w - 1}) = w - 1
<1> DEFINE n == F!Max({0, w - 1})
<1>1. \E x \in {0, w - 1} : \A y \in {0, w - 1} : x >= y
  <2>1. CASE w = 0
    <3>1. 0 \in {0, w - 1} /\ \A y \in {0, w - 1} : 0 >= y
      BY <2>1
    <3>2. QED
      BY <3>1
  <2>2. CASE w # 0
    <3>1. w - 1 \in {0, w - 1} /\ \A y \in {0, w - 1} : w - 1 >= y
      BY <2>2
    <3>2. QED
      BY <3>1
  <2>3. QED
    BY <2>1, <2>2
<1>2. n \in {0, w - 1} /\ \A y \in {0, w - 1} : n >= y
  BY <1>1 DEF F!Max
<1> HIDE DEF n
<1>3. n \in Nat /\ n <= w /\ (w >= 1 => n = w - 1)
  BY <1>2
<1>4. QED
  BY <1>3 DEF n

\* unsubscribe: the channel of k counts one subscriber less, or goes.
UnsubscribedIs(p, r, k, n) ==
  /\ p \in F!Registry
  /\ p.queue = r.queue /\ p.count = r.count /\ p.dropped = r.dropped
  /\ p.lost = r.lost /\ p.sent = r.sent /\ p.leaked = r.leaked
  /\ \A l \in F!Keys : l # k => p.of[l] = r.of[l]
  /\ \A d \in F!Channels : d # r.of[k] => p.watchers[d] = r.watchers[d]
  /\ \/ r.of[k] = Nil /\ p.of[k] = Nil
     \/ r.of[k] # Nil /\ n = 0 /\ r.queue[r.of[k]] = <<>> /\ p.of[k] = Nil /\ p.watchers = r.watchers
     \/ /\ r.of[k] # Nil /\ ~(n = 0 /\ r.queue[r.of[k]] = <<>>)
        /\ p.of[k] = r.of[k] /\ p.watchers[r.of[k]] = n

LEMMA UnsubscribeIs ==
  ASSUME NEW r \in F!Registry, NEW k \in F!Keys, NEW p, p = F!Unsubscribed(r, k), Nil \notin F!Channels,
         NEW n, n = F!Max({0, r.watchers[r.of[k]] - 1})
  PROVE  UnsubscribedIs(p, r, k, n)
<1>1. CASE r.of[k] = Nil
  <2>1. p = r
    BY <1>1 DEF F!Unsubscribed
  <2>2. QED
    BY <1>1, <2>1 DEF UnsubscribedIs
<1>2. CASE r.of[k] # Nil
  <2> DEFINE c == r.of[k]
  <2>1. c \in F!Channels /\ r.of \in [F!Keys -> F!Channels \cup {Nil}] /\ r.watchers \in [F!Channels -> Nat]
    BY <1>2 DEF F!Registry
  <2>2. n \in Nat
    BY <2>1, OneLess
  <2>3. CASE n = 0 /\ r.queue[c] = <<>>
    <3>1. p = [r EXCEPT !.of[k] = Nil]
      BY <1>2, <2>3 DEF F!Unsubscribed
    <3>2. /\ p.of = [r.of EXCEPT ![k] = Nil] /\ p.queue = r.queue /\ p.count = r.count /\ p.dropped = r.dropped
          /\ p.lost = r.lost /\ p.sent = r.sent /\ p.leaked = r.leaked /\ p.watchers = r.watchers
      BY <3>1 DEF F!Registry
    <3>6. [r.of EXCEPT ![k] = Nil] \in [F!Keys -> F!Channels \cup {Nil}]
      BY <2>1
    <3>3. p \in F!Registry
      BY <3>1, <3>6 DEF F!Registry
    <3>4. p.of[k] = Nil /\ \A l \in F!Keys : l # k => p.of[l] = r.of[l]
      BY <2>1, <3>2
    <3>5. QED
      BY <1>2, <2>3, <3>2, <3>3, <3>4 DEF UnsubscribedIs
  <2>4. CASE ~(n = 0 /\ r.queue[c] = <<>>)
    <3>1. p = [r EXCEPT !.watchers[c] = n]
      BY <1>2, <2>4 DEF F!Unsubscribed
    <3> HIDE DEF c
    <3>2. /\ p.of = r.of /\ p.queue = r.queue /\ p.count = r.count /\ p.dropped = r.dropped
          /\ p.lost = r.lost /\ p.sent = r.sent /\ p.leaked = r.leaked /\ p.watchers = [r.watchers EXCEPT ![c] = n]
      BY <3>1 DEF F!Registry
    <3>6. [r.watchers EXCEPT ![c] = n] \in [F!Channels -> Nat]
      BY <2>1, <2>2
    <3>3. p \in F!Registry
      BY <3>1, <3>6 DEF F!Registry
    <3>4. p.watchers[c] = n /\ \A d \in F!Channels : d # c => p.watchers[d] = r.watchers[d]
      BY <2>1, <3>2
    <3>5. QED
      BY <1>2, <2>4, <3>2, <3>3, <3>4 DEF UnsubscribedIs, c
  <2>5. QED
    BY <2>3, <2>4
<1>3. QED
  BY <1>1, <1>2

\* Leaving is handing over what is in hand, unsubscribing, and going.
LEMMA LeaveKeepsFeeds ==
  ASSUME F!FeedAssumption, FeedsInv, NEW b \in Tabs, NEW x, TabOK(x), x.chan = Nil, x.held = Nil,
         tab[b].pc \in {"waiting", "sending"}, NEW s \in F!Registry,
         \A k \in F!Keys : s.of[k] \in {reg.of[k], Nil},
         s.queue = reg.queue, s.count = reg.count, s.dropped = reg.dropped, s.sent = reg.sent,
         s.lost = IF tab[b].pc = "sending" THEN reg.lost \cup {tab[b].held} ELSE reg.lost
  PROVE  FeedInv(s, [tab EXCEPT ![b] = x], emit)
<1>1. TabOK(tab[b]) /\ DOMAIN tab = Tabs /\ reg \in F!Registry /\ FeedInv(reg, tab, emit)
  BY DEF FeedsInv, FeedInv, FeedTypes
<1>2. Nil \notin F!Channels /\ Nil \notin F!Events /\ MaxEvents \in Nat
  BY DEF F!FeedAssumption
<1>3. CASE tab[b].pc = "waiting"
  <2>1. s.lost = reg.lost /\ tab[b].held = Nil
    BY <1>1, <1>3 DEF TabOK
  <2>2. FeedInv(s, tab, emit)
    BY <1>1, <1>2, <2>1, LessKeeps
  <2>3. QED
    BY <1>2, <2>1, <2>2, TabKeeps
<1>4. CASE tab[b].pc = "sending"
  <2> DEFINE h == [reg EXCEPT !.lost = @ \cup {tab[b].held}]
             u == [tab EXCEPT ![b].pc = "waiting", ![b].held = Nil]
  <2>1. tab[b].held \in F!Events
    BY <1>1, <1>4 DEF TabOK, TabRecord
  <2>2. /\ h \in F!Registry /\ h.of = reg.of /\ h.queue = reg.queue /\ h.count = reg.count
        /\ h.dropped = reg.dropped /\ h.sent = reg.sent /\ h.lost = reg.lost \cup {tab[b].held}
    BY <1>1, <2>1 DEF F!Registry
  <2>3. s.lost = reg.lost \cup {tab[b].held}
    BY <1>4
  <2> HIDE DEF h
  <2>4. FeedInv(h, u, emit)
    BY <1>1, <1>2, <1>4, <2>2, HandOverKeeps
  <2>5. u[b].held = Nil /\ [u EXCEPT ![b] = x] = [tab EXCEPT ![b] = x]
    <3>1. DOMAIN u = Tabs /\ u[b].held = Nil /\ \A a \in Tabs : a # b => u[a] = tab[a]
      BY <1>1
    <3> HIDE DEF u
    <3>2. [u EXCEPT ![b] = x] = [a \in Tabs |-> IF a = b THEN x ELSE tab[a]]
      BY <3>1
    <3>3. [tab EXCEPT ![b] = x] = [a \in Tabs |-> IF a = b THEN x ELSE tab[a]]
      BY <1>1
    <3>4. QED
      BY <3>1, <3>2, <3>3
  <2> HIDE DEF u
  <2>6. FeedInv(s, u, emit)
    BY <1>2, <2>2, <2>3, <2>4, LessKeeps
  <2>7. FeedInv(s, [u EXCEPT ![b] = x], emit)
    BY <1>2, <2>5, <2>6, TabKeeps
  <2>8. QED
    BY <2>5, <2>7
<1>5. QED
  BY <1>3, <1>4

LEMMA LeaveKeeps ==
  ASSUME F!FeedAssumption, FeedsInv, NEW b \in Tabs, F!Leave(b)
  PROVE  FeedsInv' /\ tab'[b].held = Nil /\ \A a \in Tabs : a # b => tab'[a] = tab[a]
<1> DEFINE c == reg.of[tab[b].key]
           k == tab[b].key
           n == F!Max({0, reg.watchers[reg.of[tab[b].key]] - 1})
           p == F!Unsubscribed(reg, k)
           x == [F!IdleTab EXCEPT !.pc = "gone"]
<1>1. TabOK(tab[b]) /\ tab[b].pc \in {"waiting", "sending"} /\ DOMAIN tab = Tabs
      /\ reg \in F!Registry /\ FeedInv(reg, tab, emit)
  BY DEF FeedsInv, FeedInv, FeedTypes, F!Leave
<1>2. /\ tab[b].chan \in F!Channels /\ k \in F!Keys /\ Nil \notin F!Channels /\ Nil \notin F!Keys /\ MaxEvents \in Nat
      /\ tab[b].pc = "sending" => tab[b].held \in F!Events
  BY <1>1 DEF TabOK, TabRecord, F!FeedAssumption
<1>3. UnsubscribedIs(p, reg, k, n)
  BY <1>1, <1>2, UnsubscribeIs
<1>4. /\ reg' = [p EXCEPT !.lost = IF tab[b].pc = "sending" THEN @ \cup {tab[b].held} ELSE @]
      /\ tab' = [tab EXCEPT ![b] = x] /\ UNCHANGED <<emit, raced>>
  BY DEF F!Leave
<1>5. TabOK(x) /\ x.chan = Nil /\ x.key = Nil /\ x.held = Nil /\ x.pc = "gone"
  BY <1>2 DEF TabOK, TabRecord, F!IdleTab
<1> HIDE DEF p, n, x
<1>6. /\ reg' \in F!Registry /\ reg'.of = p.of /\ reg'.queue = p.queue /\ reg'.count = p.count
      /\ reg'.dropped = p.dropped /\ reg'.sent = p.sent /\ reg'.watchers = p.watchers /\ reg'.leaked = p.leaked
      /\ reg'.lost = IF tab[b].pc = "sending" THEN p.lost \cup {tab[b].held} ELSE p.lost
  <2>1. p \in F!Registry
    BY <1>3 DEF UnsubscribedIs
  <2>2. /\ reg'.of = p.of /\ reg'.queue = p.queue /\ reg'.count = p.count
        /\ reg'.dropped = p.dropped /\ reg'.sent = p.sent /\ reg'.watchers = p.watchers /\ reg'.leaked = p.leaked
        /\ reg'.lost = IF tab[b].pc = "sending" THEN p.lost \cup {tab[b].held} ELSE p.lost
    BY <1>4, <2>1 DEF F!Registry
  <2>3. (IF tab[b].pc = "sending" THEN p.lost \cup {tab[b].held} ELSE p.lost) \subseteq F!Events
    BY <1>2, <2>1 DEF F!Registry
  <2>4. reg' \in F!Registry
    BY <1>4, <2>1, <2>3 DEF F!Registry
  <2>5. QED
    BY <2>2, <2>4
<1>7. /\ reg'.queue = reg.queue /\ reg'.count = reg.count /\ reg'.dropped = reg.dropped /\ reg'.sent = reg.sent
      /\ reg'.lost = IF tab[b].pc = "sending" THEN reg.lost \cup {tab[b].held} ELSE reg.lost
      /\ reg'.leaked = reg.leaked
      /\ \A l \in F!Keys : l # k => reg'.of[l] = reg.of[l]
      /\ \A d \in F!Channels : d # c => reg'.watchers[d] = reg.watchers[d]
      /\ \/ c = Nil /\ reg'.of[k] = Nil
         \/ c # Nil /\ n = 0 /\ reg.queue[c] = <<>> /\ reg'.of[k] = Nil /\ reg'.watchers = reg.watchers
         \/ c # Nil /\ ~(n = 0 /\ reg.queue[c] = <<>>) /\ reg'.of[k] = c /\ reg'.watchers[c] = n
  BY <1>3, <1>6 DEF UnsubscribedIs
<1>8. \A l \in F!Keys : reg'.of[l] \in {reg.of[l], Nil}
  BY <1>7
<1>9. FeedInv(reg', tab', emit)
  BY <1>1, <1>4, <1>5, <1>6, <1>7, <1>8, LeaveKeepsFeeds
<1>10. /\ tab'[b] = x /\ \A a \in Tabs : a # b => tab'[a] = tab[a]
       /\ Started(tab') = Started(tab)
       /\ \A l \in F!Keys : Watching(tab', l) = Watching(tab, l) \ {b}
  <2>1. tab'[b] = x /\ \A a \in Tabs : a # b => tab'[a] = tab[a]
    BY <1>1, <1>4
  <2>2. Started(tab') = Started(tab)
    BY <1>1, <1>5, <2>1 DEF Started
  <2>3. ASSUME NEW l \in F!Keys PROVE Watching(tab', l) = Watching(tab, l) \ {b}
    BY <1>2, <1>5, <2>1 DEF Watching
  <2>4. QED
    BY <2>1, <2>2, <2>3
<1>11. c # Nil => /\ c \in F!Channels /\ reg.watchers[c] \in Nat /\ reg.leaked[c] \in Nat
                  /\ n \in Nat /\ n <= reg.watchers[c]
                  /\ reg.watchers[c] >= 1 => n = reg.watchers[c] - 1
  <2>1. SUFFICES ASSUME c # Nil
                 PROVE  /\ c \in F!Channels /\ reg.watchers[c] \in Nat /\ reg.leaked[c] \in Nat
                        /\ n \in Nat /\ n <= reg.watchers[c]
                        /\ reg.watchers[c] >= 1 => n = reg.watchers[c] - 1
    OBVIOUS
  <2>2. c \in F!Channels /\ reg.watchers[c] \in Nat /\ reg.leaked[c] \in Nat
    BY <1>1, <1>2, <2>1 DEF F!Registry
  <2>3. QED
    BY <2>2, OneLess DEF n
<1>12. b \in Watching(tab, k)
  BY DEF Watching
<1> HIDE DEF c, k
<1>13. CountsBounded(reg', tab')
  <2>1. ASSUME NEW d \in F!Channels PROVE reg'.watchers[d] <= Cardinality(Started(tab))
    <3>1. /\ reg.watchers[d] <= Cardinality(Started(tab)) /\ reg.watchers[d] \in Nat /\ Cardinality(Started(tab)) \in Nat
      BY <1>1, WatchingIsFinite DEF FeedsInv, CountsBounded, F!Registry
    <3>2. CASE d = c
      <4>1. reg'.watchers[d] = n \/ reg'.watchers[d] = reg.watchers[d]
        BY <1>2, <1>7, <3>2
      <4>2. QED
        BY <1>2, <1>11, <3>1, <3>2, <4>1
    <3>3. CASE d # c
      BY <1>7, <3>1, <3>3
    <3>4. QED
      BY <3>2, <3>3
  <2>2. QED
    BY <1>10, <2>1 DEF CountsBounded
<1>14. ASSUME ~raced PROVE CountsExact(reg', tab') /\ NoneIdleBut(reg', {})
  <2>1. CountsExact(reg, tab) /\ NoneIdleBut(reg, {})
    BY <1>14 DEF FeedsInv
  <2>2. c = tab[b].chan /\ c # Nil
    BY <1>2, <2>1 DEF CountsExact, c, k
  <2>3. reg.of[k] = c
    BY DEF c, k
  <2>4. reg.watchers[c] = Cardinality(Watching(tab, k)) + reg.leaked[c]
    BY <1>2, <2>1, <2>2, <2>3 DEF CountsExact
  <2>5. /\ Cardinality(Watching(tab, k)) \in Nat /\ Cardinality(Watching(tab, k)) >= 1
        /\ Cardinality(Watching(tab, k) \ {b}) = Cardinality(Watching(tab, k)) - 1
    BY <1>12, WatcherCounts, WatchingIsFinite
  <2>6. n = reg.watchers[c] - 1 /\ c \in F!Channels /\ reg.leaked[c] \in Nat
    BY <1>11, <2>2, <2>4, <2>5
  <2>7. ASSUME NEW l \in F!Keys, l # k, reg.of[l] # Nil
        PROVE  reg.of[l] \in F!Channels /\ reg'.watchers[reg.of[l]] = reg.watchers[reg.of[l]]
    <3>1. reg.of[l] \in F!Channels /\ reg.of[l] # c
      BY <1>1, <1>2, <2>3, <2>7, ChannelsDiffer
    <3>2. QED
      BY <1>7, <3>1
  <2>8. ASSUME NEW l \in F!Keys, NEW a \in Tabs, tab'[a].key = l PROVE tab'[a].chan = reg'.of[l]
    <3>1. a # b /\ tab'[a] = tab[a]
      BY <1>2, <1>5, <1>10, <2>8
    <3>2. tab[a].chan = reg.of[l]
      BY <2>1, <2>8, <3>1 DEF CountsExact
    <3>3. CASE l # k
      BY <1>7, <3>1, <3>2, <3>3
    <3>4. CASE l = k
      <4>1. a \in Watching(tab, k) \ {b}
        BY <2>8, <3>1, <3>4 DEF Watching
      <4>2. Cardinality(Watching(tab, k) \ {b}) # 0
        <5>1. IsFiniteSet(Watching(tab, k) \ {b})
          BY WatchingIsFinite, FS_Difference
        <5>2. QED
          BY <4>1, <5>1, FS_EmptySet
      <4>3. n # 0
        BY <2>4, <2>5, <2>6, <4>2
      <4>4. QED
        BY <1>7, <2>2, <2>3, <3>1, <3>2, <3>4, <4>3
    <3>5. QED
      BY <3>3, <3>4
  <2>9. ASSUME NEW l \in F!Keys, reg'.of[l] # Nil
        PROVE  reg'.watchers[reg'.of[l]] = Cardinality(Watching(tab', l)) + reg'.leaked[reg'.of[l]]
    <3>1. CASE l = k
      <4>1. reg'.of[l] = c /\ reg'.watchers[c] = n
        BY <1>7, <2>9, <3>1
      <4>2. Cardinality(Watching(tab', l)) = Cardinality(Watching(tab, k)) - 1
        BY <1>10, <2>5, <3>1
      <4>3. QED
        BY <1>7, <2>4, <2>5, <2>6, <4>1, <4>2
    <3>2. CASE l # k
      <4>1. Watching(tab', l) = Watching(tab, l)
        BY <1>10, <3>2 DEF Watching, k
      <4>2. reg'.of[l] = reg.of[l] /\ reg.of[l] # Nil
        BY <1>7, <2>9, <3>2
      <4>3. reg.watchers[reg.of[l]] = Cardinality(Watching(tab, l)) + reg.leaked[reg.of[l]]
        BY <2>1, <4>2 DEF CountsExact
      <4>4. QED
        BY <1>7, <2>7, <3>2, <4>1, <4>2, <4>3
    <3>3. QED
      BY <3>1, <3>2
  <2>10. ASSUME NEW l \in F!Keys, reg'.of[l] # Nil, reg'.queue[reg'.of[l]] = <<>> PROVE reg'.watchers[reg'.of[l]] > 0
    <3>1. CASE l = k
      <4>1. reg'.of[l] = c /\ reg'.watchers[c] = n /\ ~(n = 0 /\ reg.queue[c] = <<>>)
        BY <1>7, <2>10, <3>1
      <4>2. n # 0
        BY <1>7, <2>10, <4>1
      <4>3. QED
        BY <1>11, <2>2, <4>1, <4>2
    <3>2. CASE l # k
      <4>1. reg'.of[l] = reg.of[l] /\ reg.of[l] # Nil
        BY <1>7, <2>10, <3>2
      <4>2. reg.watchers[reg.of[l]] > 0
        BY <1>7, <2>1, <2>10, <4>1 DEF NoneIdleBut
      <4>3. QED
        BY <2>7, <3>2, <4>1, <4>2
    <3>3. QED
      BY <3>1, <3>2
  <2>11. CountsExact(reg', tab')
    BY <2>8, <2>9 DEF CountsExact
  <2>12. NoneIdleBut(reg', {})
    BY <2>10 DEF NoneIdleBut
  <2>13. QED
    BY <2>11, <2>12
<1>15. QED
  BY <1>4, <1>5, <1>9, <1>10, <1>13, <1>14 DEF FeedsInv

LEMMA FeedsGoOn ==
  ASSUME F!FeedAssumption, FeedsInv, [F!FeedNext]_F!feedVars
  PROVE  /\ FeedsInv'
         /\ \A b \in Tabs : tab'[b].held # tab[b].held /\ tab'[b].held # Nil => tab'[b].held[2] > tab[b].last
<1> DEFINE Ordered(b) == tab'[b].held # tab[b].held /\ tab'[b].held # Nil => tab'[b].held[2] > tab[b].last
<1>1. CASE UNCHANGED F!feedVars
  BY <1>1 DEF F!feedVars, FeedsInv
<1>2. ASSUME NEW k \in F!Keys, F!EmitOnLoop(k) PROVE FeedsInv' /\ tab' = tab
  BY <1>2, EmitOnLoopKeeps DEF F!EmitOnLoop
<1>3. ASSUME NEW h \in Threads, F!Look(h) PROVE FeedsInv' /\ tab' = tab
  BY <1>3, LookKeeps DEF F!Look
<1>4. ASSUME NEW h \in Threads, F!PutFound(h) PROVE FeedsInv' /\ tab' = tab
  BY <1>4, PutFoundKeeps DEF F!PutFound
<1>5. ASSUME NEW h \in Threads, NEW keys \in F!Targets, F!EmitInThread(h, keys) PROVE FeedsInv' /\ tab' = tab
  BY <1>5, EmitInThreadKeeps DEF F!EmitInThread
<1>6. ASSUME NEW b \in Tabs, NEW k \in F!Keys, F!WatchRun(b, k) \/ F!WatchUser(b, k)
      PROVE  FeedsInv' /\ \A a \in Tabs : Ordered(a)
  <2>1. Subscribes(b, k)
    BY <1>6 DEF F!WatchRun, F!WatchUser, Subscribes
  <2>2. FeedsInv'
    BY <2>1, SubscribesKeeps
  <2>3. DOMAIN tab = Tabs
    BY DEF FeedsInv, FeedInv, FeedTypes
  <2>4. tab'[b].held = Nil /\ \A a \in Tabs : a # b => tab'[a] = tab[a]
    BY <2>1, <2>3 DEF Subscribes, F!IdleTab
  <2>5. QED
    BY <2>2, <2>4
<1>7. ASSUME NEW b \in Tabs, F!Stream(b) \/ F!Abandon(b) PROVE FeedsInv' /\ \A a \in Tabs : Ordered(a)
  <2>1. FeedsInv'
    BY <1>7, StreamKeeps, AbandonKeeps
  <2>2. DOMAIN tab = Tabs /\ TabOK(tab[b])
    BY DEF FeedsInv, FeedInv, FeedTypes
  <2>3. tab'[b].held \in {tab[b].held, Nil} /\ \A a \in Tabs : a # b => tab'[a] = tab[a]
    BY <1>7, <2>2 DEF F!Stream, F!Abandon, F!IdleTab, TabOK, TabRecord
  <2>4. QED
    BY <2>1, <2>3
<1>8. ASSUME NEW b \in Tabs, F!Take(b) \/ F!Send(b) \/ F!Leave(b) PROVE FeedsInv' /\ \A a \in Tabs : Ordered(a)
  BY <1>8, TakeStepKeeps, SendKeeps, LeaveKeeps
<1>9. QED
  BY <1>1, <1>2, <1>3, <1>4, <1>5, <1>6, <1>7, <1>8 DEF F!FeedNext, F!feedVars

LEMMA FeedsStart == ASSUME F!FeedAssumption, F!FeedInit PROVE FeedsInv
<1>1. /\ reg = F!NoChannels /\ tab = [b \in Tabs |-> F!IdleTab] /\ emit = [h \in Threads |-> F!IdleEmit] /\ raced = FALSE
      /\ MaxQueue \in Nat \ {0} /\ MaxEvents \in Nat
      /\ Nil \notin F!Keys /\ Nil \notin F!Channels /\ Nil \notin F!Events
  BY DEF F!FeedInit, F!FeedAssumption
<1>2. /\ reg \in F!Registry /\ reg.sent = {} /\ reg.dropped = {} /\ reg.lost = {}
      /\ \A k \in F!Keys : reg.of[k] = Nil /\ reg.count[k] = 0
      /\ \A c \in F!Channels : reg.queue[c] = <<>> /\ reg.watchers[c] = 0
  <2>1. <<>> \in Seq(F!Events) /\ 0 \in 0 .. MaxEvents
    BY <1>1
  <2>2. QED
    BY <1>1, <2>1 DEF F!NoChannels, F!Registry
<1>3. /\ DOMAIN tab = Tabs
      /\ \A b \in Tabs : /\ tab[b] = F!IdleTab
                         /\ tab[b].chan = Nil /\ tab[b].key = Nil /\ tab[b].held = Nil /\ tab[b].pc = "idle"
  BY <1>1 DEF F!IdleTab
<1>4. /\ DOMAIN emit = Threads
      /\ \A h \in Threads : emit[h] = F!IdleEmit /\ emit[h].chan = Nil /\ emit[h].new = FALSE
  BY <1>1 DEF F!IdleEmit
<1>5. TabOK(F!IdleTab)
  <2>1. 0 \in 0 .. MaxEvents
    BY <1>1
  <2>2. QED
    BY <2>1 DEF TabOK, TabRecord, F!IdleTab
<1>6. EmitOK(F!IdleEmit)
  BY DEF EmitOK, EmitRecord, F!IdleEmit
<1>7. \A c \in F!Channels : F!Elements(reg.queue[c]) = {} /\ Len(reg.queue[c]) = 0
  BY <1>2, EmptyQueue
<1>8. FeedTypes(reg, tab, emit)
  BY <1>1, <1>2, <1>3, <1>4, <1>5, <1>6, <1>7 DEF FeedTypes
<1>9. NewIsAlone(reg, tab, emit) /\ InPutOrder(reg, tab)
  BY <1>3, <1>4, <1>7 DEF NewIsAlone, InPutOrder
<1>10. OneKeyEach(reg, tab, emit)
  BY <1>1, <1>2, <1>3, <1>4 DEF OneKeyEach, UsedFor
<1>11. PutIsSomewhere(reg, tab)
  <2>1. ASSUME NEW e \in F!Events PROVE ~(e[2] <= reg.count[e[1]])
    <3>1. e[1] \in F!Keys /\ e[2] \in Nat \ {0}
      BY DEF F!Events
    <3>2. reg.count[e[1]] = 0
      BY <1>2, <3>1
    <3>3. QED
      BY <3>1, <3>2
  <2>2. Ends(reg) = {}
    BY <1>2 DEF Ends
  <2>3. ASSUME NEW e \in F!Events
        PROVE  /\ \A c \in F!Channels : e \notin F!Elements(reg.queue[c])
               /\ \A b \in Tabs : tab[b].held # e
               /\ e \notin Ends(reg)
    BY <1>1, <1>3, <1>7, <2>2
  <2>4. QED
    BY <2>1, <2>3 DEF PutIsSomewhere
<1>12. PlacesAreApart(reg, tab)
  BY <1>2, <1>3, <1>7 DEF PlacesAreApart, Ends
<1>13. CountsBounded(reg, tab)
  BY <1>2, WatchingIsFinite DEF CountsBounded
<1>14. CountsExact(reg, tab) /\ NoneIdleBut(reg, {})
  BY <1>1, <1>2, <1>3 DEF CountsExact, NoneIdleBut
<1>15. QED
  BY <1>1, <1>8, <1>9, <1>10, <1>11, <1>12, <1>13, <1>14 DEF FeedsInv, FeedInv

-----------------------------------------------------------------------------
(* What the invariant says of the feeds.                                   *)

\* The places of an event, as the property lists them.
Places(e) ==
  {<<"queue", c>> : c \in {c \in F!Channels : e \in F!Elements(reg.queue[c])}}
    \cup {<<"hand", b>> : b \in {b \in Tabs : tab[b].held = e}}
    \cup {<<"end", s>> : s \in {s \in {"sent", "dropped", "lost"} : e \in reg[s]}}

LEMMA PlacesAreOne ==
  ASSUME F!FeedAssumption, FeedsInv PROVE F!EventsHaveOnePlace
<1>1. /\ reg \in F!Registry /\ PutIsSomewhere(reg, tab) /\ PlacesAreApart(reg, tab) /\ Nil \notin F!Events
  BY DEF FeedsInv, FeedInv, FeedTypes, F!FeedAssumption
<1>2. ASSUME NEW e \in F!Events PROVE Cardinality(Places(e)) = IF F!Put(e) THEN 1 ELSE 0
  <2>1. ASSUME NEW p \in Places(e)
        PROVE  \/ \E c \in F!Channels : p = <<"queue", c>> /\ e \in F!Elements(reg.queue[c])
               \/ \E b \in Tabs : p = <<"hand", b>> /\ tab[b].held = e
               \/ p = <<"end", "sent">> /\ e \in reg.sent
               \/ p = <<"end", "dropped">> /\ e \in reg.dropped
               \/ p = <<"end", "lost">> /\ e \in reg.lost
    BY DEF Places
  <2>2. /\ \A c \in F!Channels : e \in F!Elements(reg.queue[c]) => <<"queue", c>> \in Places(e)
        /\ \A b \in Tabs : tab[b].held = e => <<"hand", b>> \in Places(e)
        /\ e \in reg.sent => <<"end", "sent">> \in Places(e)
        /\ e \in reg.dropped => <<"end", "dropped">> \in Places(e)
        /\ e \in reg.lost => <<"end", "lost">> \in Places(e)
    BY DEF Places
  <2>3. F!Put(e) <=> \E p : p \in Places(e)
    BY <1>1, <2>1, <2>2 DEF F!Put, PutIsSomewhere, Ends
  <2>4. ASSUME NEW p \in Places(e), NEW q \in Places(e) PROVE p = q
    <3>1. /\ \A c, d \in F!Channels : e \in F!Elements(reg.queue[c]) /\ e \in F!Elements(reg.queue[d]) => c = d
          /\ \A a, b \in Tabs : tab[a].held = e /\ tab[b].held = e => a = b
          /\ \A c \in F!Channels : e \in F!Elements(reg.queue[c]) => e \notin Ends(reg) /\ \A b \in Tabs : tab[b].held # e
          /\ \A b \in Tabs : tab[b].held = e => e \notin Ends(reg)
          /\ ~(e \in reg.sent /\ e \in reg.dropped) /\ ~(e \in reg.sent /\ e \in reg.lost)
          /\ ~(e \in reg.dropped /\ e \in reg.lost)
      BY <1>1 DEF PlacesAreApart
    <3>2. e \in Ends(reg) <=> e \in reg.sent \/ e \in reg.dropped \/ e \in reg.lost
      BY DEF Ends
    <3>3. CASE \E c \in F!Channels : p = <<"queue", c>> /\ e \in F!Elements(reg.queue[c])
      BY <2>1, <3>1, <3>2, <3>3
    <3>4. CASE \E b \in Tabs : p = <<"hand", b>> /\ tab[b].held = e
      BY <2>1, <3>1, <3>2, <3>4
    <3>5. CASE \/ p = <<"end", "sent">> /\ e \in reg.sent
               \/ p = <<"end", "dropped">> /\ e \in reg.dropped
               \/ p = <<"end", "lost">> /\ e \in reg.lost
      BY <2>1, <3>1, <3>2, <3>5
    <3>6. QED
      BY <2>1, <3>3, <3>4, <3>5
  <2>5. CASE F!Put(e)
    <3>1. PICK p : p \in Places(e)
      BY <2>3, <2>5
    <3>2. Places(e) = {p}
      BY <2>4, <3>1
    <3>3. QED
      BY <2>5, <3>2, FS_Singleton
  <2>6. CASE ~F!Put(e)
    <3>1. Places(e) = {}
      BY <2>3, <2>6
    <3>2. QED
      BY <2>6, <3>1, FS_EmptySet
  <2>7. QED
    BY <2>5, <2>6
<1>3. \A e \in F!Events : F!Cardinality(Places(e)) = IF F!Put(e) THEN 1 ELSE 0
  BY <1>2, FeedFiniteness
<1>4. QED
  BY <1>3 DEF F!EventsHaveOnePlace, Places

LEMMA FeedsAreSound ==
  ASSUME F!FeedAssumption, FeedsInv
  PROVE  F!FeedTypeOK /\ F!EventsHaveOnePlace /\ F!StreamsStayAttached /\ F!IdleChannelsAreWatched
<1>1. /\ reg \in F!Registry /\ \A c \in F!Channels : Len(reg.queue[c]) <= MaxQueue
      /\ \A b \in Tabs : TabOK(tab[b])
      /\ \A h \in Threads : EmitOK(emit[h])
      /\ Nil \notin F!Channels /\ Nil \notin F!Events /\ Nil \notin F!Keys
  BY DEF FeedsInv, FeedInv, FeedTypes, F!FeedAssumption
<1>2. F!FeedTypeOK
  <2>1. reg.of \in [F!Keys -> F!Channels \cup {Nil}]
    BY <1>1 DEF F!Registry
  <2>2. ASSUME NEW c \in F!Channels
        PROVE  F!Elements(reg.queue[c]) \subseteq F!Events /\ reg.watchers[c] \in 0 .. F!Cardinality(Tabs)
    <3>1. reg.queue[c] \in Seq(F!Events) /\ reg.watchers[c] \in Nat
      BY <1>1 DEF F!Registry
    <3>2. F!Elements(reg.queue[c]) \subseteq F!Events
      BY <3>1 DEF F!Elements
    <3>3. reg.watchers[c] <= Cardinality(Started(tab)) /\ Cardinality(Started(tab)) <= Cardinality(Tabs)
          /\ Cardinality(Started(tab)) \in Nat /\ Cardinality(Tabs) \in Nat /\ F!Cardinality(Tabs) = Cardinality(Tabs)
      BY WatchingIsFinite, FeedFiniteness DEF FeedsInv, CountsBounded
    <3>4. QED
      BY <3>1, <3>2, <3>3
  <2>3. ASSUME NEW b \in Tabs
        PROVE  /\ tab[b].pc \in {"idle", "opening", "waiting", "sending", "gone"}
               /\ tab[b].pc \in {"opening", "waiting", "sending"} <=> tab[b].chan \in F!Channels
               /\ tab[b].pc = "sending" <=> tab[b].held \in F!Events
    BY <1>1 DEF TabOK, TabRecord
  <2>4. \A h \in Threads : emit[h].pc \in {"idle", "look", "put"}
    BY <1>1 DEF EmitOK, EmitRecord
  <2>5. QED
    BY <1>1, <2>1, <2>2, <2>3, <2>4 DEF F!FeedTypeOK
<1>3. F!StreamsStayAttached
  <2>1. ASSUME ~raced, NEW k \in F!Keys, NEW b \in F!Attached(k)
        PROVE  tab[b].chan = reg.of[k] /\ reg.watchers[reg.of[k]] = F!Cardinality(F!Attached(k)) + reg.leaked[reg.of[k]]
    <3>1. b \in Tabs /\ tab[b].key = k
      BY DEF F!Attached
    <3>2. tab[b].chan = reg.of[k]
      BY <2>1, <3>1 DEF FeedsInv, CountsExact
    <3>3. reg.of[k] # Nil
      BY <1>1, <3>1, <3>2 DEF TabOK
    <3>4. reg.watchers[reg.of[k]] = Cardinality(Watching(tab, k)) + reg.leaked[reg.of[k]]
      BY <2>1, <3>3 DEF FeedsInv, CountsExact
    <3>5. F!Attached(k) = Watching(tab, k)
      BY DEF F!Attached, Watching
    <3>6. F!Cardinality(F!Attached(k)) = Cardinality(Watching(tab, k))
      BY <3>5, FeedFiniteness
    <3>7. QED
      BY <3>2, <3>4, <3>6
  <2>2. QED
    BY <2>1 DEF F!StreamsStayAttached
<1>4. F!IdleChannelsAreWatched
  BY DEF FeedsInv, NoneIdleBut, F!IdleChannelsAreWatched
<1>5. QED
  BY <1>2, <1>3, <1>4, PlacesAreOne

\* The live feeds: every event that was put is in one place, a queue, the hand
\* of one stream, or one end; without a race every stream is on the channel
\* that is registered and counted, and no channel is kept for nobody; and a
\* stream takes events in the order of the puts (RunRegistry.put_nowait,
\* subscribe and unsubscribe, and the generators of the SSE routes), for any
\* number of keys, streams and threads.
THEOREM FeedsStaySound == F!FeedSpec => FeedsAreExact
<1> USE FeedsAssumption
<1> SUFFICES F!FeedSpec => /\ []F!FeedTypeOK /\ []F!EventsHaveOnePlace
                           /\ []F!StreamsStayAttached /\ []F!IdleChannelsAreWatched
                           /\ F!TakesInOrder
  BY DEF FeedsAreExact, F!FeedsAreExact
<1>1. F!FeedInit => FeedsInv
  BY FeedsStart
<1>2. FeedsInv /\ [F!FeedNext]_F!feedVars => FeedsInv'
  BY FeedsGoOn
<1>3. FeedsInv => F!FeedTypeOK /\ F!EventsHaveOnePlace /\ F!StreamsStayAttached /\ F!IdleChannelsAreWatched
  BY FeedsAreSound
<1>4. FeedsInv /\ [F!FeedNext]_F!feedVars
        => [\A b \in Tabs : tab'[b].held # tab[b].held /\ tab'[b].held # Nil
                              => tab'[b].held[2] > tab[b].last]_F!feedVars
  BY FeedsGoOn
<1>5. QED
  BY <1>1, <1>2, <1>3, <1>4, PTL DEF F!FeedSpec, F!TakesInOrder

-----------------------------------------------------------------------------
(* The documents of runs.                                                  *)

Attrs(s) == agentSpan[s].attrs

\* The spans with a cost whose write of the session's document, or of a turn's, landed.
InSession == {s \in AgentSpans : "session" \in agentSpan[s].landed /\ Attrs(s).cost = 1}
InTurn(t) == {s \in AgentSpans : "turn" \in agentSpan[s].landed /\ Attrs(s).trace = t /\ Attrs(s).cost = 1}

RunTypes ==
  /\ runNow \in Nat /\ lastWrite \in 0 .. runNow \cup {Nil}
  /\ agentSpan \in [AgentSpans -> R!Progress]
  /\ \A s \in AgentSpans : agentSpan[s].pc # "running" => agentSpan[s].attrs \in R!Attributes
  /\ runDoc \in R!Document /\ turns \in [Traces -> R!Document \cup {Nil}]

\* Who writes a turn brings its start, or its document is there: nothing deletes it.
StartIsBrought ==
  \A s \in AgentSpans :
    agentSpan[s].pc = "turn" => agentSpan[s].first \/ turns[agentSpan[s].attrs.trace] # Nil

\* The tokens shown are those of a span that ended with some.
ShownAreOfAnEnd ==
  runDoc.tokens # Nil => agentSpan[runDoc.tokens].pc # "running" /\ agentSpan[runDoc.tokens].attrs.tokens = TRUE

\* The running totals.
CostsOfLanded ==
  /\ runDoc.cost = Cardinality(InSession)
  /\ \A t \in Traces : /\ turns[t] # Nil => turns[t].cost = Cardinality(InTurn(t))
                       /\ turns[t] = Nil => InTurn(t) = {}

\* A span lands in a document once, and only spans that count are on their way.
LandsOnce ==
  \A s \in AgentSpans :
    /\ agentSpan[s].pc \in {"running", "session"} => "session" \notin agentSpan[s].landed
    /\ agentSpan[s].pc # "over" => "turn" \notin agentSpan[s].landed
    /\ (\/ agentSpan[s].pc \in {"session", "look", "turn"}
        \/ "session" \in agentSpan[s].landed \/ "turn" \in agentSpan[s].landed)
         => Attrs(s).agent = TRUE /\ Attrs(s).user = TRUE /\ agentSpan[s].pc # "running"

\* The throttle lets every span with tokens pass.
CostlyAreWritten ==
  \A s \in AgentSpans :
    (/\ agentSpan[s].pc \in {"look", "turn", "over"} /\ agentSpan[s].failed = FALSE
     /\ Attrs(s).agent = TRUE /\ Attrs(s).user = TRUE /\ Attrs(s).tokens = TRUE)
      => "session" \in agentSpan[s].landed

RunInv ==
  /\ RunTypes /\ StartIsBrought /\ ShownAreOfAnEnd /\ CostsOfLanded /\ LandsOnce /\ CostlyAreWritten
  /\ R!TurnsHaveAStart

LEMMA RunFiniteness ==
  ASSUME NEW Q PROVE (R!IsFiniteSet(Q) <=> IsFiniteSet(Q)) /\ R!Cardinality(Q) = Cardinality(Q)
BY DEF R!IsFiniteSet, IsFiniteSet, R!Cardinality, Cardinality

\* A merge adds the cost, and replaces tokens only with those of a span that has some.
LEMMA MergeKeeps ==
  ASSUME NEW d \in R!Document, NEW s \in AgentSpans, agentSpan[s].attrs \in R!Attributes
  PROVE  /\ R!Merged(d, s) \in R!Document /\ R!Merged(d, s).started = d.started
         /\ R!Merged(d, s).cost = d.cost + agentSpan[s].attrs.cost
         /\ \/ R!Merged(d, s).tokens = d.tokens
            \/ R!Merged(d, s).tokens = s /\ agentSpan[s].attrs.tokens = TRUE
<1> DEFINE a == agentSpan[s].attrs
           m == R!Merged(d, s)
<1>1. a.tokens \in BOOLEAN /\ a.cost \in 0 .. 1
  BY DEF R!Attributes
<1>2. m = [d EXCEPT !.tokens = IF a.tokens THEN s ELSE @, !.cost = @ + a.cost]
  BY DEF R!Merged
<1>3. d.cost \in Nat /\ d.tokens \in AgentSpans \cup {Nil} /\ d.started \in AgentSpans \cup {Nil}
      /\ d = [tokens |-> d.tokens, cost |-> d.cost, started |-> d.started]
  BY DEF R!Document
<1> HIDE DEF a, m
<1>4. CASE a.tokens = TRUE
  <2>1. m = [tokens |-> s, cost |-> d.cost + a.cost, started |-> d.started]
    BY <1>2, <1>3, <1>4
  <2>2. QED
    BY <1>1, <1>3, <1>4, <2>1 DEF R!Document, a, m
<1>5. CASE a.tokens = FALSE
  <2>1. m = [tokens |-> d.tokens, cost |-> d.cost + a.cost, started |-> d.started]
    BY <1>2, <1>3, <1>5
  <2>2. QED
    BY <1>1, <1>3, <2>1 DEF R!Document, m, a
<1>6. QED
  BY <1>1, <1>4, <1>5 DEF m, a

LEMMA RunsStart == ASSUME R!RunAssumption, R!RunInit PROVE RunInv
<1>1. \A s \in AgentSpans : agentSpan[s].pc = "running" /\ agentSpan[s].landed = {}
  BY DEF R!RunInit, R!Unended
<1>2. runDoc = [tokens |-> Nil, cost |-> 0, started |-> Nil] /\ runDoc \in R!Document
  BY DEF R!RunInit, R!EmptyDoc, R!Document
<1>3. R!Unended \in R!Progress
  BY DEF R!Unended, R!Progress
<1>4. RunTypes
  BY <1>1, <1>2, <1>3 DEF R!RunInit, RunTypes
<1>5. StartIsBrought /\ R!TurnsHaveAStart /\ LandsOnce /\ CostlyAreWritten
  BY <1>1 DEF R!RunInit, StartIsBrought, R!TurnsHaveAStart, LandsOnce, CostlyAreWritten
<1>6. ShownAreOfAnEnd
  BY <1>2 DEF ShownAreOfAnEnd
<1>7. CostsOfLanded
  <2>1. InSession = {} /\ \A t : InTurn(t) = {}
    BY <1>1 DEF InSession, InTurn
  <2>2. QED
    BY <1>2, <2>1, FS_EmptySet DEF CostsOfLanded, R!RunInit
<1>8. QED
  BY <1>4, <1>5, <1>6, <1>7 DEF RunInv

\* What TokensStay says of a step.
ShownTokensStay ==
  /\ runDoc.tokens # Nil => runDoc'.tokens # Nil /\ agentSpan[runDoc'.tokens].attrs.tokens
  /\ \A t \in Traces : turns[t] # Nil /\ turns[t].tokens # Nil => turns'[t].tokens # Nil

LEMMA SameTokensStay ==
  ASSUME RunInv, UNCHANGED <<runDoc, turns>> PROVE ShownTokensStay
BY DEF RunInv, ShownAreOfAnEnd, ShownTokensStay

\* on_end: the span has attributes, and nothing else is written.
LEMMA EndRunKeeps ==
  ASSUME RunInv, NEW s \in AgentSpans, NEW a \in R!Attributes, R!EndSpan(s, a)
  PROVE  RunInv' /\ ShownTokensStay
<1>1. PICK pc \in {"session", "over"} : agentSpan' = [agentSpan EXCEPT ![s].pc = pc, ![s].attrs = a]
  BY DEF R!EndSpan
<1>2. /\ agentSpan[s].pc = "running" /\ lastWrite' \in {runNow, lastWrite}
      /\ UNCHANGED <<runNow, runDoc, turns>>
  BY DEF R!EndSpan
<1>3. agentSpan \in [AgentSpans -> R!Progress]
  BY DEF RunInv, RunTypes
<1>4. /\ agentSpan' \in [AgentSpans -> R!Progress]
      /\ agentSpan'[s].pc = pc /\ agentSpan'[s].attrs = a /\ agentSpan'[s].landed = agentSpan[s].landed
      /\ \A r \in AgentSpans : r # s => agentSpan'[r] = agentSpan[r]
  BY <1>1, <1>3 DEF R!Progress
<1>5. /\ "session" \notin agentSpan[s].landed /\ "turn" \notin agentSpan[s].landed
      /\ pc = "session" => a.agent = TRUE /\ a.user = TRUE
      /\ pc = "over" => ~(a.agent = TRUE /\ a.user = TRUE /\ a.tokens = TRUE)
  <2>1. "session" \notin agentSpan[s].landed /\ "turn" \notin agentSpan[s].landed
    BY <1>2 DEF RunInv, LandsOnce
  <2>2. agentSpan'[s].pc = IF a.agent /\ a.user /\ R!Passes(a) THEN "session" ELSE "over"
    BY <1>3 DEF R!EndSpan, R!Progress
  <2>3. a.agent \in BOOLEAN /\ a.user \in BOOLEAN /\ a.tokens \in BOOLEAN
    BY DEF R!Attributes
  <2>4. QED
    BY <1>4, <2>1, <2>2, <2>3 DEF R!Passes
<1>6. RunTypes'
  BY <1>2, <1>4 DEF RunInv, RunTypes
<1>7. StartIsBrought'
  BY <1>2, <1>4 DEF RunInv, StartIsBrought
<1>8. ShownAreOfAnEnd'
  <2>1. runDoc.tokens \in AgentSpans \cup {Nil}
    BY DEF RunInv, RunTypes, R!Document
  <2>2. QED
    BY <1>2, <1>4, <2>1 DEF RunInv, ShownAreOfAnEnd
<1>9. CostsOfLanded'
  <2>1. InSession' = InSession /\ \A t : InTurn(t)' = InTurn(t)
    BY <1>4, <1>5 DEF InSession, InTurn, Attrs
  <2>2. QED
    BY <1>2, <2>1 DEF RunInv, CostsOfLanded
<1>10. LandsOnce' /\ CostlyAreWritten'
  BY <1>2, <1>4, <1>5 DEF RunInv, LandsOnce, CostlyAreWritten, Attrs
<1>11. R!TurnsHaveAStart' /\ ShownTokensStay
  BY <1>2, SameTokensStay DEF RunInv, R!TurnsHaveAStart
<1>12. QED
  BY <1>6, <1>7, <1>8, <1>9, <1>10, <1>11 DEF RunInv

\* A span that ended keeps its attributes on its way through the three calls.
LEMMA UpsertMoves ==
  ASSUME RunInv, NEW s \in AgentSpans, agentSpan[s].pc \in {"session", "look", "turn"},
         R!WriteSession(s) \/ R!LookForTurn(s) \/ R!WriteTurn(s)
  PROVE  /\ agentSpan' \in [AgentSpans -> R!Progress]
         /\ agentSpan'[s].attrs = agentSpan[s].attrs /\ agentSpan'[s].pc \in {"look", "turn", "over"}
         /\ \A r \in AgentSpans : r # s => agentSpan'[r] = agentSpan[r]
<1>1. agentSpan \in [AgentSpans -> R!Progress] /\ agentSpan[s] \in R!Progress
  BY DEF RunInv, RunTypes
<1>2. CASE R!WriteSession(s)
  BY <1>1, <1>2 DEF R!WriteSession, R!Progress
<1>3. CASE R!LookForTurn(s)
  BY <1>1, <1>3 DEF R!LookForTurn, R!Progress
<1>4. CASE R!WriteTurn(s)
  BY <1>1, <1>4 DEF R!WriteTurn, R!Progress
<1>5. QED
  BY <1>2, <1>3, <1>4

LEMMA WriteSessionKeeps ==
  ASSUME R!RunAssumption, RunInv, NEW s \in AgentSpans, R!WriteSession(s)
  PROVE  RunInv' /\ ShownTokensStay
<1> DEFINE a == agentSpan[s].attrs
           m == R!Merged(runDoc, s)
<1>1. /\ agentSpan[s].pc = "session" /\ UNCHANGED <<runNow, lastWrite, turns>>
      /\ agentSpan'[s].pc = "look" /\ agentSpan'[s].attrs = a
      /\ agentSpan' \in [AgentSpans -> R!Progress]
      /\ \A r \in AgentSpans : r # s => agentSpan'[r] = agentSpan[r]
  <2>1. agentSpan[s].pc = "session" /\ UNCHANGED <<runNow, lastWrite, turns>>
    BY DEF R!WriteSession
  <2>2. agentSpan'[s].pc = "look"
    BY DEF R!WriteSession, RunInv, RunTypes, R!Progress
  <2>3. QED
    BY <2>1, <2>2, UpsertMoves
<1>2. \/ /\ runDoc' = m
         /\ agentSpan'[s].landed = agentSpan[s].landed \cup {"session"}
      \/ /\ runDoc' = runDoc
         /\ agentSpan'[s].landed = agentSpan[s].landed /\ agentSpan'[s].failed = TRUE
  BY DEF R!WriteSession, RunInv, RunTypes, R!Progress
<1>3. /\ a \in R!Attributes /\ a.cost \in {0, 1} /\ runDoc \in R!Document
      /\ "session" \notin agentSpan[s].landed /\ "turn" \notin agentSpan[s].landed
      /\ a.agent = TRUE /\ a.user = TRUE
  BY <1>1 DEF RunInv, RunTypes, LandsOnce, Attrs, R!Attributes
<1>4. /\ m \in R!Document /\ m.cost = runDoc.cost + a.cost
      /\ m.tokens = runDoc.tokens \/ (m.tokens = s /\ a.tokens = TRUE)
  BY <1>3, MergeKeeps
<1>5. RunTypes' /\ StartIsBrought' /\ R!TurnsHaveAStart'
  <2>1. runDoc' \in R!Document
    BY <1>2, <1>3, <1>4
  <2>2. RunTypes'
    BY <1>1, <1>3, <2>1 DEF RunInv, RunTypes
  <2>3. QED
    BY <1>1, <2>2 DEF RunInv, StartIsBrought, R!TurnsHaveAStart
<1>6. runDoc.tokens \in AgentSpans \cup {Nil} /\ Nil \notin AgentSpans
  BY <1>3 DEF R!Document, R!RunAssumption
<1>7. \/ runDoc'.tokens = runDoc.tokens
      \/ runDoc'.tokens = s /\ a.tokens = TRUE
  BY <1>2, <1>4
<1>8. ShownAreOfAnEnd' /\ ShownTokensStay
  <2>1. ShownAreOfAnEnd'
    BY <1>1, <1>6, <1>7 DEF RunInv, ShownAreOfAnEnd
  <2>2. runDoc.tokens # Nil => runDoc'.tokens # Nil /\ agentSpan[runDoc'.tokens].attrs.tokens = TRUE
    BY <1>6, <1>7 DEF RunInv, ShownAreOfAnEnd
  <2>3. QED
    BY <1>1, <2>1, <2>2 DEF ShownTokensStay
<1> HIDE DEF m
<1>9. LandsOnce' /\ CostlyAreWritten'
  BY <1>1, <1>2, <1>3 DEF RunInv, LandsOnce, CostlyAreWritten, Attrs
<1>10. CostsOfLanded'
  <2>1. \A t : InTurn(t)' = InTurn(t)
    BY <1>1, <1>2 DEF InTurn, Attrs
  <2>2. runDoc'.cost = Cardinality(InSession')
    <3>1. IsFiniteSet(InSession) /\ Cardinality(InSession) \in Nat /\ runDoc.cost = Cardinality(InSession)
      BY RunFiniteness, FS_Subset, FS_CardinalityType DEF InSession, R!RunAssumption, RunInv, CostsOfLanded
    <3>2. CASE runDoc' = m /\ "session" \in agentSpan'[s].landed /\ a.cost = 1
      <4>1. InSession' = InSession \cup {s} /\ s \notin InSession
        BY <1>1, <1>3, <3>2 DEF InSession, Attrs
      <4>2. Cardinality(InSession') = Cardinality(InSession) + 1
        BY <3>1, <4>1, FS_AddElement
      <4>3. QED
        BY <1>4, <3>1, <3>2, <4>2
    <3>3. CASE runDoc' = m /\ a.cost = 0
      <4>1. InSession' = InSession
        BY <1>1, <3>3 DEF InSession, Attrs
      <4>2. QED
        BY <1>4, <3>1, <3>3, <4>1
    <3>4. CASE runDoc' = runDoc /\ agentSpan'[s].landed = agentSpan[s].landed
      <4>1. InSession' = InSession
        BY <1>1, <3>4 DEF InSession, Attrs
      <4>2. QED
        BY <3>1, <3>4, <4>1
    <3>5. QED
      BY <1>2, <1>3, <3>2, <3>3, <3>4
  <2>3. QED
    BY <1>1, <2>1, <2>2 DEF RunInv, CostsOfLanded
<1>11. QED
  BY <1>5, <1>8, <1>9, <1>10 DEF RunInv

\* A step that leaves the session's document alone, and who landed in it.
LEMMA SessionIsLeftAlone ==
  ASSUME RunInv, NEW s \in AgentSpans, agentSpan[s].pc \in {"look", "turn"}, UNCHANGED runDoc,
         agentSpan'[s].attrs = agentSpan[s].attrs, agentSpan'[s].pc \in {"look", "turn", "over"},
         "session" \in agentSpan'[s].landed <=> "session" \in agentSpan[s].landed,
         \A r \in AgentSpans : r # s => agentSpan'[r] = agentSpan[r]
  PROVE  ShownAreOfAnEnd' /\ InSession' = InSession
<1>1. runDoc.tokens \in AgentSpans \cup {Nil}
  BY DEF RunInv, RunTypes, R!Document
<1>2. InSession' = InSession
  BY DEF InSession, Attrs
<1>3. ShownAreOfAnEnd'
  BY <1>1 DEF RunInv, ShownAreOfAnEnd
<1>4. QED
  BY <1>2, <1>3

\* The look finds the turn's document or tells the span to bring its start.
LEMMA LookForTurnKeeps ==
  ASSUME RunInv, NEW s \in AgentSpans, R!LookForTurn(s) PROVE RunInv' /\ ShownTokensStay
<1>1. agentSpan[s].pc = "look" /\ UNCHANGED <<runNow, lastWrite, runDoc, turns>>
  BY DEF R!LookForTurn
<1>2. /\ agentSpan' \in [AgentSpans -> R!Progress]
      /\ agentSpan'[s].attrs = agentSpan[s].attrs
      /\ \A r \in AgentSpans : r # s => agentSpan'[r] = agentSpan[r]
  BY <1>1, UpsertMoves
<1>3. /\ agentSpan'[s].landed = agentSpan[s].landed
      /\ \/ /\ agentSpan'[s].pc = "turn" /\ agentSpan'[s].failed = agentSpan[s].failed
            /\ agentSpan'[s].first = (turns[agentSpan[s].attrs.trace] = Nil)
         \/ agentSpan'[s].pc = "over" /\ agentSpan'[s].failed = TRUE
  BY DEF R!LookForTurn, RunInv, RunTypes, R!Progress
<1>4. RunTypes'
  BY <1>1, <1>2 DEF RunInv, RunTypes
<1>5. StartIsBrought'
  BY <1>1, <1>2, <1>3 DEF RunInv, StartIsBrought
<1>6. ShownAreOfAnEnd' /\ CostsOfLanded'
  <2>1. ShownAreOfAnEnd' /\ InSession' = InSession
    BY <1>1, <1>2, <1>3, SessionIsLeftAlone
  <2>2. \A t : InTurn(t)' = InTurn(t)
    BY <1>2, <1>3 DEF InTurn, Attrs
  <2>3. QED
    BY <1>1, <2>1, <2>2 DEF RunInv, CostsOfLanded
<1>7. LandsOnce' /\ CostlyAreWritten'
  BY <1>1, <1>2, <1>3 DEF RunInv, LandsOnce, CostlyAreWritten, Attrs
<1>8. R!TurnsHaveAStart' /\ ShownTokensStay
  BY <1>1, SameTokensStay DEF RunInv, R!TurnsHaveAStart
<1>9. QED
  BY <1>4, <1>5, <1>6, <1>7, <1>8 DEF RunInv

\* The merge into the turn's document, which has its start from then on.
LEMMA WriteTurnKeeps ==
  ASSUME R!RunAssumption, RunInv, NEW s \in AgentSpans, R!WriteTurn(s) PROVE RunInv' /\ ShownTokensStay
<1> DEFINE a == agentSpan[s].attrs
           t == a.trace
           old == IF turns[t] = Nil THEN R!EmptyDoc ELSE turns[t]
           merged == R!Merged(old, s)
           new == IF agentSpan[s].first THEN [merged EXCEPT !.started = s] ELSE merged
<1>1. agentSpan[s].pc = "turn" /\ UNCHANGED <<runNow, lastWrite, runDoc>>
  BY DEF R!WriteTurn
<1>2. /\ agentSpan' \in [AgentSpans -> R!Progress]
      /\ agentSpan'[s].attrs = a /\ agentSpan'[s].pc = "over"
      /\ \A r \in AgentSpans : r # s => agentSpan'[r] = agentSpan[r]
  <2>1. agentSpan'[s].pc = "over"
    BY DEF R!WriteTurn, RunInv, RunTypes, R!Progress
  <2>2. QED
    BY <1>1, <2>1, UpsertMoves
<1>3. \/ /\ turns' = [turns EXCEPT ![t] = new] /\ agentSpan'[s].failed = agentSpan[s].failed
         /\ agentSpan'[s].landed = agentSpan[s].landed \cup {"turn"}
      \/ /\ turns' = turns /\ agentSpan'[s].failed = TRUE
         /\ agentSpan'[s].landed = agentSpan[s].landed
  BY DEF R!WriteTurn, RunInv, RunTypes, R!Progress
<1>4. /\ a \in R!Attributes /\ a.cost \in {0, 1} /\ t \in Traces /\ agentSpan[s].first \in BOOLEAN
      /\ turns \in [Traces -> R!Document \cup {Nil}] /\ Nil \notin AgentSpans /\ Nil \notin R!Document
      /\ "turn" \notin agentSpan[s].landed /\ a.agent = TRUE /\ a.user = TRUE
  BY <1>1 DEF RunInv, RunTypes, LandsOnce, Attrs, R!Attributes, R!Progress, R!RunAssumption
<1>5. old \in R!Document /\ (turns[t] = Nil => old.cost = 0)
  BY <1>4 DEF R!EmptyDoc, R!Document
<1>6. /\ merged \in R!Document /\ merged.started = old.started /\ merged.cost = old.cost + a.cost
      /\ merged.tokens = old.tokens \/ merged.tokens = s
  <2> HIDE DEF old
  <2>1. QED
    BY <1>4, <1>5, MergeKeeps
<1>7. /\ new \in R!Document /\ new.tokens = merged.tokens /\ new.cost = merged.cost
      /\ agentSpan[s].first = TRUE => new.started = s
      /\ agentSpan[s].first = FALSE => new.started = old.started
  <2>1. CASE agentSpan[s].first = TRUE
    <3>1. new = [merged EXCEPT !.started = s]
      BY <2>1
    <3> HIDE DEF new, merged
    <3>2. QED
      BY <1>6, <2>1, <3>1 DEF R!Document
  <2>2. CASE agentSpan[s].first = FALSE
    <3>1. new = merged
      BY <2>2
    <3> HIDE DEF new, merged
    <3>2. QED
      BY <1>6, <2>2, <3>1
  <2>3. QED
    BY <1>4, <2>1, <2>2
<1>8. /\ turns[t] # Nil => old = turns[t]
      /\ turns[t] = Nil => agentSpan[s].first = TRUE
  BY <1>1, <1>4 DEF RunInv, StartIsBrought
<1>9. new.started # Nil
  BY <1>4, <1>7, <1>8 DEF RunInv, R!TurnsHaveAStart
<1> HIDE DEF a, t, old, merged, new
<1>10. /\ turns' \in [Traces -> R!Document \cup {Nil}]
       /\ \A q \in Traces : turns'[q] = turns[q] \/ (q = t /\ turns'[q] = new)
  BY <1>3, <1>4, <1>7
<1>11. RunTypes'
  BY <1>1, <1>2, <1>4, <1>10 DEF RunInv, RunTypes
<1>12. StartIsBrought'
  <2>1. new # Nil
    BY <1>4, <1>7
  <2>2. ASSUME NEW r \in AgentSpans, agentSpan'[r].pc = "turn"
        PROVE  agentSpan'[r].first \/ turns'[agentSpan'[r].attrs.trace] # Nil
    <3>1. r # s /\ agentSpan'[r] = agentSpan[r]
      BY <1>2, <2>2
    <3>2. agentSpan[r].attrs.trace \in Traces
      BY <2>2, <3>1 DEF RunInv, RunTypes, R!Attributes
    <3>3. QED
      BY <1>10, <2>1, <2>2, <3>1, <3>2 DEF RunInv, StartIsBrought
  <2>3. QED
    BY <2>2 DEF StartIsBrought
<1>13. ShownAreOfAnEnd' /\ InSession' = InSession
  BY <1>1, <1>2, <1>3, SessionIsLeftAlone DEF a
<1>14. LandsOnce' /\ CostlyAreWritten'
  BY <1>1, <1>2, <1>3, <1>4 DEF RunInv, LandsOnce, CostlyAreWritten, Attrs, a
<1>15. CostsOfLanded'
  <2>1. ASSUME NEW q \in Traces
        PROVE  /\ turns'[q] # Nil => turns'[q].cost = Cardinality(InTurn(q)')
               /\ turns'[q] = Nil => InTurn(q)' = {}
    <3>1. /\ turns[q] # Nil => turns[q].cost = Cardinality(InTurn(q))
          /\ turns[q] = Nil => InTurn(q) = {}
      BY DEF RunInv, CostsOfLanded
    <3>2. CASE turns' = turns /\ agentSpan'[s].landed = agentSpan[s].landed
      <4>1. InTurn(q)' = InTurn(q)
        BY <1>2, <3>2 DEF InTurn, Attrs, a
      <4>2. QED
        BY <3>1, <3>2, <4>1
    <3>3. CASE turns' = [turns EXCEPT ![t] = new] /\ agentSpan'[s].landed = agentSpan[s].landed \cup {"turn"} /\ q # t
      <4>1. InTurn(q)' = InTurn(q)
        BY <1>2, <3>3 DEF InTurn, Attrs, a, t
      <4>2. turns'[q] = turns[q]
        BY <1>4, <3>3
      <4>3. QED
        BY <3>1, <4>1, <4>2
    <3>4. CASE turns' = [turns EXCEPT ![t] = new] /\ agentSpan'[s].landed = agentSpan[s].landed \cup {"turn"} /\ q = t
      <4>1. turns'[q] = new /\ new # Nil
        BY <1>4, <1>7, <3>4
      <4>2. IsFiniteSet(InTurn(q)) /\ Cardinality(InTurn(q)) \in Nat
        BY RunFiniteness, FS_Subset, FS_CardinalityType DEF InTurn, R!RunAssumption
      <4>3. old.cost = Cardinality(InTurn(q))
        BY <1>5, <1>8, <3>1, <3>4, FS_EmptySet
      <4>4. CASE a.cost = 1
        <5>1. InTurn(q)' = InTurn(q) \cup {s} /\ s \notin InTurn(q)
          BY <1>2, <1>4, <3>4, <4>4 DEF InTurn, Attrs, a, t
        <5>2. Cardinality(InTurn(q)') = Cardinality(InTurn(q)) + 1
          BY <4>2, <5>1, FS_AddElement
        <5>3. QED
          BY <1>6, <1>7, <4>1, <4>3, <4>4, <5>2
      <4>5. CASE a.cost = 0
        <5>1. InTurn(q)' = InTurn(q)
          BY <1>2, <4>5 DEF InTurn, Attrs, a
        <5>2. QED
          BY <1>6, <1>7, <4>1, <4>2, <4>3, <4>5, <5>1
      <4>6. QED
        BY <1>4, <4>4, <4>5
    <3>5. QED
      BY <1>3, <3>2, <3>3, <3>4
  <2>2. runDoc'.cost = Cardinality(InSession')
    BY <1>1, <1>13 DEF RunInv, CostsOfLanded
  <2>3. QED
    BY <2>1, <2>2 DEF CostsOfLanded
<1>16. R!TurnsHaveAStart'
  BY <1>9, <1>10 DEF RunInv, R!TurnsHaveAStart
<1>17. ShownTokensStay
  <2>1. runDoc.tokens # Nil => runDoc'.tokens # Nil /\ agentSpan[runDoc'.tokens].attrs.tokens = TRUE
    BY <1>1 DEF RunInv, ShownAreOfAnEnd
  <2>2. ASSUME NEW q \in Traces, turns[q] # Nil, turns[q].tokens # Nil PROVE turns'[q].tokens # Nil
    BY <1>4, <1>6, <1>7, <1>8, <1>10, <2>2
  <2>3. QED
    BY <2>1, <2>2 DEF ShownTokensStay
<1>18. QED
  BY <1>11, <1>12, <1>13, <1>14, <1>15, <1>16, <1>17 DEF RunInv

LEMMA RunsGoOn ==
  ASSUME R!RunAssumption, RunInv, [R!RunNext]_R!runVars PROVE RunInv' /\ [ShownTokensStay]_R!runVars
<1>1. CASE \E s \in AgentSpans : \E a \in R!Attributes : R!EndSpan(s, a)
  BY <1>1, EndRunKeeps
<1>2. CASE \E s \in AgentSpans : R!WriteSession(s) \/ R!LookForTurn(s) \/ R!WriteTurn(s)
  BY <1>2, WriteSessionKeeps, LookForTurnKeeps, WriteTurnKeeps
<1>3. CASE R!Tick \/ UNCHANGED R!runVars
  <2>1. UNCHANGED <<agentSpan, lastWrite, runDoc, turns>> /\ runNow' \in {runNow, runNow + 1}
    BY <1>3 DEF R!Tick, R!runVars
  <2>2. InSession' = InSession /\ \A t : InTurn(t)' = InTurn(t)
    BY <2>1 DEF InSession, InTurn, Attrs
  <2>3. RunTypes'
    BY <2>1 DEF RunInv, RunTypes
  <2>4. CostsOfLanded' /\ LandsOnce' /\ CostlyAreWritten'
    BY <2>1, <2>2 DEF RunInv, CostsOfLanded, LandsOnce, CostlyAreWritten, Attrs
  <2>5. QED
    BY <2>1, <2>3, <2>4, SameTokensStay DEF RunInv, StartIsBrought, ShownAreOfAnEnd, R!TurnsHaveAStart
<1>4. QED
  BY <1>1, <1>2, <1>3 DEF R!RunNext

\* The sums of CostsAddUp are those of the invariant.
LEMMA RunCostsAddUp == ASSUME RunInv PROVE R!CostsAddUp
<1>1. ASSUME NEW s \in AgentSpans, agentSpan[s].pc # "running"
      PROVE  /\ Attrs(s).agent \in BOOLEAN /\ Attrs(s).user \in BOOLEAN /\ Attrs(s).tokens \in BOOLEAN
             /\ Attrs(s).cost = 1 => Attrs(s).tokens = TRUE
  BY <1>1 DEF RunInv, RunTypes, Attrs, R!Attributes
<1>2. \A s \in AgentSpans :
        s \in R!Counted <=> agentSpan[s].pc # "running" /\ Attrs(s).agent = TRUE /\ Attrs(s).user = TRUE
  BY <1>1 DEF R!Counted, Attrs
<1>3. R!Counted \subseteq AgentSpans
  BY DEF R!Counted
<1>4. \A s \in AgentSpans : "session" \in agentSpan[s].landed \/ "turn" \in agentSpan[s].landed => s \in R!Counted
  BY <1>2 DEF RunInv, LandsOnce
<1>5. R!Costs({s \in R!Counted : "session" \in agentSpan[s].landed}) = Cardinality(InSession)
  <2>1. {s \in {s \in R!Counted : "session" \in agentSpan[s].landed} : agentSpan[s].attrs.cost = 1} = InSession
    BY <1>3, <1>4 DEF InSession, Attrs
  <2>2. QED
    BY <2>1, RunFiniteness DEF R!Costs
<1>6. ASSUME NEW t \in Traces
      PROVE  R!Costs({s \in R!Counted : "turn" \in agentSpan[s].landed /\ agentSpan[s].attrs.trace = t})
               = Cardinality(InTurn(t))
  <2>1. {s \in {s \in R!Counted : "turn" \in agentSpan[s].landed /\ agentSpan[s].attrs.trace = t} :
           agentSpan[s].attrs.cost = 1} = InTurn(t)
    BY <1>3, <1>4 DEF InTurn, Attrs
  <2>2. QED
    BY <2>1, RunFiniteness DEF R!Costs
<1>7. ASSUME \A s \in R!Counted : agentSpan[s].pc = "over" /\ ~agentSpan[s].failed
      PROVE  R!Costs(R!Counted) = Cardinality(InSession)
  <2>1. ASSUME NEW s \in R!Counted, Attrs(s).cost = 1 PROVE "session" \in agentSpan[s].landed
    <3>1. /\ s \in AgentSpans /\ agentSpan[s].pc = "over" /\ agentSpan[s].failed = FALSE
          /\ Attrs(s).agent = TRUE /\ Attrs(s).user = TRUE /\ Attrs(s).tokens = TRUE
      <4>1. s \in AgentSpans /\ agentSpan[s].failed \in BOOLEAN
        BY <1>3 DEF RunInv, RunTypes, R!Progress
      <4>2. QED
        BY <1>1, <1>2, <1>7, <2>1, <4>1
    <3>2. QED
      BY <3>1 DEF RunInv, CostlyAreWritten
  <2>2. {s \in R!Counted : agentSpan[s].attrs.cost = 1} = InSession
    BY <1>3, <1>4, <2>1 DEF InSession, Attrs
  <2>3. QED
    BY <2>2, RunFiniteness DEF R!Costs
<1>8. QED
  BY <1>5, <1>6, <1>7 DEF RunInv, CostsOfLanded, R!CostsAddUp

LEMMA RunsAreTyped == ASSUME R!RunAssumption, RunInv PROVE R!RunTypeOK
<1>1. IsFiniteSet(AgentSpans) /\ InSession \subseteq AgentSpans
  BY RunFiniteness DEF R!RunAssumption, InSession
<1>2. /\ Cardinality(InSession) <= Cardinality(AgentSpans)
      /\ Cardinality(InSession) \in Nat /\ Cardinality(AgentSpans) \in Nat
  BY <1>1, FS_Subset, FS_CardinalityType
<1>3. runDoc.cost = Cardinality(InSession) /\ runDoc.tokens \in AgentSpans \cup {Nil}
  BY DEF RunInv, RunTypes, CostsOfLanded, R!Document
<1>4. runDoc.cost \in 0 .. R!Cardinality(AgentSpans)
  BY <1>2, <1>3, RunFiniteness
<1>5. \A t \in Traces : turns[t] # Nil =>
        turns[t].tokens \in AgentSpans \cup {Nil} /\ turns[t].started \in AgentSpans \cup {Nil}
  BY DEF RunInv, RunTypes, R!Document
<1>6. QED
  BY <1>3, <1>4, <1>5 DEF RunInv, RunTypes, R!RunTypeOK

\* LiveSpanProcessor and AgentRunsRepo, for any spans, turns, times and failures:
\* the running totals are the costs of the spans whose write landed, none of which
\* the throttle holds back; no turn's document is without its start, and tokens
\* once shown are never blanked, however the calls of spans that end at the same
\* time interleave.
THEOREM RunDocumentsAlwaysAddUp == R!RunSpec => RunDocumentsAddUp
<1> USE RunsAssumption
<1> SUFFICES R!RunSpec => []R!RunTypeOK /\ []R!CostsAddUp /\ []R!TurnsHaveAStart /\ R!TokensStay
  BY DEF RunDocumentsAddUp, R!RunDocumentsAddUp
<1>1. R!RunInit => RunInv
  BY RunsStart
<1>2. RunInv /\ [R!RunNext]_R!runVars => RunInv' /\ [ShownTokensStay]_R!runVars
  BY RunsGoOn
<1>3. RunInv => R!RunTypeOK /\ R!CostsAddUp /\ R!TurnsHaveAStart
  BY RunsAreTyped, RunCostsAddUp DEF RunInv
<1>4. QED
  BY <1>1, <1>2, <1>3, PTL DEF R!RunSpec, R!TokensStay, ShownTokensStay
=============================================================================
