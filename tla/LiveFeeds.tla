------------------------------ MODULE LiveFeeds ------------------------------
(***************************************************************************)
(* The live event feeds: RunRegistry (one channel per session), the        *)
(* UserEventRegistry (one per user), and the SSE routes that drain them.   *)
(*                                                                         *)
(* A registry maps a key to a channel: a bounded queue with a count of its *)
(* subscribers.  The coroutines of the event loop look and act in one      *)
(* step.  put_nowait is also called by the routes and tools that run in    *)
(* worker threads; there another thread can come between the look at the   *)
(* registry and the use of what it found.                                  *)
(*                                                                         *)
(* An event is named by its key and by its position among the events put   *)
(* there.  What a client does after an event was sent is not modelled.     *)
(* Definitions named Slip_... are wrong variants, used by no specification *)
(* (see module Board).                                                     *)
(***************************************************************************)
EXTENDS Integers, Sequences, FiniteSets, FiniteSetsExt

CONSTANTS
  Sessions,      \* keys of the RunRegistry
  Users,         \* keys of the UserEventRegistry, disjoint from Sessions
  Tabs,          \* requests for a stream; each is made once (bound)
  Threads,       \* worker threads that emit events
  MaxQueue,      \* max_queue_size
  MaxEvents,     \* events put under one key (bound)
  None

VARIABLES
  reg,           \* both registries, with their channels
  tab,           \* tab[b]: the progress of the stream b
  emit,          \* emit[h]: the progress of an emission in thread h
  raced          \* whether a put used a stale look (observed by properties only)

feedVars == <<reg, tab, emit, raced>>

Keys == Sessions \cup Users

\* Queue objects; one is free whenever one is needed.
Channels == 1 .. (Cardinality(Keys) + Cardinality(Tabs) + Cardinality(Threads) + 1)

Events == Keys \X (1 .. MaxEvents)

\* of: the registered channel of a key; watchers: the field subscribers; count:
\* events put so far.  dropped, lost and sent record the ends of events, and
\* leaked the subscriptions nobody will end; only properties read these four.
Registry ==
  [of : [Keys -> Channels \cup {None}], queue : [Channels -> Seq(Events)],
   watchers : [Channels -> Nat], count : [Keys -> 0 .. MaxEvents],
   dropped : SUBSET Events, lost : SUBSET Events, sent : SUBSET Events,
   leaked : [Channels -> Nat]]

NoChannels ==
  [of |-> [k \in Keys |-> None], queue |-> [c \in Channels |-> <<>>],
   watchers |-> [c \in Channels |-> 0], count |-> [k \in Keys |-> 0],
   dropped |-> {}, lost |-> {}, sent |-> {}, leaked |-> [c \in Channels |-> 0]]

\* An asyncio.Queue of size 0 would have no bound at all.
FeedAssumption ==
  /\ IsFiniteSet(Keys) /\ IsFiniteSet(Tabs) /\ IsFiniteSet(Threads)
  /\ MaxQueue \in Nat \ {0} /\ MaxEvents \in Nat
  /\ None \notin Keys \cup Channels \cup Events

Elements(s) == {s[i] : i \in DOMAIN s}

IdleTab == [pc |-> "idle", key |-> None, chan |-> None, held |-> None, last |-> 0]

IdleEmit == [pc |-> "idle", todo |-> <<>>, chan |-> None, new |-> FALSE]

\* A queue object that nothing refers to.
FreeChannel ==
  CHOOSE c \in Channels :
    /\ \A k \in Keys : reg.of[k] # c
    /\ \A b \in Tabs : tab[b].chan # c
    /\ \A h \in Threads : emit[h].chan # c

-----------------------------------------------------------------------------
(* The registries.                                                         *)

\* A new channel c, stored for k over whatever is there.
Stored(r, k, c) ==
  [r EXCEPT !.of[k] = c, !.queue[c] = <<>>, !.watchers[c] = 0, !.leaked[c] = 0,
            !.lost = @ \cup Elements(r.queue[c])]

\* Slip: a full queue refuses the new event, and nobody counts it.
Slip_DropNewest(r, k, c) ==
  LET e == <<k, r.count[k] + 1>>
  IN [r EXCEPT !.count[k] = @ + 1,
               !.queue[c] = IF Len(r.queue[c]) < MaxQueue THEN Append(@, e) ELSE @]

\* Slip: the queue is not bounded.
Slip_PushAll(r, k, c) ==
  [r EXCEPT !.count[k] = @ + 1, !.queue[c] = Append(@, <<k, r.count[k] + 1>>)]

\* The event goes into the queue; the oldest makes room.
Pushed(r, k, c) ==
  LET e == <<k, r.count[k] + 1>>
      q == r.queue[c]
  IN IF Len(q) < MaxQueue
     THEN [r EXCEPT !.count[k] = @ + 1, !.queue[c] = Append(q, e)]
     ELSE [r EXCEPT !.count[k] = @ + 1, !.queue[c] = Append(Tail(q), e),
                    !.dropped = @ \cup {Head(q)}]

\* The channel of k, made if there is none.
Ensured(r, k) == IF r.of[k] = None THEN Stored(r, k, FreeChannel) ELSE r

Subscribed(r, k) ==
  LET made == Ensured(r, k)
  IN [made EXCEPT !.watchers[made.of[k]] = @ + 1]

\* Slip: an empty channel goes with any subscriber who leaves.
Slip_DropWatched(r, k) ==
  IF r.of[k] = None THEN r
  ELSE LET c == r.of[k]
           n == Max({0, r.watchers[c] - 1})
       IN IF r.queue[c] = <<>> THEN [r EXCEPT !.of[k] = None]
          ELSE [r EXCEPT !.watchers[c] = n]

\* Slip: the channel stays when its last subscriber leaves.
Slip_KeepChannel(r, k) ==
  IF r.of[k] = None THEN r
  ELSE [r EXCEPT !.watchers[r.of[k]] = Max({0, @ - 1})]

\* unsubscribe finds the channel by its key; an idle one goes.
Unsubscribed(r, k) ==
  IF r.of[k] = None THEN r
  ELSE LET c == r.of[k]
           n == Max({0, r.watchers[c] - 1})
       IN IF n = 0 /\ r.queue[c] = <<>> THEN [r EXCEPT !.of[k] = None]
          ELSE [r EXCEPT !.watchers[c] = n]

-----------------------------------------------------------------------------
(* Emission: BoardService._emit puts under the active session, if there is *)
(* one, and under the user; the LiveSpanProcessor puts under a session.    *)

Targets ==
  {<<s, u>> : s \in Sessions, u \in Users} \cup {<<k>> : k \in Keys}

MayPut(keys) == \A i \in DOMAIN keys : reg.count[keys[i]] < MaxEvents

\* Put(r, k) on the event loop, where nothing comes in between.
PutAtOnce(r, k) == LET made == Ensured(r, k) IN Pushed(made, k, made.of[k])

EmitOnLoop(k) ==
  /\ MayPut(<<k>>)
  /\ reg' = PutAtOnce(reg, k)
  /\ UNCHANGED <<tab, emit, raced>>

EmitInThread(h, keys) ==
  /\ emit[h].pc = "idle" /\ MayPut(keys)
  /\ emit' = [emit EXCEPT ![h] = [IdleEmit EXCEPT !.pc = "look", !.todo = keys]]
  /\ UNCHANGED <<reg, tab, raced>>

\* channels.get; a new channel object if there is none, not yet in the registry.
Look(h) ==
  LET k == Head(emit[h].todo)
  IN /\ emit[h].pc = "look"
     /\ emit' = [emit EXCEPT ![h].pc = "put", ![h].new = (reg.of[k] = None),
                             ![h].chan = IF reg.of[k] = None THEN FreeChannel ELSE reg.of[k]]
     /\ UNCHANGED <<reg, tab, raced>>

\* The new channel is stored, and the event goes into the channel found or made.
PutFound(h) ==
  LET k == Head(emit[h].todo)
      c == emit[h].chan
      rest == Tail(emit[h].todo)
      stale == IF emit[h].new THEN reg.of[k] # None ELSE reg.of[k] # c
  IN /\ emit[h].pc = "put" /\ MayPut(<<k>>)
     /\ reg' = Pushed(IF emit[h].new THEN Stored(reg, k, c) ELSE reg, k, c)
     /\ emit' = [emit EXCEPT ![h] = IF rest = <<>> THEN IdleEmit
                                    ELSE [IdleEmit EXCEPT !.pc = "look", !.todo = rest]]
     /\ raced' = (raced \/ stale)
     /\ UNCHANGED tab

-----------------------------------------------------------------------------
(* The SSE routes.                                                         *)

\* The stream of a run, for its owner: others are refused before this.
WatchRun(b, k) ==
  /\ tab[b].pc = "idle" /\ k \in Sessions
  /\ reg' = Subscribed(reg, k)
  /\ tab' = [tab EXCEPT ![b] = [IdleTab EXCEPT !.pc = "opening", !.key = k, !.chan = reg'.of[k]]]
  /\ UNCHANGED <<emit, raced>>

\* The stream of the user's events.
WatchUser(b, k) ==
  /\ tab[b].pc = "idle" /\ k \in Users
  /\ reg' = Subscribed(reg, k)
  /\ tab' = [tab EXCEPT ![b] = [IdleTab EXCEPT !.pc = "opening", !.key = k, !.chan = reg'.of[k]]]
  /\ UNCHANGED <<emit, raced>>

\* The response begins to iterate the generator.
Stream(b) ==
  /\ tab[b].pc = "opening"
  /\ tab' = [tab EXCEPT ![b].pc = "waiting"]
  /\ UNCHANGED <<reg, emit, raced>>

\* The client is gone before that: the generator's finally never runs.
Abandon(b) ==
  /\ tab[b].pc = "opening"
  /\ tab' = [tab EXCEPT ![b] = [IdleTab EXCEPT !.pc = "gone"]]
  /\ reg' = [reg EXCEPT !.leaked[tab[b].chan] = @ + 1]
  /\ UNCHANGED <<emit, raced>>

\* Slip: the generator takes one event only.
Slip_TakeOnce(b) ==
  LET q == reg.queue[tab[b].chan]
  IN /\ tab[b].pc = "waiting" /\ q # <<>> /\ tab[b].last = 0
     /\ reg' = [reg EXCEPT !.queue[tab[b].chan] = Tail(q)]
     /\ tab' = [tab EXCEPT ![b].pc = "sending", ![b].held = Head(q), ![b].last = Head(q)[2]]
     /\ UNCHANGED <<emit, raced>>

Take(b) ==
  LET q == reg.queue[tab[b].chan]
  IN /\ tab[b].pc = "waiting" /\ q # <<>>
     /\ reg' = [reg EXCEPT !.queue[tab[b].chan] = Tail(q)]
     /\ tab' = [tab EXCEPT ![b].pc = "sending", ![b].held = Head(q), ![b].last = Head(q)[2]]
     /\ UNCHANGED <<emit, raced>>

Send(b) ==
  /\ tab[b].pc = "sending"
  /\ reg' = [reg EXCEPT !.sent = @ \cup {tab[b].held}]
  /\ tab' = [tab EXCEPT ![b].pc = "waiting", ![b].held = None]
  /\ UNCHANGED <<emit, raced>>

\* Slip: the event in hand is put back, if there is room.
Slip_PutBack(b) ==
  /\ tab[b].pc \in {"waiting", "sending"}
  /\ LET r == Unsubscribed(reg, tab[b].key)
         c == tab[b].chan
     IN reg' = IF tab[b].pc = "waiting" THEN r
               ELSE IF Len(r.queue[c]) < MaxQueue THEN [r EXCEPT !.queue[c] = <<tab[b].held>> \o @]
               ELSE [r EXCEPT !.lost = @ \cup {tab[b].held}]
  /\ tab' = [tab EXCEPT ![b] = [IdleTab EXCEPT !.pc = "gone"]]
  /\ UNCHANGED <<emit, raced>>

\* The client leaves: the generator ends, or is cancelled with an event in hand.
Leave(b) ==
  /\ tab[b].pc \in {"waiting", "sending"}
  /\ LET r == Unsubscribed(reg, tab[b].key)
     IN reg' = [r EXCEPT !.lost = IF tab[b].pc = "sending" THEN @ \cup {tab[b].held} ELSE @]
  /\ tab' = [tab EXCEPT ![b] = [IdleTab EXCEPT !.pc = "gone"]]
  /\ UNCHANGED <<emit, raced>>

-----------------------------------------------------------------------------

FeedInit ==
  /\ reg = NoChannels
  /\ tab = [b \in Tabs |-> IdleTab]
  /\ emit = [h \in Threads |-> IdleEmit]
  /\ raced = FALSE

FeedNext ==
  \/ \E k \in Keys : EmitOnLoop(k)
  \/ \E h \in Threads : Look(h) \/ PutFound(h) \/ \E keys \in Targets : EmitInThread(h, keys)
  \/ \E b \in Tabs : \/ \E k \in Keys : WatchRun(b, k) \/ WatchUser(b, k)
                     \/ Stream(b) \/ Abandon(b) \/ Take(b) \/ Send(b) \/ Leave(b)

\* The event loop serves every open stream.
FeedFairness == \A b \in Tabs : WF_feedVars(Take(b)) /\ WF_feedVars(Send(b))

FeedSpec == FeedInit /\ [][FeedNext]_feedVars /\ FeedFairness

-----------------------------------------------------------------------------
(* Properties.                                                             *)

FeedTypeOK ==
  /\ reg.of \in [Keys -> Channels \cup {None}]
  /\ \A c \in Channels : /\ Elements(reg.queue[c]) \subseteq Events
                         /\ Len(reg.queue[c]) <= MaxQueue
                         /\ reg.watchers[c] \in 0 .. Cardinality(Tabs)
  /\ \A b \in Tabs : /\ tab[b].pc \in {"idle", "opening", "waiting", "sending", "gone"}
                     /\ tab[b].pc \in {"opening", "waiting", "sending"} <=> tab[b].chan \in Channels
                     /\ tab[b].pc = "sending" <=> tab[b].held \in Events
  /\ \A h \in Threads : emit[h].pc \in {"idle", "look", "put"}

Attached(k) == {b \in Tabs : tab[b].key = k}

Put(e) == e[2] <= reg.count[e[1]]

\* Every event that was put is in one place: a queue, the hand of one stream,
\* sent to one client, dropped from a full queue, or lost with a channel or a
\* client that went.  No event is sent to two clients, none disappears
\* otherwise; RunRegistry.put_nowait, SSE generators.
EventsHaveOnePlace ==
  \A e \in Events :
    LET places == {<<"queue", c>> : c \in {c \in Channels : e \in Elements(reg.queue[c])}}
                    \cup {<<"hand", b>> : b \in {b \in Tabs : tab[b].held = e}}
                    \cup {<<"end", s>> : s \in {s \in {"sent", "dropped", "lost"} : e \in reg[s]}}
    IN Cardinality(places) = IF Put(e) THEN 1 ELSE 0

\* Unless a worker thread put an event through a stale look, every stream waits
\* on the channel its events are put into, and unsubscribe's count is exact:
\* the streams there, and those whose client left before the first event.
StreamsStayAttached ==
  ~raced => \A k \in Keys : \A b \in Attached(k) :
     /\ tab[b].chan = reg.of[k]
     /\ reg.watchers[reg.of[k]] = Cardinality(Attached(k)) + reg.leaked[reg.of[k]]

\* Unless raced, a channel without events is there for the sake of a
\* subscription: the collection in unsubscribe leaves no idle channel.
IdleChannelsAreWatched ==
  ~raced => \A k \in Keys :
     (reg.of[k] # None /\ reg.queue[reg.of[k]] = <<>>) => reg.watchers[reg.of[k]] > 0

\* A stream sends events in the order in which they were put, races or not.
TakesInOrder ==
  [][\A b \in Tabs : tab'[b].held # tab[b].held /\ tab'[b].held # None
                       => tab'[b].held[2] > tab[b].last]_feedVars

\* An event that is queued while a client watches its feed leaves the queue, as
\* long as somebody watches and no put has raced.
WatchedEventsMove ==
  \A e \in Events :
    LET waits == \E c \in Channels : e \in Elements(reg.queue[c]) /\ reg.of[e[1]] = c
        watched == \E b \in Attached(e[1]) : tab[b].pc \in {"waiting", "sending"}
    IN (waits /\ watched) ~> (~waits \/ ~watched \/ raced)

\* RunRegistry and the SSE routes: what is put is sent once and in order, or its
\* end is known, to streams on the channel it was put into; nothing is kept for
\* nobody.
FeedsAreExact ==
  /\ []FeedTypeOK /\ []EventsHaveOnePlace /\ []StreamsStayAttached /\ []IdleChannelsAreWatched
  /\ TakesInOrder
=============================================================================
