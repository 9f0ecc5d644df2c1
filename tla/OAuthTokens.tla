----------------------------- MODULE OAuthTokens -----------------------------
(***************************************************************************)
(* OAuth credentials of one model provider: OAuthTokenManager, its refresh *)
(* loop, the routes that write or refresh the secret, and the synchronous  *)
(* CatalogService.resolve_api_key, for one path in Secret Manager.         *)
(*                                                                         *)
(* A bundle is an access token with the refresh token that renews it.  The *)
(* token endpoint may rotate: it then revokes the refresh token presented. *)
(* A per-path asyncio.Lock is held over every read, exchange and write.    *)
(* Calls to Secret Manager run in threads and calls to the endpoint on the *)
(* network, so they end at any time, but a coroutine goes on only when its *)
(* loop runs: resolve_api_key is called by coroutines of the main loop and *)
(* stops it until a worker, with a loop of its own, has the token.         *)
(*                                                                         *)
(* Definitions named Slip_... are wrong variants, used by no specification *)
(* (see module Board).                                                     *)
(***************************************************************************)
EXTENDS Integers, Sequences

CONSTANTS
  Loop,        \* the background refresh loop
  Worker,      \* the thread that resolves a key while the main loop waits
  Admins,      \* refresh-now requests that may be in flight together
  Faults,      \* what may fail: see Fault
  MaxFaults,   \* bound: failures
  MaxToken,    \* bound: tokens issued
  None

VARIABLES
  secret,      \* the bundle in the latest version of the secret, or None
  cache,       \* the manager's cache entry, or None
  lock,        \* the lock of the path
  op,          \* op[t]: where the operation of t stands
  configured,  \* a provider in the catalog names the path
  tracked,     \* the path is registered with the manager
  looping,     \* the refresh loop was started
  live,        \* the refresh tokens that the endpoint accepts
  near,        \* access tokens within the margin of their expiry
  issued,      \* the number of the last token issued
  answer,      \* what the last resolve returned (0: nothing)
  faults,      \* failures so far
  lost,        \* the write of a rotated one failed       (observed by the
  replaced,    \* access tokens whose successor was stored  properties
  seen         \* those replaced when the last resolve began    only)

manager == <<cache, lock, op>>
wiring == <<configured, tracked, looping>>
endpoint == <<live, near, issued>>
history == <<lost, replaced, seen>>
vars == <<secret, manager, wiring, endpoint, answer, faults, history>>

Tasks == {Loop, Worker} \cup Admins

\* A read or a write of the secret raises; a write raises after it took
\* effect; a request to the endpoint, or its response, is lost; the process dies.
Fault == {"read", "write", "written", "request", "response", "crash"}

ASSUME OAuthAssumption ==
  /\ None \notin Tasks /\ Loop # Worker /\ {Loop, Worker} \cap Admins = {}
  /\ Faults \subseteq Fault /\ MaxFaults \in Nat /\ MaxToken \in Nat \ {0}

\* Tokens are numbered as they are issued.  refresh is 0 in a bundle without
\* a refresh token, such as a plain string stored before bundles existed.
Bundle == [access : 1..MaxToken, refresh : 0..MaxToken]

ASSUME NoneIsNoBundle == None \notin Bundle

\* The lock with its holder, the tasks that wait for it, and the event loop
\* it was bound to when a task first had to wait.
LockState == [holder : Tasks \cup {None}, waiters : Seq(Tasks), loop : {"main", "worker", None}]

\* "called": the worker is starting; "queued": waiting for the lock; "read",
\* "exchange" and "write": waiting for an answer from outside, which
\* "readDone", "answered", "stored" and "unstored" have; "raw": about to read
\* the secret without the manager.
Stage == {"idle", "called", "queued", "read", "readDone", "exchange", "answered",
          "write", "stored", "unstored", "raw"}
Op == [at : Stage, bundle : Bundle \cup {None}, new : Bundle \cup {None}]

Idle == [at |-> "idle", bundle |-> None, new |-> None]

\* The main loop runs nothing while it waits for the worker.
Runs(t) == t = Worker \/ op[Worker].at = "idle"

EventLoop(t) == IF t = Worker THEN "worker" ELSE "main"

CanFail(f) == f \in Faults /\ faults < MaxFaults

-----------------------------------------------------------------------------
(* The end of an operation.                                                *)

\* Slip: the lock is never released.
Slip_Release(lk) == lk

Release(lk) == [lk EXCEPT !.holder = None]

\* The operation returns access token a, which matters to the worker only.
\* If the worker took more than its 30 seconds, the token is not used.
Returns(t, a) ==
  \/ /\ op' = [op EXCEPT ![t] = Idle]
     /\ answer' = IF t = Worker THEN a ELSE answer
  \/ /\ t = Worker
     /\ op' = [op EXCEPT ![t] = [Idle EXCEPT !.at = "raw"]]
     /\ UNCHANGED answer

\* It raises: logged by the loop, answered 502 by the route, and caught by
\* resolve_api_key, which then reads the secret itself.
Raises(t) ==
  /\ op' = [op EXCEPT ![t] = IF t = Worker THEN [Idle EXCEPT !.at = "raw"] ELSE Idle]
  /\ UNCHANGED answer

-----------------------------------------------------------------------------
(* The body of an operation, under the lock.                               *)

\* Slip: only a request renews a token.
Slip_DueOnRequest(t, b) == b # None /\ b.refresh # 0 /\ t \in Admins

\* refresh_now renews any bundle, the others one that is close to its expiry.
Due(t, b) == b # None /\ b.refresh # 0 /\ (t \in Admins \/ b.access \in near)

\* Task t, with the lock lk, has read bundle b.
Consider(t, b, lk) ==
  \/ /\ Due(t, b)
     /\ op' = [op EXCEPT ![t] = [at |-> "exchange", bundle |-> b, new |-> None]]
     /\ lock' = lk
     /\ UNCHANGED answer
  \/ /\ ~Due(t, b)
     /\ Returns(t, IF b = None THEN 0 ELSE b.access)
     /\ lock' = Release(lk)

CacheHit == cache # None /\ cache.fresh

\* Task t takes the lock as lk and looks the bundle up.
LookUp(t, lk) ==
  /\ \/ /\ CacheHit
        /\ Consider(t, cache.bundle, lk)
     \/ /\ ~CacheHit
        /\ op' = [op EXCEPT ![t] = [Idle EXCEPT !.at = "read"]]
        /\ lock' = lk
        /\ UNCHANGED answer
  /\ UNCHANGED <<secret, cache, wiring, endpoint, faults, history>>

Starts(t) ==
  \/ t = Worker /\ op[t].at = "called"
  \/ t = Loop /\ op[t].at = "idle" /\ looping /\ tracked
  \/ t \in Admins /\ op[t].at = "idle"

Unlocked == lock.holder = None /\ lock.waiters = <<>>

\* Slip: the lock is taken without looking whether it is held.
Slip_EnterUnlocked(t) ==
  /\ Runs(t) /\ Starts(t)
  /\ LookUp(t, [lock EXCEPT !.holder = t])

\* tick_once for the path, refresh_now, or the worker's get_access_token.  A
\* lock that is not free binds itself to the loop of the first task that
\* waits for it, and raises RuntimeError to a task of another loop.
Enter(t) ==
  /\ Runs(t) /\ Starts(t)
  /\ \/ /\ Unlocked
        /\ LookUp(t, [lock EXCEPT !.holder = t])
     \/ /\ ~Unlocked /\ lock.loop \in {None, EventLoop(t)}
        /\ lock' = [lock EXCEPT !.waiters = Append(@, t), !.loop = EventLoop(t)]
        /\ op' = [op EXCEPT ![t] = [Idle EXCEPT !.at = "queued"]]
        /\ UNCHANGED <<secret, cache, wiring, endpoint, answer, faults, history>>
     \/ /\ ~Unlocked /\ lock.loop \notin {None, EventLoop(t)}
        /\ Raises(t)
        /\ UNCHANGED <<secret, cache, lock, wiring, endpoint, faults, history>>

\* A waiting task gets the lock.
Granted(t) ==
  /\ Runs(t) /\ op[t].at = "queued"
  /\ lock.holder = None /\ lock.waiters # <<>> /\ Head(lock.waiters) = t
  /\ LookUp(t, [lock EXCEPT !.holder = t, !.waiters = Tail(@)])

\* The thread reads the secret; an error, like a missing secret, gives None.
ReadSecret(t) ==
  /\ op[t].at = "read"
  /\ \/ /\ op' = [op EXCEPT ![t] = [at |-> "readDone", bundle |-> secret, new |-> None]]
        /\ UNCHANGED faults
     \/ /\ CanFail("read")
        /\ op' = [op EXCEPT ![t] = [Idle EXCEPT !.at = "readDone"]]
        /\ faults' = faults + 1
  /\ UNCHANGED <<secret, cache, lock, wiring, endpoint, answer, history>>

\* Slip: a failed read is cached too.
Slip_CacheMiss(t) ==
  /\ Runs(t) /\ op[t].at = "readDone"
  /\ cache' = [bundle |-> op[t].bundle, fresh |-> TRUE]
  /\ Consider(t, op[t].bundle, lock)
  /\ UNCHANGED <<secret, wiring, endpoint, faults, history>>

AfterRead(t) ==
  /\ Runs(t) /\ op[t].at = "readDone"
  /\ cache' = IF op[t].bundle = None THEN cache ELSE [bundle |-> op[t].bundle, fresh |-> TRUE]
  /\ Consider(t, op[t].bundle, lock)
  /\ UNCHANGED <<secret, wiring, endpoint, faults, history>>

\* The endpoint takes the refresh token, and may rotate it, or refuses it;
\* the request or the response may be lost.  Bound: with no number left to
\* issue it fails.
Exchange(t) ==
  LET b == op[t].bundle
      n == issued + 1
      Answer(new) == op' = [op EXCEPT ![t].at = "answered", ![t].new = new]
  IN
  /\ op[t].at = "exchange"
  /\ \/ /\ b.refresh \in live /\ issued < MaxToken
        /\ issued' = n
        /\ \E rotate \in BOOLEAN, heard \in {TRUE} \cup (IF CanFail("response") THEN {FALSE} ELSE {}) :
             /\ live' = IF rotate THEN (live \ {b.refresh}) \cup {n} ELSE live
             /\ Answer(IF heard THEN [access |-> n, refresh |-> IF rotate THEN n ELSE b.refresh]
                                ELSE None)
             /\ lost' = (lost \/ (rotate /\ ~heard))
             /\ faults' = IF heard THEN faults ELSE faults + 1
     \/ /\ b.refresh \notin live \/ issued = MaxToken
        /\ Answer(None)
        /\ UNCHANGED <<live, issued, lost, faults>>
     \/ /\ CanFail("request")
        /\ Answer(None)
        /\ faults' = faults + 1
        /\ UNCHANGED <<live, issued, lost>>
  /\ UNCHANGED <<secret, cache, lock, wiring, near, answer, replaced, seen>>

\* Without an answer the operation ends with the token it had.
AfterExchange(t) ==
  /\ Runs(t) /\ op[t].at = "answered"
  /\ \/ /\ op[t].new # None
        /\ op' = [op EXCEPT ![t].at = "write"]
        /\ UNCHANGED <<lock, answer>>
     \/ /\ op[t].new = None
        /\ lock' = Release(lock)
        /\ Returns(t, op[t].bundle.access)
  /\ UNCHANGED <<secret, cache, wiring, endpoint, faults, history>>

Rotated(t) == op[t].new # None /\ op[t].new.refresh # op[t].bundle.refresh

\* The thread adds a version to the secret.
WriteSecret(t) ==
  /\ op[t].at = "write"
  /\ \/ /\ secret' = op[t].new
        /\ op' = [op EXCEPT ![t].at = "stored"]
        /\ UNCHANGED <<faults, lost>>
     \/ /\ \/ CanFail("write") /\ UNCHANGED secret
           \/ CanFail("written") /\ secret' = op[t].new
        /\ op' = [op EXCEPT ![t].at = "unstored"]
        /\ faults' = faults + 1
        /\ lost' = (lost \/ Rotated(t))
  /\ UNCHANGED <<cache, lock, wiring, endpoint, answer, replaced, seen>>

\* Slip: the cache keeps the bundle that was just replaced.
Slip_KeepCache(t) ==
  /\ Runs(t) /\ op[t].at \in {"stored", "unstored"}
  /\ lock' = Release(lock)
  /\ \/ /\ op[t].at = "stored"
        /\ replaced' = replaced \cup {op[t].bundle.access}
        /\ Returns(t, op[t].new.access)
     \/ /\ op[t].at = "unstored"
        /\ Raises(t)
        /\ UNCHANGED replaced
  /\ UNCHANGED <<secret, cache, wiring, endpoint, faults, lost, seen>>

AfterWrite(t) ==
  /\ Runs(t) /\ op[t].at \in {"stored", "unstored"}
  /\ lock' = Release(lock)
  /\ \/ /\ op[t].at = "stored"
        /\ cache' = [bundle |-> op[t].new, fresh |-> TRUE]
        /\ replaced' = replaced \cup {op[t].bundle.access}
        /\ Returns(t, op[t].new.access)
     \/ /\ op[t].at = "unstored"
        /\ Raises(t)
        /\ UNCHANGED <<cache, replaced>>
  /\ UNCHANGED <<secret, wiring, endpoint, faults, lost, seen>>

-----------------------------------------------------------------------------
(* resolve_api_key and the routes.                                         *)

\* A coroutine needs the key: it starts the worker and waits for it.
Resolve ==
  /\ configured /\ op[Worker].at = "idle"
  /\ op' = [op EXCEPT ![Worker] = [Idle EXCEPT !.at = "called"]]
  /\ answer' = 0
  /\ seen' = replaced
  /\ UNCHANGED <<secret, cache, lock, wiring, endpoint, faults, lost, replaced>>

\* Slip: a resolve that found nothing starts again.
Slip_ResolveAgain ==
  /\ op[Worker].at = "raw"
  /\ answer' = IF secret = None THEN 0 ELSE secret.access
  /\ op' = [op EXCEPT ![Worker] = IF secret = None THEN [Idle EXCEPT !.at = "called"] ELSE Idle]
  /\ UNCHANGED <<secret, cache, lock, wiring, endpoint, faults, history>>

RawRead ==
  /\ op[Worker].at = "raw"
  /\ op' = [op EXCEPT ![Worker] = Idle]
  /\ \/ /\ answer' = IF secret = None THEN 0 ELSE secret.access
        /\ UNCHANGED faults
     \/ /\ CanFail("read")
        /\ answer' = 0
        /\ faults' = faults + 1
  /\ UNCHANGED <<secret, cache, lock, wiring, endpoint, history>>

\* POST /admin/secrets/oauth: a new pair is stored, and the path registered.
WriteOAuthSecret ==
  /\ op[Worker].at = "idle"
  /\ issued < MaxToken
  /\ issued' = issued + 1
  /\ live' = live \cup {issued'}
  /\ secret' = [access |-> issued', refresh |-> issued']
  /\ tracked' = TRUE
  /\ UNCHANGED <<manager, configured, looping, near, answer, faults, history>>

\* The other routes that write a secret, in a thread: a plain token.
RotateSecret ==
  /\ issued < MaxToken
  /\ issued' = issued + 1
  /\ secret' = [access |-> issued', refresh |-> 0]
  /\ UNCHANGED <<manager, wiring, live, near, answer, faults, history>>

\* A provider that names the path is added to the catalog.
CreateProvider ==
  /\ ~configured
  /\ configured' = TRUE
  /\ UNCHANGED <<secret, manager, tracked, looping, endpoint, answer, faults, history>>

\* Deleting the provider leaves the path registered.
DeleteProvider ==
  /\ configured
  /\ configured' = FALSE
  /\ UNCHANGED <<secret, manager, tracked, looping, endpoint, answer, faults, history>>

-----------------------------------------------------------------------------
(* Time, and the end of the process.                                       *)

\* An access token comes within the margin of its expiry.
NearExpiry ==
  /\ \E a \in 1..issued : near' = near \cup {a}
  /\ UNCHANGED <<secret, manager, wiring, live, issued, answer, faults, history>>

\* The cache entry is a minute old.
CacheExpires ==
  /\ CacheHit
  /\ cache' = [cache EXCEPT !.fresh = FALSE]
  /\ UNCHANGED <<secret, lock, op, wiring, endpoint, answer, faults, history>>

\* The process dies and starts again: main registers the path, and enables the
\* loop, if the catalog names it.  (The pass it makes before it serves is a
\* first pass of the loop, without contention.)
Crash ==
  /\ CanFail("crash")
  /\ faults' = faults + 1
  /\ cache' = None
  /\ lock' = [holder |-> None, waiters |-> <<>>, loop |-> None]
  /\ op' = [t \in Tasks |-> Idle]
  /\ tracked' = configured /\ looping' = configured
  /\ lost' = (lost \/ \E t \in Tasks : op[t].at \in {"answered", "write"} /\ Rotated(t))
  /\ answer' = 0
  /\ UNCHANGED <<secret, configured, endpoint, replaced, seen>>

-----------------------------------------------------------------------------
Init ==
  /\ secret \in {None, [access |-> 1, refresh |-> 0], [access |-> 1, refresh |-> 1]}
  /\ cache = None
  /\ lock = [holder |-> None, waiters |-> <<>>, loop |-> None]
  /\ op = [t \in Tasks |-> Idle]
  /\ configured \in BOOLEAN /\ tracked = configured /\ looping = configured
  /\ live = {1} /\ near \in {{}, {1}} /\ issued = 1
  /\ answer = 0 /\ faults = 0
  /\ lost = FALSE /\ replaced = {} /\ seen = {}

TaskStep(t) ==
  Enter(t) \/ Granted(t) \/ AfterRead(t) \/ AfterExchange(t) \/ AfterWrite(t)
Outside(t) == ReadSecret(t) \/ Exchange(t) \/ WriteSecret(t)

Next ==
  \/ \E t \in Tasks : TaskStep(t) \/ Outside(t)
  \/ Resolve \/ RawRead
  \/ WriteOAuthSecret \/ RotateSecret \/ CreateProvider \/ DeleteProvider
  \/ NearExpiry \/ CacheExpires \/ Crash

Spec == Init /\ [][Next]_vars

\* A call to a service returns or times out, time passes, and the refresh loop
\* ticks for ever.  The fairness of the main loop's tasks is strong: resolves
\* stop the loop again and again, but it runs what is ready in the order in
\* which it became ready.  Nobody has to call a route.
Fairness ==
  /\ \A t \in Tasks : WF_vars(Outside(t))
  /\ \A t \in Admins : SF_vars(op[t].at # "idle" /\ TaskStep(t))
  /\ SF_vars(TaskStep(Loop)) /\ WF_vars(TaskStep(Worker))
  /\ WF_vars(RawRead) /\ WF_vars(CacheExpires)

FairSpec == Spec /\ Fairness

-----------------------------------------------------------------------------
TypeOK ==
  /\ secret \in Bundle \cup {None}
  /\ cache \in [bundle : Bundle, fresh : BOOLEAN] \cup {None}
  /\ lock \in LockState
  /\ op \in [Tasks -> Op]
  /\ <<configured, tracked, looping, lost>> \in BOOLEAN \X BOOLEAN \X BOOLEAN \X BOOLEAN
  /\ live \subseteq 1..MaxToken /\ near \subseteq 1..MaxToken
  /\ issued \in 1..MaxToken
  /\ answer \in 0..MaxToken /\ faults \in 0..MaxFaults
  /\ replaced \subseteq 1..MaxToken /\ seen \subseteq 1..MaxToken

\* No refresh token is presented to the endpoint after it was rotated away,
\* whatever the interleaving of loop, routes and resolves and whatever is
\* written into the secret meanwhile, as long as every rotated token was
\* received and the write that stored it did not fail.
RefreshTokensSpentOnce ==
  lost \/ \A t \in Tasks : op[t].at = "exchange" => op[t].bundle.refresh \in live

\* A resolve never returns an access token whose successor was stored before
\* the resolve began: not from the cache, not from a slow read, not from the
\* raw fallback.
ReplacedTokensAreNotServed == answer \notin seen

\* The worker waits for the lock: the task that holds it needs the main loop,
\* which waits for the worker.
Frozen == op[Worker].at = "queued"

Renewable ==
  tracked /\ looping /\ secret # None /\ secret.refresh \in live /\ secret.access \in near

\* A tracked token that nears its expiry is renewed, in spite of failures,
\* crashes and other operations, unless the process froze.  (Bound: or every
\* token was issued.)
TokensAreRenewed == []<>(~Renewable \/ Frozen \/ issued = MaxToken)

\* A resolve ends, unless the process froze.
ResolvesEnd == []<>(op[Worker].at = "idle" \/ Frozen)

\* No token is used after it was replaced.
TokensAreCurrent == TypeOK /\ RefreshTokensSpentOnce /\ ReplacedTokensAreNotServed
=============================================================================
