----------------------------- MODULE OAuthProofs -----------------------------
(***************************************************************************)
(* No refresh token is spent twice and no replaced token is served: for    *)
(* any requests and faults and any number of tokens, however the refresh   *)
(* loop, the routes and the resolves interleave.                           *)
(*                                                                         *)
(* A bundle lies in three places: the secret, the cache, and the hands of  *)
(* the task that holds the lock.  Between a rotation and the writes that   *)
(* make up for it the first two may hold the token that was just spent, so *)
(* the invariant IInv says who is about to replace it there.               *)
(***************************************************************************)
EXTENDS OAuthTokens, TLAPS

\* Under the lock, and with an answer of the endpoint in hand.
Body == {"read", "readDone", "exchange", "answered", "write", "stored", "unstored"}
Answered == {"answered", "write", "stored", "unstored"}

InBody(t) == op[t].at \in Body

\* The lock excludes: a task is in the body exactly if it holds the lock.
LockExcludes == \A t \in Tasks : InBody(t) <=> lock.holder = t

\* A bundle that was issued and whose successor was not stored.
Current(b) == b \in Bundle /\ b.access <= issued /\ b.access \notin replaced

\* Its refresh token, if any, may be presented.
Spendable(b) == lost \/ b.refresh \in live \cup {0}

\* What a task in the body has read, and what it got for it.
CopyCurrent(t) ==
  /\ op[t].at = "readDone" => op[t].bundle = None \/ (Current(op[t].bundle) /\ Spendable(op[t].bundle))
  /\ op[t].at \in {"exchange"} \cup Answered => Current(op[t].bundle)
  /\ op[t].at = "exchange" => Spendable(op[t].bundle) /\ op[t].bundle.refresh # 0
  /\ (op[t].at \in Answered /\ op[t].new # None) =>
       Current(op[t].new) /\ Spendable(op[t].new) /\ op[t].new.access # op[t].bundle.access
  /\ op[t].at \in {"write", "stored", "unstored"} => op[t].new # None
  /\ (op[t].at = "answered" /\ op[t].new = None) => Spendable(op[t].bundle)
  /\ op[t].at = "unstored" => Spendable(op[t].bundle)
  /\ op[t].at = "stored" => secret # None /\ secret.access # op[t].bundle.access

CopiesCurrent == \A t \in Tasks : CopyCurrent(t)

\* Some task has rotated the refresh token of b, and has yet to pass one of the
\* stages at which b is replaced.
BeingReplaced(b, stages) ==
  \E t \in Tasks : op[t].at \in stages /\ Rotated(t) /\ op[t].bundle.refresh = b.refresh

SecretCurrent ==
  secret # None => Current(secret) /\ (Spendable(secret) \/ BeingReplaced(secret, {"answered", "write"}))

CacheCurrent ==
  cache # None => /\ Current(cache.bundle)
                  /\ Spendable(cache.bundle) \/ BeingReplaced(cache.bundle, {"answered", "write", "stored"})

\* Numbers are given out in order.
Numbered == live \subseteq 1..issued /\ replaced \subseteq 1..issued /\ seen \subseteq replaced

IInv ==
  /\ TypeOK /\ LockExcludes /\ Numbered /\ CopiesCurrent /\ SecretCurrent /\ CacheCurrent
  /\ ReplacedTokensAreNotServed

-----------------------------------------------------------------------------
(* Operations and their lock.                                              *)

LEMMA InitCurrent == Init => IInv
<1> SUFFICES ASSUME Init PROVE IInv
  OBVIOUS
<1>1. TypeOK
  <2>1. MaxToken \in Nat \ {0} /\ MaxFaults \in Nat
    BY OAuthAssumption
  <2>2. secret \in Bundle \cup {None}
    BY <2>1 DEF Init, Bundle
  <2>3. lock \in LockState
    BY DEF Init, LockState
  <2>4. op \in [Tasks -> Op]
    BY DEF Init, Op, Stage, Idle
  <2>5. <<configured, tracked, looping, lost>> \in BOOLEAN \X BOOLEAN \X BOOLEAN \X BOOLEAN
    BY DEF Init
  <2>6. /\ live \subseteq 1..MaxToken /\ near \subseteq 1..MaxToken /\ issued \in 1..MaxToken
        /\ answer \in 0..MaxToken /\ faults \in 0..MaxFaults
        /\ replaced \subseteq 1..MaxToken /\ seen \subseteq 1..MaxToken
    BY <2>1 DEF Init
  <2>7. cache \in [bundle : Bundle, fresh : BOOLEAN] \cup {None}
    BY DEF Init
  <2> QED
    BY <2>2, <2>3, <2>4, <2>5, <2>6, <2>7 DEF TypeOK
<1>2. LockExcludes /\ Numbered /\ ReplacedTokensAreNotServed
  BY OAuthAssumption DEF Init, LockExcludes, InBody, Body, Idle, Numbered, ReplacedTokensAreNotServed
<1>3. CopiesCurrent
  BY DEF Init, CopiesCurrent, CopyCurrent, Answered, Idle
<1>4. SecretCurrent /\ CacheCurrent
  BY OAuthAssumption DEF Init, SecretCurrent, CacheCurrent, Current, Spendable, Bundle
<1> QED
  BY <1>1, <1>2, <1>3, <1>4 DEF IInv

\* A task that has the lock, or takes it when it is free, moves alone.
LEMMA HolderMoves ==
  ASSUME IInv, NEW t \in Tasks, lock.holder \in {t, None}, NEW o \in Op, op' = [op EXCEPT ![t] = o],
         lock'.holder \in {t, None}, o.at \in Body <=> lock'.holder = t
  PROVE  /\ op' \in [Tasks -> Op] /\ op'[t] = o /\ LockExcludes'
         /\ \A s \in Tasks \ {t} : op'[s] = op[s] /\ ~InBody(s)
<1>1. op \in [Tasks -> Op] /\ LockExcludes /\ None \notin Tasks
  BY OAuthAssumption DEF IInv, TypeOK
<1>2. op' \in [Tasks -> Op] /\ op'[t] = o /\ \A s \in Tasks \ {t} : op'[s] = op[s]
  BY <1>1
<1>3. \A s \in Tasks \ {t} : ~InBody(s)
  BY <1>1 DEF LockExcludes
<1>4. LockExcludes'
  BY <1>1, <1>2, <1>3 DEF LockExcludes, InBody
<1> QED
  BY <1>2, <1>3, <1>4

\* So its own copies are the only ones that need a look.
LEMMA OthersHoldNothing ==
  ASSUME NEW t \in Tasks, \A s \in Tasks \ {t} : op'[s] = op[s] /\ ~InBody(s), CopyCurrent(t)'
  PROVE  CopiesCurrent'
BY DEF CopiesCurrent, CopyCurrent, InBody, Body, Answered

\* While nobody has an answer, what is stored and cached may be presented.
LEMMA NothingReplaced ==
  ASSUME IInv, NEW t \in Tasks, lock.holder \in {t, None}, op[t].at \notin Answered
  PROVE  (secret # None => Spendable(secret)) /\ (cache # None => Spendable(cache.bundle))
<1>1. \A s \in Tasks \ {t} : ~InBody(s)
  BY OAuthAssumption DEF IInv, LockExcludes
<1>2. \A b : ~BeingReplaced(b, {"answered", "write", "stored"}) /\ ~BeingReplaced(b, {"answered", "write"})
  BY <1>1 DEF BeingReplaced, InBody, Body, Answered
<1> QED
  BY <1>2 DEF IInv, SecretCurrent, CacheCurrent

\* A step outside the body, of a task whose lock and tokens are not touched.
LEMMA OutsideMoves ==
  ASSUME IInv, NEW t \in Tasks, ~InBody(t), NEW o \in Op, o.at \notin Body, op' = [op EXCEPT ![t] = o],
         lock' \in LockState, lock'.holder = lock.holder,
         UNCHANGED <<secret, cache, wiring, endpoint, lost, replaced>>,
         seen' \subseteq replaced, answer' \in 0..MaxToken, answer' \notin seen', faults' \in 0..MaxFaults
  PROVE  IInv'
<1>1. op \in [Tasks -> Op]
  BY DEF IInv, TypeOK
<1>2. op' \in [Tasks -> Op] /\ op'[t] = o /\ \A s \in Tasks \ {t} : op'[s] = op[s]
  BY <1>1
<1>3. TypeOK'
  BY <1>2 DEF IInv, TypeOK, wiring, endpoint, Numbered
<1>4. LockExcludes' /\ Numbered' /\ ReplacedTokensAreNotServed'
  BY <1>2 DEF IInv, LockExcludes, InBody, Numbered, ReplacedTokensAreNotServed, endpoint
<1>5. CopiesCurrent'
  <2> SUFFICES ASSUME NEW s \in Tasks PROVE CopyCurrent(s)'
    BY DEF CopiesCurrent
  <2>1. CASE s = t
    BY <1>2, <2>1 DEF CopyCurrent, Body, Answered
  <2>2. CASE s # t
    BY <1>2, <2>2 DEF IInv, CopiesCurrent, CopyCurrent, Current, Spendable, endpoint
  <2> QED
    BY <2>1, <2>2
<1>6. \A s \in Tasks : op[s].at \in Body => op'[s] = op[s]
  BY <1>2 DEF InBody
<1>7. SecretCurrent' /\ CacheCurrent'
  <2>1. SecretCurrent'
    BY <1>6 DEF IInv, SecretCurrent, Current, Spendable, endpoint, BeingReplaced, Rotated, Body
  <2>2. CacheCurrent'
    BY <1>6 DEF IInv, CacheCurrent, Current, Spendable, endpoint, BeingReplaced, Rotated, Body
  <2> QED
    BY <2>1, <2>2
<1> QED
  BY <1>3, <1>4, <1>5, <1>7 DEF IInv

-----------------------------------------------------------------------------
(* The body.                                                               *)

\* The end of an operation, with the token that it returns.
LEMMA ReturnsOneToken ==
  ASSUME IInv, NEW t \in Tasks, NEW a \in 0..MaxToken, a \notin seen, Returns(t, a) \/ Raises(t)
  PROVE  /\ \E o \in Op : o.at \notin Body /\ op' = [op EXCEPT ![t] = o]
         /\ answer' \in 0..MaxToken /\ answer' \notin seen
<1>1. Idle \in Op /\ [Idle EXCEPT !.at = "raw"] \in Op
  BY DEF Idle, Op, Stage
<1>2. Idle.at \notin Body /\ [Idle EXCEPT !.at = "raw"].at \notin Body
  BY DEF Idle, Body
<1>3. answer \in 0..MaxToken /\ answer \notin seen
  BY DEF IInv, TypeOK, ReplacedTokensAreNotServed
<1> QED
  BY <1>1, <1>2, <1>3 DEF Returns, Raises

\* The holder goes on to o, and nothing is exchanged, stored or replaced.
LEMMA HolderLooks ==
  ASSUME IInv, NEW t \in Tasks, lock.holder \in {t, None}, op[t].at \notin Answered,
         NEW o \in Op, op' = [op EXCEPT ![t] = o], o.at \notin Answered,
         o.at = "readDone" => o.bundle = None \/ (Current(o.bundle) /\ Spendable(o.bundle)),
         o.at = "exchange" => Current(o.bundle) /\ Spendable(o.bundle) /\ o.bundle.refresh # 0,
         lock' \in LockState, lock'.holder \in {t, None}, o.at \in Body <=> lock'.holder = t,
         UNCHANGED <<secret, wiring, endpoint, history>>,
         cache' = None \/ (cache # None /\ cache'.bundle = cache.bundle)
           \/ (Current(cache'.bundle) /\ Spendable(cache'.bundle)),
         cache' \in [bundle : Bundle, fresh : BOOLEAN] \cup {None},
         answer' \in 0..MaxToken, answer' \notin seen, faults' \in 0..MaxFaults
  PROVE  IInv'
<1>1. /\ op' \in [Tasks -> Op] /\ op'[t] = o /\ LockExcludes'
      /\ \A s \in Tasks \ {t} : op'[s] = op[s] /\ ~InBody(s)
  BY HolderMoves
<1>2. TypeOK'
  BY <1>1 DEF IInv, TypeOK, wiring, endpoint, history
<1>3. Numbered' /\ ReplacedTokensAreNotServed'
  BY DEF IInv, Numbered, ReplacedTokensAreNotServed, endpoint, history
<1>4. CopyCurrent(t)'
  BY <1>1 DEF CopyCurrent, Answered, Current, Spendable, endpoint, history
<1>5. CopiesCurrent'
  BY <1>1, <1>4, OthersHoldNothing
<1>6. SecretCurrent' /\ CacheCurrent'
  BY NothingReplaced DEF IInv, SecretCurrent, CacheCurrent, Current, Spendable, endpoint, history
<1> QED
  BY <1>1, <1>2, <1>3, <1>5, <1>6 DEF IInv

\* It considers a bundle that is current.
LEMMA ConsiderKeeps ==
  ASSUME IInv, NEW t \in Tasks, lock.holder \in {t, None}, op[t].at \notin Answered,
         NEW lk \in LockState, lk.holder = t,
         NEW b, b = None \/ (Current(b) /\ Spendable(b)), Consider(t, b, lk),
         UNCHANGED <<secret, wiring, endpoint, faults, history>>,
         cache' = cache \/ (b # None /\ cache' = [bundle |-> b, fresh |-> TRUE])
  PROVE  IInv'
<1>1. /\ cache' \in [bundle : Bundle, fresh : BOOLEAN] \cup {None}
      /\ cache' = None \/ (cache # None /\ cache'.bundle = cache.bundle)
           \/ (Current(cache'.bundle) /\ Spendable(cache'.bundle))
  <2>1. CASE cache' = cache
    BY <2>1 DEF IInv, TypeOK
  <2>2. CASE b # None /\ cache' = [bundle |-> b, fresh |-> TRUE]
    <3>1. Current(b) /\ Spendable(b) /\ cache'.bundle = b
      BY <2>2
    <3>2. cache' \in [bundle : Bundle, fresh : BOOLEAN]
      BY <2>2, <3>1 DEF Current
    <3> QED
      BY <3>1, <3>2
  <2> QED
    BY <2>1, <2>2
<1>2. faults' \in 0..MaxFaults
  BY DEF IInv, TypeOK
<1>3. CASE Due(t, b)
  <2> DEFINE o == [at |-> "exchange", bundle |-> b, new |-> None]
  <2>1. op' = [op EXCEPT ![t] = o] /\ lock' = lk /\ answer' = answer /\ b # None /\ b.refresh # 0
    BY <1>3 DEF Consider, Due
  <2>2. o \in Op /\ Current(b) /\ Spendable(b) /\ o.at \in Body /\ o.at \notin Answered
    BY <2>1 DEF Op, Stage, Current, Body, Answered
  <2>3. answer' \in 0..MaxToken /\ answer' \notin seen
    BY <2>1 DEF IInv, TypeOK, ReplacedTokensAreNotServed
  <2> QED
    BY <1>1, <1>2, <2>1, <2>2, <2>3, HolderLooks
<1>4. CASE ~Due(t, b)
  <2> DEFINE a == IF b = None THEN 0 ELSE b.access
  <2>1. Returns(t, a) /\ lock' = Release(lk)
    BY <1>4 DEF Consider
  <2>2. a \in 0..MaxToken /\ a \notin seen
    BY OAuthAssumption DEF Current, Bundle, IInv, Numbered, TypeOK
  <2>3. PICK o \in Op : o.at \notin Body /\ op' = [op EXCEPT ![t] = o]
    BY <2>1, <2>2, ReturnsOneToken
  <2>4. answer' \in 0..MaxToken /\ answer' \notin seen
    BY <2>1, <2>2, ReturnsOneToken
  <2>5. lock' \in LockState /\ lock'.holder = None
    BY <2>1 DEF Release, LockState
  <2>6. o.at \notin Answered /\ o.at # "readDone" /\ o.at # "exchange" /\ lock'.holder # t
    BY <2>3, <2>5, OAuthAssumption DEF Body, Answered
  <2> QED
    BY <1>1, <1>2, <2>3, <2>4, <2>5, <2>6, HolderLooks
<1> QED
  BY <1>3, <1>4

\* With the lock in hand it looks the bundle up.
LEMMA LookUpKeeps ==
  ASSUME IInv, NEW t \in Tasks, lock.holder = None, NEW lk \in LockState, lk.holder = t, LookUp(t, lk)
  PROVE  IInv'
<1>1. op[t].at \notin Answered
  BY OAuthAssumption DEF IInv, LockExcludes, InBody, Body, Answered
<1>2. CASE CacheHit /\ Consider(t, cache.bundle, lk)
  <2>1. cache # None /\ Current(cache.bundle)
    BY <1>2 DEF CacheHit, IInv, CacheCurrent
  <2>2. Spendable(cache.bundle)
    BY <1>1, <2>1, NothingReplaced
  <2> QED
    BY <1>1, <1>2, <2>1, <2>2, ConsiderKeeps DEF LookUp
<1>3. CASE ~CacheHit
  <2> DEFINE o == [Idle EXCEPT !.at = "read"]
  <2>1. op' = [op EXCEPT ![t] = o] /\ lock' = lk
        /\ UNCHANGED <<secret, cache, wiring, endpoint, answer, faults, history>>
    BY <1>3 DEF LookUp
  <2>2. o \in Op /\ o.at = "read"
    BY DEF Idle, Op, Stage
  <2>3. "read" \in Body /\ "read" \notin Answered
    BY DEF Body, Answered
  <2>4. /\ answer' \in 0..MaxToken /\ answer' \notin seen /\ faults' \in 0..MaxFaults
        /\ cache' \in [bundle : Bundle, fresh : BOOLEAN] \cup {None}
    BY <2>1 DEF IInv, TypeOK, ReplacedTokensAreNotServed
  <2> QED
    BY <1>1, <2>1, <2>2, <2>3, <2>4, HolderLooks
<1> QED
  BY <1>2, <1>3 DEF LookUp

-----------------------------------------------------------------------------
(* Steps of the holder.                                                    *)

LEMMA ReadSecretKeeps == ASSUME IInv, NEW t \in Tasks, ReadSecret(t) PROVE IInv'
<1>1. lock.holder = t /\ op[t].at \notin Answered
  BY DEF IInv, LockExcludes, InBody, ReadSecret, Body, Answered
<1>2. PICK b \in {secret, None} : op' = [op EXCEPT ![t] = [at |-> "readDone", bundle |-> b, new |-> None]]
  BY DEF ReadSecret, Idle
<1> DEFINE o == [at |-> "readDone", bundle |-> b, new |-> None]
<1>3. b = None \/ (Current(b) /\ Spendable(b))
  BY <1>1, NothingReplaced DEF IInv, SecretCurrent
<1>4. o \in Op /\ o.at = "readDone" /\ o.bundle = b
  BY <1>3 DEF Op, Stage, Current
<1>5. "readDone" \in Body /\ "readDone" \notin Answered
  BY DEF Body, Answered
<1>6. /\ lock' \in LockState /\ lock'.holder = t /\ answer' \in 0..MaxToken /\ answer' \notin seen
      /\ cache' = cache /\ cache' \in [bundle : Bundle, fresh : BOOLEAN] \cup {None}
      /\ UNCHANGED <<secret, wiring, endpoint, history>>
  BY <1>1 DEF ReadSecret, IInv, TypeOK, ReplacedTokensAreNotServed
<1>7. faults' \in 0..MaxFaults
  BY OAuthAssumption DEF ReadSecret, CanFail, IInv, TypeOK
<1> QED
  BY <1>1, <1>2, <1>3, <1>4, <1>5, <1>6, <1>7, HolderLooks

LEMMA AfterReadKeeps == ASSUME IInv, NEW t \in Tasks, AfterRead(t) PROVE IInv'
<1> DEFINE b == op[t].bundle
<1>1. lock.holder = t /\ op[t].at = "readDone"
  BY DEF IInv, LockExcludes, InBody, AfterRead, Body
<1>2. op[t].at \notin Answered
  BY <1>1 DEF Answered
<1>3. b = None \/ (Current(b) /\ Spendable(b))
  BY <1>1 DEF IInv, CopiesCurrent, CopyCurrent
<1>4. lock \in LockState
  BY DEF IInv, TypeOK
<1>5. /\ Consider(t, b, lock) /\ UNCHANGED <<secret, wiring, endpoint, faults, history>>
      /\ cache' = cache \/ (b # None /\ cache' = [bundle |-> b, fresh |-> TRUE])
  BY DEF AfterRead
<1> QED
  BY <1>1, <1>2, <1>3, <1>4, <1>5, ConsiderKeeps

\* An answer comes into the record of its operation.
LEMMA AnswerRecorded ==
  ASSUME op \in [Tasks -> Op], NEW t \in Tasks, NEW new
  PROVE  [op EXCEPT ![t].at = "answered", ![t].new = new]
           = [op EXCEPT ![t] = [at |-> "answered", bundle |-> op[t].bundle, new |-> new]]
<1> DEFINE o == [at |-> "answered", bundle |-> op[t].bundle, new |-> new]
           f == [op EXCEPT ![t].at = "answered", ![t].new = new]
<1>1. op[t] \in Op
  OBVIOUS
<1>2. [op[t] EXCEPT !.at = "answered"] = [at |-> "answered", bundle |-> op[t].bundle, new |-> op[t].new]
  BY <1>1 DEF Op
<1>3. [[op[t] EXCEPT !.at = "answered"] EXCEPT !.new = new] = o
  <2> DEFINE r == [at |-> "answered", bundle |-> op[t].bundle, new |-> op[t].new]
  <2>1. [r EXCEPT !.new = new] = o
    OBVIOUS
  <2> HIDE DEF r
  <2>2. [op[t] EXCEPT !.at = "answered"] = r
    BY <1>2 DEF r
  <2> QED
    BY <2>1, <2>2
<1>4. f = [[op EXCEPT ![t] = [op[t] EXCEPT !.at = "answered"]] EXCEPT ![t] = [@ EXCEPT !.new = new]]
  OBVIOUS
<1>5. [op EXCEPT ![t] = [op[t] EXCEPT !.at = "answered"]][t] = [op[t] EXCEPT !.at = "answered"]
  OBVIOUS
<1>6. f = [[op EXCEPT ![t] = [op[t] EXCEPT !.at = "answered"]] EXCEPT ![t] = o]
  BY <1>3, <1>4, <1>5
<1> QED
  BY <1>6

\* What an exchange does: the refresh token is spent or not, and the holder has
\* an answer or not; if it was spent for nothing, it is lost.
LEMMA ExchangeMakes ==
  ASSUME IInv, NEW t \in Tasks, Exchange(t)
  PROVE  LET b == op[t].bundle IN
         /\ lock.holder = t /\ op[t].at = "exchange" /\ Current(b) /\ Spendable(b)
         /\ \E new \in Bundle \cup {None}, spent \in BOOLEAN :
              /\ op' = [op EXCEPT ![t] = [at |-> "answered", bundle |-> b, new |-> new]]
              /\ new # None => /\ new.access = issued' /\ issued' = issued + 1
                               /\ new.refresh \in live'
                               /\ spent => new.refresh # b.refresh
              /\ live' \subseteq 1..issued' /\ issued' \in 1..MaxToken /\ issued <= issued'
              /\ \A r \in live : r \in live' \/ (spent /\ r = b.refresh)
              /\ lost => lost'
              /\ (spent /\ new = None) => lost'
         /\ lost' \in BOOLEAN /\ faults' \in 0..MaxFaults
<1> DEFINE b == op[t].bundle
<1>1. op[t].at = "exchange"
  BY DEF Exchange
<1>2. lock.holder = t /\ Current(b) /\ Spendable(b)
  BY <1>1 DEF IInv, LockExcludes, InBody, Body, CopiesCurrent, CopyCurrent
<1>3. op \in [Tasks -> Op] /\ op[t] = [at |-> op[t].at, bundle |-> b, new |-> op[t].new]
  BY DEF IInv, TypeOK, Op
<1>4. /\ live \subseteq 1..issued /\ issued \in 1..MaxToken /\ MaxToken \in Nat /\ faults \in 0..MaxFaults
      /\ MaxFaults \in Nat
  BY OAuthAssumption DEF IInv, TypeOK, Numbered
<1>5. lost \in BOOLEAN
  BY DEF IInv, TypeOK
<1>6. CASE b.refresh \in live /\ issued < MaxToken /\ issued' = issued + 1
           /\ \E rotate \in BOOLEAN, heard \in {TRUE} \cup (IF CanFail("response") THEN {FALSE} ELSE {}) :
                /\ live' = IF rotate THEN (live \ {b.refresh}) \cup {issued + 1} ELSE live
                /\ op' = [op EXCEPT ![t].at = "answered",
                                    ![t].new = IF heard THEN [access |-> issued + 1,
                                                              refresh |-> IF rotate THEN issued + 1 ELSE b.refresh]
                                               ELSE None]
                /\ lost' = (lost \/ (rotate /\ ~heard))
                /\ faults' = IF heard THEN faults ELSE faults + 1
  <2>1. PICK rotate \in BOOLEAN, heard \in {TRUE} \cup (IF CanFail("response") THEN {FALSE} ELSE {}) :
                /\ live' = IF rotate THEN (live \ {b.refresh}) \cup {issued + 1} ELSE live
                /\ op' = [op EXCEPT ![t].at = "answered",
                                    ![t].new = IF heard THEN [access |-> issued + 1,
                                                              refresh |-> IF rotate THEN issued + 1 ELSE b.refresh]
                                               ELSE None]
                /\ lost' = (lost \/ (rotate /\ ~heard))
                /\ faults' = IF heard THEN faults ELSE faults + 1
    BY <1>6
  <2> DEFINE new == IF heard THEN [access |-> issued + 1, refresh |-> IF rotate THEN issued + 1 ELSE b.refresh]
                    ELSE None
  <2>2. new \in Bundle \cup {None} /\ b.refresh \in 1..issued
    BY <1>4, <1>6, <2>1 DEF Bundle
  <2>3. op' = [op EXCEPT ![t] = [at |-> "answered", bundle |-> b, new |-> new]]
    BY <1>3, <2>1, AnswerRecorded
  <2>4. new # None => heard /\ new.access = issued' /\ new.refresh = (IF rotate THEN issued + 1 ELSE b.refresh)
    BY <1>6
  <2>5. new = None => ~heard
    BY <1>6, <2>2, <1>4, NoneIsNoBundle DEF Bundle
  <2>6. /\ live' \subseteq 1..issued' /\ issued' \in 1..MaxToken /\ issued <= issued'
        /\ \A r \in live : r \in live' \/ (rotate /\ r = b.refresh)
        /\ new # None => new.refresh \in live' /\ (rotate => new.refresh # b.refresh)
    BY <1>4, <1>6, <2>1, <2>2, <2>4
  <2>7. faults' \in 0..MaxFaults
    <3>1. heard \/ CanFail("response")
      BY <2>1
    <3>2. CASE heard
      BY <1>4, <2>1, <3>2
    <3>3. CASE ~heard
      BY <1>4, <2>1, <3>1, <3>3 DEF CanFail
    <3> QED
      BY <3>2, <3>3
  <2>8. lost' \in BOOLEAN /\ (lost => lost') /\ ((rotate /\ new = None) => lost')
    BY <1>5, <2>1, <2>5
  <2> QED
    BY <1>1, <1>2, <1>6, <2>2, <2>3, <2>4, <2>6, <2>7, <2>8
<1>7. CASE /\ op' = [op EXCEPT ![t].at = "answered", ![t].new = None]
           /\ UNCHANGED <<live, issued, lost>>
           /\ faults' = faults \/ (CanFail("request") /\ faults' = faults + 1)
  <2>1. op' = [op EXCEPT ![t] = [at |-> "answered", bundle |-> b, new |-> None]]
    BY <1>3, <1>7, AnswerRecorded
  <2>2. faults' \in 0..MaxFaults
    BY <1>4, <1>7 DEF CanFail
  <2>3. /\ live' \subseteq 1..issued' /\ issued' \in 1..MaxToken /\ issued <= issued'
        /\ \A r \in live : r \in live'
    BY <1>4, <1>7
  <2> QED
    BY <1>1, <1>2, <1>5, <1>7, <2>1, <2>2, <2>3
<1> QED
  BY <1>6, <1>7 DEF Exchange

LEMMA ExchangeKeeps == ASSUME IInv, NEW t \in Tasks, Exchange(t) PROVE IInv'
<1> DEFINE b == op[t].bundle
<1>1. lock.holder = t /\ op[t].at = "exchange" /\ Current(b) /\ Spendable(b)
      /\ lost' \in BOOLEAN /\ faults' \in 0..MaxFaults
  BY ExchangeMakes
<1>2. PICK new \in Bundle \cup {None}, spent \in BOOLEAN :
        /\ op' = [op EXCEPT ![t] = [at |-> "answered", bundle |-> b, new |-> new]]
        /\ new # None => /\ new.access = issued' /\ issued' = issued + 1
                         /\ new.refresh \in live'
                         /\ spent => new.refresh # b.refresh
        /\ live' \subseteq 1..issued' /\ issued' \in 1..MaxToken /\ issued <= issued'
        /\ \A r \in live : r \in live' \/ (spent /\ r = b.refresh)
        /\ lost => lost'
        /\ (spent /\ new = None) => lost'
  BY ExchangeMakes
<1> DEFINE o == [at |-> "answered", bundle |-> b, new |-> new]
<1>3. UNCHANGED <<secret, cache, lock, wiring, near, answer, replaced, seen>>
  BY DEF Exchange
<1>4. b \in Bundle /\ o \in Op /\ o.at \in Body
  BY <1>1 DEF Current, Op, Stage, Body
<1>5. /\ op' \in [Tasks -> Op] /\ op'[t] = o /\ LockExcludes'
      /\ \A s \in Tasks \ {t} : op'[s] = op[s] /\ ~InBody(s)
  <2>1. lock.holder \in {t, None} /\ lock'.holder \in {t, None} /\ (o.at \in Body <=> lock'.holder = t)
    BY <1>1, <1>3, <1>4
  <2>2. op' = [op EXCEPT ![t] = o]
    BY <1>2
  <2> HIDE DEF o
  <2> QED
    BY <1>4, <2>1, <2>2, HolderMoves
<1>6. issued \in Nat /\ issued' \in Nat /\ replaced \subseteq 1..issued /\ live \subseteq 1..issued /\ seen \subseteq replaced
      /\ MaxToken \in Nat
  BY <1>2, OAuthAssumption DEF IInv, TypeOK, Numbered
<1>7. TypeOK' /\ Numbered' /\ ReplacedTokensAreNotServed'
  <2>1. Numbered' /\ ReplacedTokensAreNotServed'
    BY <1>2, <1>3, <1>6 DEF IInv, Numbered, ReplacedTokensAreNotServed
  <2>2. live' \subseteq 1..MaxToken
    BY <1>2, <1>6
  <2>3. <<configured, tracked, looping, lost>>' \in BOOLEAN \X BOOLEAN \X BOOLEAN \X BOOLEAN
    BY <1>1, <1>3 DEF IInv, TypeOK, wiring
  <2> QED
    BY <1>1, <1>2, <1>3, <1>5, <2>1, <2>2, <2>3 DEF IInv, TypeOK, wiring
<1>8. ASSUME NEW x \in Bundle, Current(x)
      PROVE  x.access <= issued' /\ x.access \notin replaced'
  BY <1>2, <1>3, <1>6, <1>8 DEF Current, Bundle
<1>9. ASSUME NEW x \in Bundle, Spendable(x)
      PROVE  lost' \/ x.refresh \in live' \cup {0} \/ (new # None /\ spent /\ x.refresh = b.refresh)
  BY <1>2, <1>9 DEF Spendable
<1>10. CopyCurrent(t)'
  <2>1. Current(b)'
    BY <1>1, <1>3, <1>4, <1>5, <1>8 DEF Current
  <2>2. ASSUME new # None PROVE Current(new)' /\ Spendable(new)' /\ new.access # b.access
    <3>1. new \in Bundle /\ new.access <= issued' /\ new.access > issued
      BY <1>2, <1>6, <2>2
    <3>2. new.access \notin replaced' /\ new.access # b.access
      BY <1>1, <1>3, <1>6, <3>1 DEF Current, Bundle
    <3> QED
      BY <1>2, <2>2, <3>1, <3>2 DEF Current, Spendable
  <2>3. new = None => Spendable(b)'
    BY <1>1, <1>4, <1>5, <1>9 DEF Spendable
  <2> QED
    BY <1>5, <2>1, <2>2, <2>3 DEF CopyCurrent, Current, Spendable
<1>11. CopiesCurrent'
  BY <1>5, <1>10, OthersHoldNothing
<1>12. /\ \A x \in Bundle : Spendable(x) => Spendable(x)'
            \/ \E s \in Tasks : op'[s].at = "answered" /\ op'[s].new # None
                                /\ op'[s].new.refresh # op'[s].bundle.refresh /\ op'[s].bundle.refresh = x.refresh
       /\ (secret # None => Spendable(secret)) /\ (cache # None => Spendable(cache.bundle))
  <2>1. op[t].at \notin Answered
    BY <1>1 DEF Answered
  <2>2. (secret # None => Spendable(secret)) /\ (cache # None => Spendable(cache.bundle))
    BY <1>1, <2>1, NothingReplaced
  <2>3. ASSUME NEW x \in Bundle, Spendable(x)
        PROVE  lost' \/ x.refresh \in live' \cup {0}
                \/ \E s \in Tasks : op'[s].at = "answered" /\ op'[s].new # None
                                    /\ op'[s].new.refresh # op'[s].bundle.refresh /\ op'[s].bundle.refresh = x.refresh
    BY <1>2, <1>5, <1>9, <2>3
  <2> QED
    BY <2>2, <2>3 DEF Spendable
<1>13. SecretCurrent'
  BY <1>3, <1>8, <1>12 DEF IInv, SecretCurrent, Current, Spendable, BeingReplaced, Rotated
<1>14. CacheCurrent'
  BY <1>3, <1>8, <1>12 DEF IInv, CacheCurrent, Current, Spendable, BeingReplaced, Rotated
<1> QED
  BY <1>5, <1>7, <1>11, <1>13, <1>14 DEF IInv

LEMMA AfterExchangeKeeps == ASSUME IInv, NEW t \in Tasks, AfterExchange(t) PROVE IInv'
<1> DEFINE b == op[t].bundle
<1>1. /\ lock.holder = t /\ op[t].at = "answered" /\ op[t] \in Op /\ op \in [Tasks -> Op] /\ Current(b)
      /\ UNCHANGED <<secret, cache, wiring, endpoint, faults, history>>
  BY DEF AfterExchange, IInv, TypeOK, LockExcludes, InBody, Body, CopiesCurrent, CopyCurrent, Answered
<1>2. answer' \in 0..MaxToken /\ answer' \notin seen
      /\ \E o \in Op : /\ op' = [op EXCEPT ![t] = o]
                       /\ o.at \notin Body \/ (o = [op[t] EXCEPT !.at = "write"] /\ op[t].new # None /\ lock' = lock)
                       /\ o.at \notin Body => lock' = Release(lock) /\ op[t].new = None
  <2>1. CASE op[t].new # None
    <3> DEFINE o == [op[t] EXCEPT !.at = "write"]
    <3>1. op' = [op EXCEPT ![t] = o] /\ lock' = lock /\ answer' = answer
      BY <2>1 DEF AfterExchange
    <3>2. o \in Op /\ o.at = "write"
      BY <1>1 DEF Op, Stage
    <3> QED
      BY <2>1, <3>1, <3>2 DEF IInv, TypeOK, ReplacedTokensAreNotServed, Body
  <2>2. CASE op[t].new = None
    <3>1. Returns(t, b.access) /\ lock' = Release(lock)
      BY <2>2 DEF AfterExchange
    <3>2. b.access \in 0..MaxToken /\ b.access \notin seen
      BY <1>1, OAuthAssumption DEF Current, Bundle, IInv, Numbered
    <3> QED
      BY <2>2, <3>1, <3>2, ReturnsOneToken
  <2> QED
    BY <2>1, <2>2
<1>3. PICK o \in Op : /\ op' = [op EXCEPT ![t] = o]
                      /\ o.at \notin Body \/ (o = [op[t] EXCEPT !.at = "write"] /\ op[t].new # None /\ lock' = lock)
                      /\ o.at \notin Body => lock' = Release(lock) /\ op[t].new = None
  BY <1>2
<1>4. lock' \in LockState /\ lock'.holder \in {t, None} /\ (o.at \in Body <=> lock'.holder = t)
  BY <1>1, <1>3, OAuthAssumption DEF IInv, TypeOK, LockState, Release, Op, Body
<1>5. /\ op' \in [Tasks -> Op] /\ op'[t] = o /\ LockExcludes'
      /\ \A s \in Tasks \ {t} : op'[s] = op[s] /\ ~InBody(s)
  BY <1>1, <1>3, <1>4, HolderMoves
<1>6. TypeOK' /\ Numbered' /\ ReplacedTokensAreNotServed'
  BY <1>1, <1>2, <1>4, <1>5 DEF IInv, TypeOK, Numbered, ReplacedTokensAreNotServed, wiring, endpoint, history
<1>7. CASE o.at \notin Body
  <2>1. CopiesCurrent'
    <3>1. CopyCurrent(t)'
      BY <1>5, <1>7 DEF CopyCurrent, Body, Answered
    <3> QED
      BY <1>5, <3>1, OthersHoldNothing
  <2>2. ~Rotated(t) /\ \A s \in Tasks : op[s].at \in Body /\ s # t => FALSE
    BY <1>3, <1>5, <1>7 DEF Rotated, InBody
  <2>3. (secret # None => Spendable(secret)) /\ (cache # None => Spendable(cache.bundle))
    BY <2>2 DEF IInv, SecretCurrent, CacheCurrent, BeingReplaced, Body
  <2>4. SecretCurrent' /\ CacheCurrent'
    BY <1>1, <2>3 DEF IInv, SecretCurrent, CacheCurrent, Current, Spendable, endpoint, history
  <2> QED
    BY <1>5, <1>6, <2>1, <2>4 DEF IInv
<1>8. CASE o = [op[t] EXCEPT !.at = "write"] /\ op[t].new # None
  <2>1. o.at = "write" /\ o.bundle = b /\ o.new = op[t].new
    BY <1>1, <1>8 DEF Op
  <2>2. CopiesCurrent'
    <3>1. CopyCurrent(t)
      BY DEF IInv, CopiesCurrent
    <3>2. CopyCurrent(t)'
      BY <1>1, <1>5, <1>8, <2>1, <3>1 DEF CopyCurrent, Answered, Current, Spendable, endpoint, history
    <3> QED
      BY <1>5, <3>2, OthersHoldNothing
  <2>3. Rotated(t)' <=> Rotated(t)
    BY <1>5, <2>1 DEF Rotated
  <2>4. \A s \in Tasks : op[s].at \in Body => s = t
    BY <1>5 DEF InBody
  <2>5. SecretCurrent'
    BY <1>1, <1>5, <2>1, <2>3, <2>4 DEF IInv, SecretCurrent, Current, Spendable, BeingReplaced, endpoint, history, Body
  <2>6. CacheCurrent'
    BY <1>1, <1>5, <2>1, <2>3, <2>4 DEF IInv, CacheCurrent, Current, Spendable, BeingReplaced, endpoint, history, Body
  <2> QED
    BY <1>5, <1>6, <2>2, <2>5, <2>6 DEF IInv
<1> QED
  BY <1>3, <1>7, <1>8

LEMMA WriteSecretKeeps == ASSUME IInv, NEW t \in Tasks, WriteSecret(t) PROVE IInv'
<1> DEFINE b == op[t].bundle
           new == op[t].new
<1>1. /\ lock.holder = t /\ op[t].at = "write" /\ op[t] \in Op /\ op \in [Tasks -> Op] /\ CopyCurrent(t)
      /\ UNCHANGED <<cache, lock, wiring, endpoint, answer, replaced, seen>>
  BY DEF WriteSecret, IInv, TypeOK, LockExcludes, InBody, Body, CopiesCurrent
<1>2. /\ Current(b) /\ new # None /\ Current(new) /\ Spendable(new) /\ new.access # b.access
  BY <1>1 DEF CopyCurrent, Answered
<1>3. PICK at \in {"stored", "unstored"} :
        /\ op' = [op EXCEPT ![t].at = at]
        /\ at = "stored" => secret' = new /\ lost' = lost
        /\ at = "unstored" => lost' = (lost \/ Rotated(t))
        /\ secret' = new \/ (secret' = secret /\ at = "unstored")
        /\ faults' = faults \/ (faults' = faults + 1 /\ faults < MaxFaults)
  BY DEF WriteSecret, CanFail
<1> DEFINE o == [at |-> at, bundle |-> b, new |-> new]
<1>4. op' = [op EXCEPT ![t] = o] /\ o \in Op
  <2>1. [op[t] EXCEPT !.at = at] = o /\ o \in Op
    BY <1>1, <1>3 DEF Op, Stage
  <2> QED
    BY <1>1, <1>3, <2>1
<1>5. /\ op' \in [Tasks -> Op] /\ op'[t] = o /\ LockExcludes'
      /\ \A s \in Tasks \ {t} : op'[s] = op[s] /\ ~InBody(s)
  <2>1. lock'.holder = t /\ o.at \in Body
    BY <1>1, <1>3 DEF Body
  <2> HIDE DEF o
  <2> QED
    BY <1>1, <1>4, <2>1, HolderMoves
<1>6. lost \in BOOLEAN /\ lost' \in BOOLEAN /\ (lost => lost')
  <2>1. lost \in BOOLEAN
    BY DEF IInv, TypeOK
  <2>2. Rotated(t) \in BOOLEAN
    BY DEF Rotated
  <2>3. lost' = lost \/ lost' = (lost \/ Rotated(t))
    BY <1>3
  <2> QED
    BY <2>1, <2>2, <2>3
<1>7. TypeOK' /\ Numbered' /\ ReplacedTokensAreNotServed'
  <2>1. Numbered' /\ ReplacedTokensAreNotServed'
    BY <1>1 DEF IInv, Numbered, ReplacedTokensAreNotServed, endpoint
  <2>2. secret' \in Bundle \cup {None}
    BY <1>2, <1>3 DEF IInv, TypeOK, Current
  <2>3. faults' \in 0..MaxFaults
    BY <1>3, OAuthAssumption DEF IInv, TypeOK
  <2>4. <<configured, tracked, looping, lost>>' \in BOOLEAN \X BOOLEAN \X BOOLEAN \X BOOLEAN
    BY <1>1, <1>6 DEF IInv, TypeOK, wiring
  <2> QED
    BY <1>1, <1>5, <2>1, <2>2, <2>3, <2>4 DEF IInv, TypeOK, wiring, endpoint
<1>8. \A x \in Bundle : (Current(x) => x.access <= issued' /\ x.access \notin replaced')
                        /\ (Spendable(x) => lost' \/ x.refresh \in live' \cup {0})
  BY <1>1, <1>6 DEF Current, Spendable, endpoint
<1>9. b \in Bundle /\ new \in Bundle
  BY <1>2 DEF Current
<1>10. at = "unstored" => lost' \/ b.refresh \in live' \cup {0}
  BY <1>2, <1>3, <1>8, <1>9 DEF Rotated, Spendable
<1>11. CopiesCurrent'
  <2>1. CopyCurrent(t)'
    BY <1>2, <1>3, <1>5, <1>8, <1>9, <1>10 DEF CopyCurrent, Answered, Current, Spendable
  <2> QED
    BY <1>5, <2>1, OthersHoldNothing
<1>12. \A s \in Tasks : op[s].at \in Body => s = t
  BY <1>5 DEF InBody
<1>13. SecretCurrent'
  <2>1. CASE secret' = new
    BY <1>2, <1>8, <1>9, <2>1 DEF SecretCurrent, Current, Spendable
  <2>2. CASE secret' = secret /\ at = "unstored"
    <3>1. secret # None => Current(secret) /\ (Spendable(secret) \/ (Rotated(t) /\ b.refresh = secret.refresh))
      BY <1>12 DEF IInv, SecretCurrent, BeingReplaced, Body
    <3>2. Rotated(t) => lost'
      BY <1>3, <2>2
    <3> QED
      BY <1>8, <2>2, <3>1, <3>2 DEF SecretCurrent, Current, Spendable
  <2> QED
    BY <1>3, <2>1, <2>2
<1>14. CacheCurrent'
  <2>1. cache # None => /\ Current(cache.bundle)
                        /\ Spendable(cache.bundle) \/ (Rotated(t) /\ b.refresh = cache.bundle.refresh)
    BY <1>12 DEF IInv, CacheCurrent, BeingReplaced, Body
  <2>2. Rotated(t) => (op'[t].at = "stored" /\ Rotated(t)') \/ lost'
    BY <1>3, <1>5 DEF Rotated
  <2>3. cache # None => cache.bundle \in Bundle
    BY <2>1 DEF Current
  <2> QED
    BY <1>1, <1>5, <1>8, <2>1, <2>2, <2>3 DEF CacheCurrent, Current, Spendable, BeingReplaced
<1> QED
  BY <1>5, <1>7, <1>11, <1>13, <1>14 DEF IInv

LEMMA AfterWriteKeeps == ASSUME IInv, NEW t \in Tasks, AfterWrite(t) PROVE IInv'
<1> DEFINE b == op[t].bundle
           new == op[t].new
<1>1. /\ lock.holder = t /\ op[t].at \in {"stored", "unstored"} /\ CopyCurrent(t) /\ lock' = Release(lock)
      /\ UNCHANGED <<secret, wiring, endpoint, faults, lost, seen>>
  BY DEF AfterWrite, IInv, LockExcludes, InBody, Body, CopiesCurrent
<1>2. Current(b) /\ Current(new) /\ Spendable(new) /\ new.access # b.access
  BY <1>1 DEF CopyCurrent, Answered
<1>3. new.access \in 0..MaxToken /\ new.access \notin seen /\ lock' \in LockState /\ lock'.holder = None
  BY <1>1, <1>2, OAuthAssumption DEF IInv, TypeOK, Numbered, Current, Bundle, LockState, Release
<1>4. Returns(t, new.access) \/ Raises(t)
  BY DEF AfterWrite
<1>5. answer' \in 0..MaxToken /\ answer' \notin seen
  BY <1>3, <1>4, ReturnsOneToken
<1>6. PICK o \in Op : o.at \notin Body /\ op' = [op EXCEPT ![t] = o]
  BY <1>3, <1>4, ReturnsOneToken
<1>7. /\ op' \in [Tasks -> Op] /\ op'[t] = o /\ LockExcludes'
      /\ \A s \in Tasks \ {t} : op'[s] = op[s] /\ ~InBody(s)
  <2>1. lock.holder \in {t, None} /\ lock'.holder \in {t, None} /\ (o.at \in Body <=> lock'.holder = t)
    BY <1>1, <1>3, <1>6, OAuthAssumption
  <2> QED
    BY <1>6, <2>1, HolderMoves
<1>8. CopiesCurrent'
  <2>1. CopyCurrent(t)'
    BY <1>6, <1>7 DEF CopyCurrent, Body, Answered
  <2> QED
    BY <1>7, <2>1, OthersHoldNothing
<1>9. /\ \A s \in Tasks : op[s].at \in Body => s = t
      /\ secret # None => Current(secret) /\ Spendable(secret)
  <2>1. \A s \in Tasks : op[s].at \in Body => s = t
    BY <1>7 DEF InBody
  <2>2. ~BeingReplaced(secret, {"answered", "write"})
    BY <1>1, <2>1 DEF BeingReplaced, Body
  <2> QED
    BY <2>1, <2>2 DEF IInv, SecretCurrent
<1>10. CASE op[t].at = "stored"
  <2>1. cache' = [bundle |-> new, fresh |-> TRUE] /\ replaced' = replaced \cup {b.access}
    BY <1>10 DEF AfterWrite
  <2>2. b.access \in 1..issued /\ b.access \in 1..MaxToken /\ new \in Bundle
    BY <1>2 DEF Current, Bundle, IInv, TypeOK
  <2>3. TypeOK' /\ Numbered' /\ ReplacedTokensAreNotServed'
    BY <1>1, <1>3, <1>5, <1>7, <2>1, <2>2
    DEF IInv, TypeOK, Numbered, ReplacedTokensAreNotServed, wiring, endpoint
  <2>4. SecretCurrent'
    BY <1>1, <1>9, <1>10, <2>1 DEF SecretCurrent, CopyCurrent, Current, Spendable, endpoint
  <2>5. CacheCurrent'
    BY <1>1, <1>2, <2>1 DEF CacheCurrent, Current, Spendable, endpoint
  <2> QED
    BY <1>7, <1>8, <2>3, <2>4, <2>5 DEF IInv
<1>11. CASE op[t].at = "unstored"
  <2>1. UNCHANGED <<cache, replaced>>
    BY <1>11 DEF AfterWrite
  <2>2. TypeOK' /\ Numbered' /\ ReplacedTokensAreNotServed'
    BY <1>1, <1>3, <1>5, <1>7, <2>1 DEF IInv, TypeOK, Numbered, ReplacedTokensAreNotServed, wiring, endpoint
  <2>3. cache # None => Current(cache.bundle) /\ Spendable(cache.bundle)
    BY <1>9, <1>11 DEF IInv, CacheCurrent, BeingReplaced, Body
  <2>4. SecretCurrent' /\ CacheCurrent'
    BY <1>1, <1>9, <2>1, <2>3 DEF SecretCurrent, CacheCurrent, Current, Spendable, endpoint
  <2> QED
    BY <1>7, <1>8, <2>2, <2>4 DEF IInv
<1> QED
  BY <1>1, <1>10, <1>11

\* What a lock becomes when two of its parts change.
LEMMA LockParts ==
  ASSUME lock \in LockState, NEW ws \in Seq(Tasks), NEW l \in {"main", "worker", None}, NEW t \in Tasks
  PROVE  /\ [lock EXCEPT !.waiters = ws, !.loop = l] \in LockState
         /\ [lock EXCEPT !.waiters = ws, !.loop = l].holder = lock.holder
         /\ [lock EXCEPT !.holder = t, !.waiters = ws] \in LockState
         /\ [lock EXCEPT !.holder = t, !.waiters = ws].holder = t
<1>1. [lock EXCEPT !.waiters = ws, !.loop = l] = [holder |-> lock.holder, waiters |-> ws, loop |-> l]
  <2> DEFINE r == [holder |-> lock.holder, waiters |-> ws, loop |-> lock.loop]
  <2>1. [lock EXCEPT !.waiters = ws] = r
    BY DEF LockState
  <2>2. [r EXCEPT !.loop = l] = [holder |-> lock.holder, waiters |-> ws, loop |-> l]
    OBVIOUS
  <2> HIDE DEF r
  <2> QED
    BY <2>1, <2>2
<1>2. [lock EXCEPT !.holder = t, !.waiters = ws] = [holder |-> t, waiters |-> ws, loop |-> lock.loop]
  <2> DEFINE r == [holder |-> t, waiters |-> lock.waiters, loop |-> lock.loop]
  <2>1. [lock EXCEPT !.holder = t] = r
    BY DEF LockState
  <2>2. [r EXCEPT !.waiters = ws] = [holder |-> t, waiters |-> ws, loop |-> lock.loop]
    OBVIOUS
  <2> HIDE DEF r
  <2> QED
    BY <2>1, <2>2
<1> QED
  BY <1>1, <1>2 DEF LockState

LEMMA EnterKeeps == ASSUME IInv, NEW t \in Tasks, Enter(t) PROVE IInv'
<1>1. lock \in LockState /\ op[t].at \in {"idle", "called"} /\ answer \in 0..MaxToken /\ faults \in 0..MaxFaults
  BY DEF Enter, Starts, IInv, TypeOK
<1>2. CASE Unlocked /\ LookUp(t, [lock EXCEPT !.holder = t])
  <2> DEFINE lk == [lock EXCEPT !.holder = t]
  <2>1. lock.holder = None /\ lk \in LockState /\ lk.holder = t /\ LookUp(t, lk)
    BY <1>1, <1>2 DEF Unlocked, LockState
  <2> HIDE DEF lk
  <2> QED
    BY <2>1, LookUpKeeps
<1>3. CASE /\ lock' = [lock EXCEPT !.waiters = Append(@, t), !.loop = EventLoop(t)]
           /\ op' = [op EXCEPT ![t] = [Idle EXCEPT !.at = "queued"]]
           /\ UNCHANGED <<secret, cache, wiring, endpoint, answer, faults, history>>
  <2> DEFINE o == [Idle EXCEPT !.at = "queued"]
  <2>1. o \in Op /\ o.at \notin Body /\ ~InBody(t)
    BY <1>1 DEF Idle, Op, Stage, Body, InBody
  <2>2. lock' \in LockState /\ lock'.holder = lock.holder
    <3>1. EventLoop(t) \in {"main", "worker", None} /\ Append(lock.waiters, t) \in Seq(Tasks)
      BY <1>1 DEF LockState, EventLoop
    <3> QED
      BY <1>1, <1>3, <3>1, LockParts
  <2>3. seen' \subseteq replaced /\ answer' \in 0..MaxToken /\ answer' \notin seen' /\ faults' \in 0..MaxFaults
        /\ UNCHANGED <<lost, replaced>>
    BY <1>1, <1>3 DEF IInv, Numbered, ReplacedTokensAreNotServed, history
  <2> QED
    BY <1>3, <2>1, <2>2, <2>3, OutsideMoves
<1>4. CASE Raises(t) /\ UNCHANGED <<secret, cache, lock, wiring, endpoint, faults, history>>
  <2>1. PICK o \in {Idle, [Idle EXCEPT !.at = "raw"]} : op' = [op EXCEPT ![t] = o] /\ UNCHANGED answer
    BY <1>4 DEF Raises
  <2>2. o \in Op /\ o.at \notin Body /\ ~InBody(t)
    BY <1>1 DEF Idle, Op, Stage, Body, InBody
  <2>3. seen' \subseteq replaced /\ answer' \in 0..MaxToken /\ answer' \notin seen' /\ faults' \in 0..MaxFaults
        /\ UNCHANGED <<lost, replaced>> /\ lock' \in LockState /\ lock'.holder = lock.holder
    BY <1>1, <1>4, <2>1 DEF IInv, Numbered, ReplacedTokensAreNotServed, history
  <2> QED
    BY <1>4, <2>1, <2>2, <2>3, OutsideMoves
<1> QED
  BY <1>2, <1>3, <1>4 DEF Enter

LEMMA GrantedKeeps == ASSUME IInv, NEW t \in Tasks, Granted(t) PROVE IInv'
<1> DEFINE lk == [lock EXCEPT !.holder = t, !.waiters = Tail(@)]
<1>1. lock \in LockState /\ lock.holder = None /\ lock.waiters # <<>> /\ LookUp(t, lk)
  BY DEF Granted, IInv, TypeOK
<1>2. lk \in LockState /\ lk.holder = t
  <2>1. Tail(lock.waiters) \in Seq(Tasks)
    BY <1>1 DEF LockState
  <2> QED
    BY <1>1, <2>1, LockParts
<1> HIDE DEF lk
<1> QED
  BY <1>1, <1>2, LookUpKeeps

-----------------------------------------------------------------------------
(* Other steps.                                                            *)

LEMMA ResolveKeeps == ASSUME IInv, Resolve PROVE IInv'
<1> DEFINE o == [Idle EXCEPT !.at = "called"]
<1>1. Worker \in Tasks /\ o \in Op /\ o.at \notin Body /\ ~InBody(Worker) /\ op' = [op EXCEPT ![Worker] = o]
  BY DEF Resolve, Tasks, Idle, Op, Stage, Body, InBody
<1>2. /\ UNCHANGED <<secret, cache, wiring, endpoint, lost, replaced>> /\ lock' = lock /\ faults' = faults
      /\ seen' = replaced /\ answer' = 0
  BY DEF Resolve
<1>3. lock' \in LockState /\ 0 \in 0..MaxToken /\ 0 \notin replaced /\ faults' \in 0..MaxFaults
  BY <1>2, OAuthAssumption DEF IInv, TypeOK
<1> HIDE DEF o
<1> QED
  BY <1>1, <1>2, <1>3, OutsideMoves

LEMMA RawReadKeeps == ASSUME IInv, RawRead PROVE IInv'
<1>1. Worker \in Tasks /\ Idle \in Op /\ Idle.at \notin Body /\ ~InBody(Worker) /\ op' = [op EXCEPT ![Worker] = Idle]
  BY DEF RawRead, Tasks, Idle, Op, Stage, Body, InBody
<1>2. /\ UNCHANGED <<secret, cache, wiring, endpoint, lost, replaced>> /\ lock' = lock /\ seen' = seen
  BY DEF RawRead, history
<1>3. answer' \in 0..MaxToken /\ answer' \notin seen
  BY OAuthAssumption DEF RawRead, IInv, TypeOK, SecretCurrent, Current, Bundle, Numbered
<1>4. lock' \in LockState /\ faults' \in 0..MaxFaults /\ seen' \subseteq replaced
  BY <1>2, OAuthAssumption DEF RawRead, CanFail, IInv, TypeOK, Numbered
<1> QED
  BY <1>1, <1>2, <1>3, <1>4, OutsideMoves

\* A request that takes neither the lock nor the cache, or time that passes: a
\* bundle that it stores has a number of its own.
LEMMA OthersKeep ==
  ASSUME IInv, UNCHANGED <<lock, op, answer, faults, history>>,
         issued' \in issued..MaxToken, live \subseteq live', live' \subseteq 1..issued', near' \subseteq 1..MaxToken,
         configured' \in BOOLEAN, tracked' \in BOOLEAN, looping' \in BOOLEAN,
         secret' = secret \/ (secret' \in Bundle /\ secret'.access > issued /\ secret'.access <= issued'
                              /\ secret'.refresh \in live' \cup {0}),
         cache' = cache \/ (cache # None /\ cache' \in [bundle : Bundle, fresh : BOOLEAN]
                            /\ cache'.bundle = cache.bundle)
  PROVE  IInv'
<1>1. issued \in 1..MaxToken /\ MaxToken \in Nat /\ replaced \subseteq 1..issued /\ issued' \in Nat
  BY OAuthAssumption DEF IInv, TypeOK, Numbered
<1>2. \A x \in Bundle : (Current(x) => x.access <= issued' /\ x.access \notin replaced')
                        /\ (Spendable(x) => lost' \/ x.refresh \in live' \cup {0})
  BY <1>1 DEF Current, Spendable, Bundle, history
<1>3. TypeOK'
  <2>1. lost' \in BOOLEAN /\ secret' \in Bundle \cup {None} /\ cache' \in [bundle : Bundle, fresh : BOOLEAN] \cup {None}
    BY DEF IInv, TypeOK, history
  <2>2. live' \subseteq 1..MaxToken /\ issued' \in 1..MaxToken
    BY <1>1
  <2> QED
    BY <2>1, <2>2 DEF IInv, TypeOK, history
<1>4. LockExcludes' /\ Numbered' /\ ReplacedTokensAreNotServed'
  BY <1>1 DEF IInv, LockExcludes, InBody, Numbered, ReplacedTokensAreNotServed, history
<1>5. ASSUME NEW t \in Tasks PROVE CopyCurrent(t)'
  <2>1. op'[t] = op[t] /\ CopyCurrent(t)
    BY DEF IInv, CopiesCurrent
  <2>2. op[t].at = "stored" => secret' # None /\ secret'.access # op[t].bundle.access
    BY <1>1, <2>1, NoneIsNoBundle DEF CopyCurrent, Current, Bundle, Answered
  <2> QED
    BY <1>2, <2>1, <2>2 DEF CopyCurrent, Current, Spendable, Answered
<1>6. ASSUME NEW x \in Bundle, NEW stages, BeingReplaced(x, stages)
      PROVE  \E t \in Tasks : op'[t].at \in stages /\ (op'[t].new # None /\ op'[t].new.refresh # op'[t].bundle.refresh)
                              /\ op'[t].bundle.refresh = x.refresh
  BY <1>6 DEF BeingReplaced, Rotated
<1>7. SecretCurrent'
  <2>1. CASE secret' = secret /\ secret # None
    <3>1. secret \in Bundle /\ Current(secret) /\ (Spendable(secret) \/ BeingReplaced(secret, {"answered", "write"}))
      BY <2>1 DEF IInv, SecretCurrent, Current
    <3>2. CASE Spendable(secret)
      BY <1>2, <2>1, <3>1, <3>2 DEF SecretCurrent, Current, Spendable
    <3>3. CASE BeingReplaced(secret, {"answered", "write"})
      BY <1>2, <1>6, <2>1, <3>1, <3>3 DEF SecretCurrent, Current, BeingReplaced, Rotated
    <3> QED
      BY <3>1, <3>2, <3>3
  <2>2. CASE secret' \in Bundle /\ secret'.access > issued /\ secret'.access <= issued' /\ secret'.refresh \in live' \cup {0}
    BY <1>1, <2>2 DEF SecretCurrent, Current, Spendable, Bundle, history
  <2>3. CASE secret' = secret /\ secret = None
    BY <2>3 DEF SecretCurrent
  <2> QED
    BY <2>1, <2>2, <2>3
<1>8. CacheCurrent'
  <2>1. CASE cache = None
    BY <2>1 DEF CacheCurrent
  <2>2. CASE cache # None
    <3>1. /\ cache'.bundle = cache.bundle /\ cache.bundle \in Bundle /\ Current(cache.bundle)
          /\ Spendable(cache.bundle) \/ BeingReplaced(cache.bundle, {"answered", "write", "stored"})
      BY <2>2 DEF IInv, CacheCurrent, Current
    <3>2. CASE Spendable(cache.bundle)
      BY <1>2, <3>1, <3>2 DEF CacheCurrent, Current, Spendable
    <3>3. CASE BeingReplaced(cache.bundle, {"answered", "write", "stored"})
      BY <1>2, <1>6, <3>1, <3>3 DEF CacheCurrent, Current, BeingReplaced, Rotated
    <3> QED
      BY <3>1, <3>2, <3>3
  <2> QED
    BY <2>1, <2>2
<1> QED
  BY <1>3, <1>4, <1>5, <1>7, <1>8 DEF IInv, CopiesCurrent

\* The process dies with the lock, the cache and what the tasks had in hand.
LEMMA CrashKeeps == ASSUME IInv, Crash PROVE IInv'
<1>1. /\ op' = [t \in Tasks |-> Idle] /\ cache' = None /\ lock' = [holder |-> None, waiters |-> <<>>, loop |-> None]
      /\ tracked' = configured /\ looping' = configured /\ answer' = 0
      /\ UNCHANGED <<secret, configured, endpoint, replaced, seen>>
  BY DEF Crash
<1>2. Idle \in Op /\ Idle.at = "idle"
  BY DEF Idle, Op, Stage
<1>3. lost \in BOOLEAN /\ lost' \in BOOLEAN /\ (lost => lost')
      /\ ((\E t \in Tasks : op[t].at \in {"answered", "write"} /\ Rotated(t)) => lost')
  <2>1. lost \in BOOLEAN
    BY DEF IInv, TypeOK
  <2>2. lost' = (lost \/ \E t \in Tasks : op[t].at \in {"answered", "write"} /\ Rotated(t))
    BY DEF Crash
  <2> QED
    BY <2>1, <2>2
<1>4. faults' \in 0..MaxFaults
  BY OAuthAssumption DEF Crash, CanFail, IInv, TypeOK
<1>5. TypeOK'
  <2>1. lock' \in LockState
    BY <1>1 DEF LockState
  <2>2. op' \in [Tasks -> Op]
    BY <1>1, <1>2
  <2>3. <<configured, tracked, looping, lost>>' \in BOOLEAN \X BOOLEAN \X BOOLEAN \X BOOLEAN
    BY <1>1, <1>3 DEF IInv, TypeOK
  <2>4. answer' \in 0..MaxToken
    BY <1>1, OAuthAssumption
  <2> QED
    BY <1>1, <1>4, <2>1, <2>2, <2>3, <2>4 DEF IInv, TypeOK, endpoint
<1>6. LockExcludes' /\ Numbered' /\ ReplacedTokensAreNotServed'
  BY <1>1, <1>2, OAuthAssumption DEF IInv, LockExcludes, InBody, Body, Numbered, ReplacedTokensAreNotServed, TypeOK, endpoint
<1>7. CopiesCurrent' /\ CacheCurrent'
  BY <1>1, <1>2 DEF CopiesCurrent, CopyCurrent, Answered, CacheCurrent
<1>8. SecretCurrent'
  BY <1>1, <1>3 DEF IInv, SecretCurrent, BeingReplaced, Current, Spendable, endpoint
<1> QED
  BY <1>5, <1>6, <1>7, <1>8 DEF IInv

-----------------------------------------------------------------------------
LEMMA TaskKeeps == ASSUME IInv, NEW t \in Tasks, TaskStep(t) \/ Outside(t) PROVE IInv'
BY EnterKeeps, GrantedKeeps, AfterReadKeeps, AfterExchangeKeeps, AfterWriteKeeps,
   ReadSecretKeeps, ExchangeKeeps, WriteSecretKeeps DEF TaskStep, Outside

LEMMA NextKeeps == ASSUME IInv, [Next]_vars PROVE IInv'
<1>1. /\ issued \in 1..MaxToken /\ MaxToken \in Nat /\ live \subseteq 1..issued /\ near \subseteq 1..MaxToken
      /\ configured \in BOOLEAN /\ tracked \in BOOLEAN /\ looping \in BOOLEAN
  BY OAuthAssumption DEF IInv, TypeOK, Numbered
<1>2. CASE WriteOAuthSecret
  <2>1. issued' = issued + 1 /\ issued' \in 1..MaxToken /\ live' = live \cup {issued'}
        /\ secret' = [access |-> issued', refresh |-> issued']
    BY <1>1, <1>2 DEF WriteOAuthSecret
  <2>2. secret' \in Bundle /\ secret'.access > issued /\ secret'.access <= issued' /\ secret'.refresh \in live'
    BY <1>1, <2>1 DEF Bundle
  <2> QED
    BY <1>1, <1>2, <2>1, <2>2, OthersKeep DEF WriteOAuthSecret, manager
<1>3. CASE RotateSecret
  <2>1. issued' = issued + 1 /\ issued' \in 1..MaxToken /\ secret' = [access |-> issued', refresh |-> 0]
    BY <1>1, <1>3 DEF RotateSecret
  <2>2. secret' \in Bundle /\ secret'.access > issued /\ secret'.access <= issued' /\ secret'.refresh = 0
    BY <1>1, <2>1 DEF Bundle
  <2> QED
    BY <1>1, <1>3, <2>1, <2>2, OthersKeep DEF RotateSecret, manager, wiring
<1>4. CASE CreateProvider \/ DeleteProvider
  <2>1. /\ UNCHANGED <<secret, cache, lock, op, tracked, looping, live, near, issued, answer, faults, history>>
        /\ configured' \in BOOLEAN
    BY <1>4 DEF CreateProvider, DeleteProvider, manager, endpoint
  <2>2. issued' \in issued..MaxToken /\ live \subseteq live' /\ live' \subseteq 1..issued' /\ near' \subseteq 1..MaxToken
    BY <1>1, <2>1
  <2> QED
    BY <1>1, <2>1, <2>2, OthersKeep
<1>5. CASE NearExpiry
  <2>1. near' \subseteq 1..MaxToken
    BY <1>1, <1>5 DEF NearExpiry
  <2> QED
    BY <1>1, <1>5, <2>1, OthersKeep DEF NearExpiry, manager, wiring
<1>6. CASE CacheExpires
  <2>1. cache # None /\ cache' \in [bundle : Bundle, fresh : BOOLEAN] /\ cache'.bundle = cache.bundle
    BY <1>6 DEF CacheExpires, CacheHit, IInv, TypeOK
  <2> QED
    BY <1>1, <1>6, <2>1, OthersKeep DEF CacheExpires, wiring, endpoint
<1>7. CASE UNCHANGED vars
  BY <1>1, <1>7, OthersKeep DEF vars, manager, wiring, endpoint
<1> QED
  BY <1>2, <1>3, <1>4, <1>5, <1>6, <1>7, TaskKeeps, ResolveKeeps, RawReadKeeps, CrashKeeps DEF Next

\* In every state the lock excludes, and what is stored, cached or in a task's
\* hands is current or about to be replaced.
LEMMA IInvHolds == Spec => []IInv
<1> QED
  BY InitCurrent, NextKeeps, PTL DEF Spec

\* No refresh token is presented after it was rotated away, and no resolve
\* returns an access token whose successor was stored before it began: for any
\* requests, interleavings and faults.
THEOREM TokensCurrent == Spec => []TokensAreCurrent
<1>1. ASSUME IInv PROVE TokensAreCurrent
  BY <1>1 DEF IInv, CopiesCurrent, CopyCurrent, Spendable, Current, RefreshTokensSpentOnce, TokensAreCurrent
<1> QED
  BY <1>1, IInvHolds, PTL
=============================================================================
