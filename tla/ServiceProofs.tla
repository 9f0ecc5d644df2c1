--------------------------- MODULE ServiceProofs ---------------------------
(***************************************************************************)
(* The services that keep documents of their own, for any users, names,    *)
(* entries and requests: secrets end with a value or for a reason; the     *)
(* index of the shared context agrees with the store of its blobs; session *)
(* tokens are fresh; interviews go forward; what was stored, deleted or    *)
(* switched off among overrides, skills and tools stands; the catalog has  *)
(* no orphans or lost edits, and its prices are found, but for what        *)
(* overlaps and failures explain.                                          *)
(*                                                                         *)
(* Each part has an invariant of its own; the parts share no state, so a   *)
(* step of one is a stutter of the others.  Of a document, what is said of *)
(* the stored one is said of each copy that a request may yet write back;  *)
(* InOrder, that requests begin one after the other and that whoever began *)
(* before another wrote has met it, decides which copies can be old.       *)
(***************************************************************************)
EXTENDS MC_Services, FiniteSetTheorems, TLAPS

allVars == <<part, catVars, costVars, onbVars, contextVars, cfgVars, shelfVars, secretVars, tokenVars>>

-----------------------------------------------------------------------------
(* Secrets.                                                                *)

Seedings == {"seed", "placeholders"}

SecretRequest ==
  [op : E!Server \cup Seedings \cup {"none"},
   pc : {"idle", "look", "create", "add", "over", "refused", "failed"},
   n : Names \cup {None}, todo : SUBSET Names, given : SUBSET Names, fault : BOOLEAN]

SecretVersions == Seq(Users \cup {E!Placeholder})

SecretTypes ==
  /\ store \in [Names -> SecretVersions \cup {None}]
  /\ secretReq \in [Users -> SecretRequest]
  /\ \A r \in Users : secretReq[r].pc = "idle" => secretReq[r].op = "none"

\* What a request that has looked is about.
LookedAt ==
  \A r \in Users :
    /\ secretReq[r].pc \in {"look", "create", "add"} => secretReq[r].op # "none"
    /\ secretReq[r].pc \in {"create", "add"} => secretReq[r].n \in Names
    /\ secretReq[r].pc = "add" => store[secretReq[r].n] # None

\* Requests that are under way at one time have met.
UnderMeet == \A r, s \in Users : r # s /\ E!Under(r) /\ E!Under(s) => {r, s} \in secretMet

\* Only a request that r met can have created what r is about to create.
CreatesAlone ==
  \A r \in Users : secretReq[r].pc = "create" /\ ~secretReq[r].fault =>
    store[secretReq[r].n] = None \/ \E s \in Users \ {r} : {r, s} \in secretMet

SecretInv ==
  /\ SecretTypes /\ LookedAt /\ UnderMeet /\ CreatesAlone
  /\ E!SecretsHaveValues /\ E!FailuresAreExplained

LEMMA SecretsInit == ASSUME SecretsAssumption, E!SecretInit PROVE SecretInv
<1>1. E!Idle \in SecretRequest /\ E!Idle.pc = "idle" /\ E!Idle.op = "none"
  BY DEF E!Idle, SecretRequest
<1>2. SecretTypes
  BY <1>1 DEF E!SecretInit, SecretTypes
<1>3. \A r \in Users : secretReq[r].pc = "idle"
  BY <1>1 DEF E!SecretInit
<1>4. LookedAt /\ UnderMeet /\ CreatesAlone /\ E!FailuresAreExplained
  BY <1>3 DEF LookedAt, UnderMeet, CreatesAlone, E!FailuresAreExplained, E!Under
<1>5. E!SecretsHaveValues
  BY DEF E!SecretsHaveValues, E!SecretInit, SecretsAssumption
<1> QED
  BY <1>2, <1>4, <1>5 DEF SecretInv

\* A request begins: it meets those under way.
LEMMA SecretBegins ==
  ASSUME SecretInv, NEW r \in Users, NEW to \in SecretRequest,
         secretReq[r].pc = "idle", to.pc = "look", to.op # "none",         secretReq' = [secretReq EXCEPT ![r] = to], E!Meets(r), UNCHANGED store
  PROVE  SecretInv'
<1>1. \A s \in Users : secretReq'[s] = IF s = r THEN to ELSE secretReq[s]
  BY DEF SecretInv, SecretTypes
<1>2. SecretTypes'
  BY <1>1 DEF SecretInv, SecretTypes
<1>3. secretMet \subseteq secretMet' /\ \A s \in Users : E!Under(s) => {r, s} \in secretMet'
  BY DEF E!Meets
<1>4. LookedAt'
  BY <1>1 DEF SecretInv, LookedAt
<1>5. UnderMeet'
  BY <1>1, <1>3 DEF SecretInv, UnderMeet, E!Under
<1>6. CreatesAlone' /\ E!FailuresAreExplained'
  BY <1>1, <1>3 DEF SecretInv, CreatesAlone, E!FailuresAreExplained
<1>7. E!SecretsHaveValues'
  <2> SUFFICES ASSUME NEW n \in Names, store[n] = <<>>
               PROVE  \E s \in Users : \/ secretReq'[s].n = n /\ secretReq'[s].pc \in {"add", "failed"}
                                       \/ secretReq'[s].op = "seed" /\ n \notin secretReq'[s].given
    BY DEF E!SecretsHaveValues
  <2> QED
    BY <1>1 DEF SecretInv, SecretTypes, E!SecretsHaveValues
<1> QED
  BY <1>2, <1>4, <1>5, <1>6, <1>7 DEF SecretInv

\* A request under way goes on, or fails; no document goes away, and one that
\* appears is of r, which is to add its value.
SecretMove(r, to) ==
  /\ E!Under(r) /\ to \in SecretRequest
  /\ secretReq' = [secretReq EXCEPT ![r] = to] /\ UNCHANGED secretMet
  /\ to.pc # "idle" /\ to.op = secretReq[r].op /\ to.given = secretReq[r].given
  /\ store' \in [Names -> SecretVersions \cup {None}]
  /\ \A n \in Names : store[n] # None => store'[n] # None
  /\ \A n \in Names : store'[n] # None => store[n] # None \/ (n = to.n /\ to.pc = "add")
  /\ to.pc \in {"create", "add"} => to.n \in Names
  /\ to.pc = "add" => store'[to.n] # None
  /\ to.pc = "create" /\ ~to.fault => store[to.n] = None \/ \E s \in Users \ {r} : {r, s} \in secretMet
  /\ to.pc = "failed" /\ ~to.fault => \E s \in Users \ {r} : {r, s} \in secretMet
  /\ \A n \in Names : store'[n] = <<>> /\ (store[n] # <<>> \/ (secretReq[r].n = n /\ secretReq[r].pc = "add")) =>
       (to.n = n /\ to.pc \in {"add", "failed"}) \/ (to.op = "seed" /\ n \notin to.given)

LEMMA SecretGoesOn ==
  ASSUME SecretInv, NEW r \in Users, NEW to, SecretMove(r, to)
  PROVE  SecretInv'
<1>1. \A s \in Users : secretReq'[s] = IF s = r THEN to ELSE secretReq[s]
  BY DEF SecretInv, SecretTypes, SecretMove
<1>2. SecretTypes' /\ LookedAt'
  BY <1>1 DEF SecretInv, SecretTypes, LookedAt, E!Under, SecretMove
<1>3. UnderMeet'
  BY <1>1 DEF SecretInv, UnderMeet, E!Under, SecretMove
<1>4. CreatesAlone'
  <2> SUFFICES ASSUME NEW s \in Users, secretReq'[s].pc = "create", ~secretReq'[s].fault
               PROVE  store'[secretReq'[s].n] = None \/ \E q \in Users \ {s} : {s, q} \in secretMet'
    BY DEF CreatesAlone
  <2>1. CASE s = r
    BY <1>1, <2>1 DEF SecretMove
  <2>2. CASE s # r
    <3>1. secretReq'[s] = secretReq[s] /\ E!Under(s) /\ secretReq[s].n \in Names
      BY <1>1, <2>2 DEF E!Under, SecretInv, LookedAt
    <3>2. {s, r} \in secretMet'
      BY <2>2, <3>1 DEF SecretInv, UnderMeet, SecretMove
    <3> QED
      BY <2>2, <3>2
  <2> QED
    BY <2>1, <2>2
<1>5. E!FailuresAreExplained'
  BY <1>1 DEF SecretInv, E!FailuresAreExplained, SecretMove
<1>6. E!SecretsHaveValues'
  <2> SUFFICES ASSUME NEW n \in Names, store'[n] = <<>>
               PROVE  \E s \in Users : \/ secretReq'[s].n = n /\ secretReq'[s].pc \in {"add", "failed"}
                                       \/ secretReq'[s].op = "seed" /\ n \notin secretReq'[s].given
    BY DEF E!SecretsHaveValues
  <2>1. CASE store[n] # <<>> \/ (secretReq[r].n = n /\ secretReq[r].pc = "add")
    BY <1>1, <2>1 DEF SecretMove
  <2>2. CASE store[n] = <<>> /\ ~(secretReq[r].n = n /\ secretReq[r].pc = "add")
    <3>1. PICK s \in Users : \/ secretReq[s].n = n /\ secretReq[s].pc \in {"add", "failed"}
                             \/ secretReq[s].op = "seed" /\ n \notin secretReq[s].given
      BY <2>2 DEF SecretInv, E!SecretsHaveValues
    <3>2. s # r \/ (secretReq[s].op = "seed" /\ n \notin secretReq[s].given)
      BY <2>2, <3>1 DEF SecretMove, E!Under
    <3> QED
      BY <1>1, <3>1, <3>2 DEF SecretMove
  <2> QED
    BY <2>1, <2>2
<1> QED
  BY <1>2, <1>3, <1>4, <1>5, <1>6 DEF SecretInv

LEMMA SecretLooks ==
  ASSUME SecretsAssumption, SecretInv, NEW r \in Users, E!Look(r)
  PROVE  SecretInv'
<1>1. secretReq[r] \in SecretRequest /\ secretReq[r].pc = "look" /\ secretReq \in [Users -> SecretRequest]
  BY DEF SecretInv, SecretTypes, E!Look
<1>2. PICK n \in secretReq[r].todo, pc \in {"add", "create", "refused", "failed"}, fault \in BOOLEAN :
        /\ secretReq' = [secretReq EXCEPT ![r] = [secretReq[r] EXCEPT !.pc = pc, !.n = n, !.todo = @ \ {n}, !.fault = fault]]
        /\ pc = "add" => store[n] # None
        /\ pc = "create" => store[n] = None \/ fault
        /\ pc = "failed" => fault
  <2>1. PICK n \in secretReq[r].todo :
          \/ secretReq' = [secretReq EXCEPT ![r].pc = E!Looked(r, n, store[n] # None), ![r].n = n, ![r].todo = @ \ {n}]
          \/ \E pc \in {E!Looked(r, n, FALSE)} \cup (IF secretReq[r].op \in E!Server THEN {"failed"} ELSE {}) :
               secretReq' = [secretReq EXCEPT ![r].pc = pc, ![r].n = n, ![r].todo = @ \ {n}, ![r].fault = TRUE]
    BY DEF E!Look
  <2>2. ASSUME secretReq' = [secretReq EXCEPT ![r].pc = E!Looked(r, n, store[n] # None), ![r].n = n, ![r].todo = @ \ {n}]
        PROVE  /\ E!Looked(r, n, store[n] # None) \in {"add", "create", "refused"}
               /\ secretReq' = [secretReq EXCEPT ![r] = [secretReq[r] EXCEPT !.pc = E!Looked(r, n, store[n] # None),
                                                            !.n = n, !.todo = @ \ {n}, !.fault = secretReq[r].fault]]
    BY <1>1, <2>2 DEF SecretRequest, E!Looked
  <2>3. ASSUME NEW pc, secretReq' = [secretReq EXCEPT ![r].pc = pc, ![r].n = n, ![r].todo = @ \ {n}, ![r].fault = TRUE]
        PROVE  secretReq' = [secretReq EXCEPT ![r] = [secretReq[r] EXCEPT !.pc = pc, !.n = n, !.todo = @ \ {n}, !.fault = TRUE]]
    BY <1>1, <2>3
  <2>4. secretReq[r].fault \in BOOLEAN /\ E!Looked(r, n, FALSE) \in {"create", "refused"}
    BY <1>1 DEF SecretRequest, E!Looked
  <2> QED
    BY <2>1, <2>2, <2>3, <2>4 DEF E!Looked
<1> DEFINE to == [secretReq[r] EXCEPT !.pc = pc, !.n = n, !.todo = @ \ {n}, !.fault = fault]
<1>3. /\ to \in SecretRequest /\ n \in Names /\ to.n = n /\ to.pc = pc /\ to.fault = fault
      /\ to.op = secretReq[r].op /\ to.given = secretReq[r].given
  BY <1>1 DEF SecretRequest
<1>4. UNCHANGED <<store, secretMet>> /\ E!Under(r)
  BY DEF E!Look, E!Under
<1>5. secretReq' = [secretReq EXCEPT ![r] = to]
  BY <1>2
<1> HIDE DEF to
<1>6. SecretMove(r, to)
  BY <1>1, <1>2, <1>3, <1>4, <1>5 DEF SecretMove, SecretInv, SecretTypes
<1> QED
  BY <1>6, SecretGoesOn

LEMMA SecretCallFails ==
  ASSUME SecretInv, NEW r \in Users, E!CallFails(r)
  PROVE  SecretInv'
<1> DEFINE to == [secretReq[r] EXCEPT !.pc = "failed", !.fault = TRUE]
<1>1. secretReq[r] \in SecretRequest /\ secretReq \in [Users -> SecretRequest]
  BY DEF SecretInv, SecretTypes
<1>2. /\ to \in SecretRequest /\ to.pc = "failed" /\ to.fault /\ to.n = secretReq[r].n
      /\ to.op = secretReq[r].op /\ to.given = secretReq[r].given
  BY <1>1 DEF SecretRequest
<1>3. UNCHANGED <<store, secretMet>> /\ E!Under(r) /\ secretReq' = [secretReq EXCEPT ![r] = to]
  BY <1>1 DEF E!CallFails, E!Under
<1> HIDE DEF to
<1>4. SecretMove(r, to)
  BY <1>1, <1>2, <1>3 DEF SecretMove, SecretInv, SecretTypes
<1> QED
  BY <1>4, SecretGoesOn

\* The creation of a secret, which is refused if another has created it.
LEMMA SecretCreates ==
  ASSUME SecretsAssumption, SecretInv, NEW r \in Users, E!Create(r)
  PROVE  SecretInv'
<1> DEFINE n == secretReq[r].n
           to(pc) == [secretReq[r] EXCEPT !.pc = pc]
<1>1. /\ secretReq[r] \in SecretRequest /\ secretReq \in [Users -> SecretRequest] /\ n \in Names
      /\ secretReq[r].pc = "create" /\ secretReq[r].op # "none" /\ E!Under(r) /\ UNCHANGED secretMet
      /\ store \in [Names -> SecretVersions \cup {None}]
  BY DEF SecretInv, SecretTypes, LookedAt, E!Create, E!Under
<1>2. \A pc \in {"failed", "add"} :
        /\ to(pc) \in SecretRequest /\ to(pc).pc = pc /\ to(pc).fault = secretReq[r].fault /\ to(pc).n = n
        /\ to(pc).op = secretReq[r].op /\ to(pc).given = secretReq[r].given
  BY <1>1 DEF SecretRequest
<1>3. CASE store[n] # None
  <2>1. secretReq' = [secretReq EXCEPT ![r] = to("failed")] /\ UNCHANGED store
    BY <1>1, <1>3 DEF E!Create
  <2>2. ~secretReq[r].fault => \E s \in Users \ {r} : {r, s} \in secretMet
    BY <1>1, <1>3 DEF SecretInv, CreatesAlone
  <2> DEFINE failed == to("failed")
  <2>3. /\ failed \in SecretRequest /\ failed.pc = "failed" /\ failed.fault = secretReq[r].fault
        /\ failed.op = secretReq[r].op /\ failed.given = secretReq[r].given
        /\ secretReq' = [secretReq EXCEPT ![r] = failed]
    BY <1>2, <2>1
  <2> HIDE DEF failed
  <2>4. SecretMove(r, failed)
    BY <1>1, <1>3, <2>1, <2>2, <2>3 DEF SecretMove
  <2> QED
    BY <2>4, SecretGoesOn
<1>4. CASE store[n] = None
  <2>1. secretReq' = [secretReq EXCEPT ![r] = to("add")] /\ store' = [store EXCEPT ![n] = <<>>]
    BY <1>1, <1>4 DEF E!Create
  <2> DEFINE adding == to("add")
  <2>2. /\ adding \in SecretRequest /\ adding.pc = "add" /\ adding.n = n
        /\ adding.op = secretReq[r].op /\ adding.given = secretReq[r].given
        /\ secretReq' = [secretReq EXCEPT ![r] = adding]
    BY <1>2, <2>1
  <2> HIDE DEF adding
  <2>3. <<>> \in SecretVersions /\ <<>> # None
    <3>1. \A U : <<>> \in Seq(U)
      OBVIOUS
    <3> QED
      BY <3>1, Zenon DEF SecretVersions, SecretsAssumption, E!Placeholder
  <2>4. /\ store' \in [Names -> SecretVersions \cup {None}]
        /\ \A m \in Names : store'[m] = IF m = n THEN <<>> ELSE store[m]
    BY <1>1, <2>1, <2>3
  <2> HIDE DEF n
  <2>5. SecretMove(r, adding)
    BY <1>1, <2>2, <2>3, <2>4 DEF SecretMove
  <2> QED
    BY <2>5, SecretGoesOn
<1> QED
  BY <1>3, <1>4

\* A version is added, or none if a seeding has no value for the secret.
LEMMA SecretAdds ==
  ASSUME SecretsAssumption, SecretInv, NEW r \in Users, E!Add(r)
  PROVE  SecretInv'
<1> DEFINE n == secretReq[r].n
           v == E!Value(r, n)
           pc == E!Onward(r)
           to == [secretReq[r] EXCEPT !.pc = pc]
<1>1. /\ secretReq[r] \in SecretRequest /\ secretReq \in [Users -> SecretRequest] /\ n \in Names
      /\ secretReq[r].pc = "add" /\ secretReq[r].op # "none" /\ E!Under(r) /\ UNCHANGED secretMet
      /\ store \in [Names -> SecretVersions \cup {None}] /\ store[n] # None
  BY DEF SecretInv, SecretTypes, LookedAt, E!Add, E!Under
<1>2. pc \in {"over", "look"}
  BY DEF E!Onward
<1>3. secretReq' = [secretReq EXCEPT ![r] = to]
  BY <1>1 DEF E!Add
<1>4. v \in Users \cup {E!Placeholder} \/ (v = None /\ secretReq[r].op = "seed" /\ n \notin secretReq[r].given)
  BY <1>1 DEF E!Value, SecretRequest, Seedings, E!Server
<1>5. store' = IF v = None THEN store ELSE [store EXCEPT ![n] = Append(@, v)]
  BY DEF E!Add
<1> HIDE DEF pc, v
<1>6. /\ to \in SecretRequest /\ to.pc = pc /\ to.n = n /\ to.op = secretReq[r].op /\ to.given = secretReq[r].given
  BY <1>1, <1>2 DEF SecretRequest
<1> HIDE DEF to
<1>7. CASE v = None
  <2>1. secretReq[r].op = "seed" /\ n \notin secretReq[r].given /\ store' = store
    BY <1>4, <1>5, <1>7 DEF SecretsAssumption, E!Placeholder
  <2>2. SecretMove(r, to)
    BY <1>1, <1>2, <1>3, <1>6, <2>1 DEF SecretMove
  <2> QED
    BY <2>2, SecretGoesOn
<1>8. CASE v # None
  <2>1. Append(store[n], v) \in SecretVersions /\ Append(store[n], v) # <<>>
    <3>1. \A U, q, x : q \in Seq(U) /\ x \in U => Append(q, x) \in Seq(U) /\ Append(q, x) # <<>>
      OBVIOUS
    <3>2. store[n] \in Seq(Users \cup {E!Placeholder}) /\ v \in Users \cup {E!Placeholder}
      BY <1>1, <1>4, <1>8 DEF SecretVersions
    <3> QED
      BY <3>1, <3>2, Zenon DEF SecretVersions
  <2>2. \A m \in Names : store'[m] = IF m = n THEN Append(store[n], v) ELSE store[m]
    BY <1>1, <1>5, <1>8
  <2>3. store' \in [Names -> SecretVersions \cup {None}]
    BY <1>1, <1>5, <1>8, <2>1
  <2>4. Append(store[n], v) # None
    BY <2>1 DEF SecretsAssumption, SecretVersions, E!Placeholder
  <2>5. SecretMove(r, to)
    BY <1>1, <1>2, <1>3, <1>6, <2>1, <2>2, <2>3, <2>4 DEF SecretMove
  <2> QED
    BY <2>5, SecretGoesOn
<1> QED
  BY <1>7, <1>8

\* The server's requests die; the seedings go on.
LEMMA SecretRestarts ==
  ASSUME SecretInv, E!Restart
  PROVE  SecretInv'
<1>1. /\ UNCHANGED <<store, secretMet>> /\ secretReq' \in [Users -> SecretRequest]
      /\ \A r \in Users :
           \/ secretReq'[r] = secretReq[r]
           \/ /\ E!Under(r) /\ secretReq'[r].pc = "failed" /\ secretReq'[r].fault
              /\ secretReq'[r].n = secretReq[r].n /\ secretReq'[r].op = secretReq[r].op
              /\ secretReq'[r].given = secretReq[r].given
  <2> DEFINE to(r) == [secretReq[r] EXCEPT !.pc = "failed", !.fault = TRUE]
  <2>1. \A r \in Users : /\ to(r) \in SecretRequest /\ to(r).pc = "failed" /\ to(r).fault
                         /\ to(r).n = secretReq[r].n /\ to(r).op = secretReq[r].op
                         /\ to(r).given = secretReq[r].given
    BY DEF SecretInv, SecretTypes, SecretRequest
  <2>2. secretReq' = [r \in Users |-> IF E!Under(r) /\ secretReq[r].op \in E!Server THEN to(r) ELSE secretReq[r]]
    BY DEF E!Restart
  <2> HIDE DEF to
  <2>3. UNCHANGED <<store, secretMet>> /\ secretReq \in [Users -> SecretRequest]
    BY DEF E!Restart, SecretInv, SecretTypes
  <2> QED
    BY <2>1, <2>2, <2>3
<1>2. SecretTypes' /\ LookedAt' /\ UnderMeet' /\ CreatesAlone' /\ E!FailuresAreExplained'
  <2>1. SecretTypes' /\ LookedAt'
    BY <1>1 DEF SecretInv, SecretTypes, LookedAt, E!Under
  <2>2. UnderMeet'
    BY <1>1 DEF SecretInv, UnderMeet, E!Under
  <2>3. CreatesAlone' /\ E!FailuresAreExplained'
    BY <1>1 DEF SecretInv, CreatesAlone, E!FailuresAreExplained
  <2> QED
    BY <2>1, <2>2, <2>3
<1>3. E!SecretsHaveValues'
  BY <1>1 DEF SecretInv, E!SecretsHaveValues
<1> QED
  BY <1>2, <1>3 DEF SecretInv

LEMMA SecretsNext == ASSUME SecretsAssumption, SecretInv, [E!SecretNext]_secretVars PROVE SecretInv'
<1>1. ASSUME NEW r \in Users, E!BeginWrite(r) PROVE SecretInv'
  <2>1. PICK n \in Names, op \in E!Server :
          secretReq' = [secretReq EXCEPT ![r] = [E!Idle EXCEPT !.op = op, !.pc = "look", !.todo = {n}]]
    BY <1>1, Zenon DEF E!BeginWrite
  <2> DEFINE to == [E!Idle EXCEPT !.op = op, !.pc = "look", !.todo = {n}]
  <2>2. to \in SecretRequest /\ to.pc = "look" /\ to.op # "none"
    BY DEF E!Idle, E!Server, SecretRequest
  <2> HIDE DEF to
  <2> QED
    BY <1>1, <2>1, <2>2, SecretBegins DEF E!BeginWrite, to
<1>2. ASSUME NEW r \in Users, E!BeginSeed(r) PROVE SecretInv'
  <2>1. PICK op \in Seedings, given \in SUBSET Names :
          secretReq' = [secretReq EXCEPT ![r] = [E!Idle EXCEPT !.op = op, !.pc = "look", !.todo = Names, !.given = given]]
    BY <1>2, Zenon DEF E!BeginSeed, Seedings
  <2> DEFINE to == [E!Idle EXCEPT !.op = op, !.pc = "look", !.todo = Names, !.given = given]
  <2>2. to \in SecretRequest /\ to.pc = "look" /\ to.op # "none"
    BY DEF E!Idle, Seedings, SecretRequest
  <2> HIDE DEF to
  <2> QED
    BY <1>2, <2>1, <2>2, SecretBegins DEF E!BeginSeed, to
<1>3. ASSUME NEW r \in Users, E!Look(r) \/ E!CallFails(r) \/ E!Create(r) \/ E!Add(r) PROVE SecretInv'
  BY <1>3, SecretLooks, SecretCallFails, SecretCreates, SecretAdds
<1>4. CASE E!Restart
  BY <1>4, SecretRestarts
<1>5. CASE UNCHANGED secretVars
  <2>1. UNCHANGED <<store, secretReq, secretMet>>
    BY <1>5 DEF secretVars
  <2> QED
    BY <2>1 DEF SecretInv, SecretTypes, LookedAt, UnderMeet, CreatesAlone, E!FailuresAreExplained,
                E!SecretsHaveValues, E!Under
<1> QED
  BY <1>1, <1>2, <1>3, <1>4, <1>5 DEF E!SecretNext

LEMMA SecretsImply == ASSUME SecretInv PROVE E!SecretsAreWritten
<1> SUFFICES ASSUME NEW n \in Names, store[n] # None, NEW k \in DOMAIN store[n]
             PROVE  store[n][k] \in Users \cup {E!Placeholder}
  BY DEF SecretInv, SecretTypes, SecretRequest, E!SecretsAreWritten, E!SecretTypeOK
<1>1. store[n] \in Seq(Users \cup {E!Placeholder})
  BY DEF SecretInv, SecretTypes, SecretVersions
<1> QED
  BY <1>1

\* A secret is without a value only halfway through a request that failed or after
\* a seeding told to leave gaps, and a request fails only for a call that failed or
\* another request that it met (SecretManagerService.write, seed_all).
THEOREM SecretsAreAlwaysWritten == Spec => []SecretsAreWritten
<1>1. Init => SecretInv
  BY SecretsAssumption, SecretsInit DEF Init
<1>2. [Next]_allVars => [E!SecretNext]_secretVars
  BY DEF Next, allVars, shelfVars, secretVars
<1>3. SecretInv /\ [Next]_allVars => SecretInv'
  BY <1>2, SecretsAssumption, SecretsNext
<1>4. SecretInv => SecretsAreWritten
  BY SecretsImply DEF SecretsAreWritten
<1> QED
  BY <1>1, <1>3, <1>4, PTL DEF Spec, allVars

-----------------------------------------------------------------------------
(* The shared context.                                                     *)

EntryState ==
  [pc : {"idle", "upload", "create", "over"}, kind : {"inline", "blob"}, doc : S!Doc,
   had : BOOLEAN, age : 0 .. MaxAge]

DeletionState == [pc : {"idle", "blob", "doc", "over"}, of : SUBSET Entries, doc : S!Doc]

ContextTypes ==
  /\ entry \in [Entries -> EntryState]
  /\ blobs \in [Entries -> S!Gone .. MaxAge]
  /\ bucket \in [exists : BOOLEAN, rule : BOOLEAN, ready : BOOLEAN, patched : BOOLEAN]
  /\ deletion \in [Deletions -> DeletionState]

\* The progress of a writing, and the blob that it has by then.
WritesGoOn ==
  \A e \in Entries :
    /\ entry[e].kind = "inline" \/ entry[e].pc \in {"idle", "upload"} => blobs[e] = S!Gone
    /\ entry[e].kind = "blob" /\ entry[e].pc = "create" => blobs[e] = 0
    /\ entry[e].pc # "over" => entry[e].doc = "none" /\ ~entry[e].had /\ entry[e].age = 0
    /\ entry[e].pc = "upload" => entry[e].kind = "blob"
    /\ entry[e].doc # "none" => entry[e].had /\ entry[e].doc = entry[e].kind

\* A blob is as old as its entry.
AgesAgree ==
  \A e \in Entries :
    entry[e].had /\ entry[e].kind = "blob" /\ blobs[e] # S!Gone => blobs[e] = entry[e].age

\* Deletions are of entries that have been written, blob first.
DeletionsGoOn ==
  \A c \in Deletions, e \in Entries : e \in deletion[c].of =>
    /\ entry[e].had /\ deletion[c].of = {e}
    /\ deletion[c].pc = "doc" => blobs[e] = S!Gone \/ e \in faults

BucketHasRule == (bucket.ready => bucket.exists) /\ (bucket.exists /\ bucket.patched => bucket.rule)

ContextInv ==
  /\ ContextTypes /\ WritesGoOn /\ AgesAgree /\ DeletionsGoOn /\ BucketHasRule
  /\ S!EntriesHaveBlobs /\ S!BlobsHaveEntries

LEMMA ContextStarts == ASSUME ContextAssumption, S!ContextInit PROVE ContextInv
<1> DEFINE new == [pc |-> "idle", kind |-> "inline", doc |-> "none", had |-> FALSE, age |-> 0]
<1>1. new \in EntryState /\ S!NoDeletion \in DeletionState /\ S!NoDeletion.of = {} /\ S!Gone \in S!Gone .. MaxAge
  BY DEF ContextAssumption, EntryState, DeletionState, S!NoDeletion, S!Doc, S!Gone
<1>2. ContextTypes
  BY <1>1 DEF S!ContextInit, ContextTypes
<1>3. WritesGoOn /\ AgesAgree /\ BucketHasRule
  BY DEF S!ContextInit, WritesGoOn, AgesAgree, BucketHasRule
<1>4. DeletionsGoOn
  BY <1>1 DEF S!ContextInit, DeletionsGoOn
<1>5. S!EntriesHaveBlobs /\ S!BlobsHaveEntries
  BY DEF S!ContextInit, S!EntriesHaveBlobs, S!BlobsHaveEntries
<1> QED
  BY <1>2, <1>3, <1>4, <1>5 DEF ContextInv

\* The step of the one that writes x: its entry becomes to, its blob b.
WritingStep(x, to, b) ==
  /\ entry' = [entry EXCEPT ![x] = to] /\ blobs' = [blobs EXCEPT ![x] = b]
  /\ to \in EntryState /\ b \in S!Gone .. MaxAge
  /\ ~entry[x].had /\ to.age = 0
  /\ to.kind = "inline" \/ to.pc = "upload" => b = S!Gone
  /\ to.kind = "blob" /\ (to.pc = "create" \/ to.doc = "blob") => b = 0
  /\ to.pc # "idle" /\ (to.pc = "upload" => to.kind = "blob")
  /\ \/ to.pc = "over" /\ to.had /\ to.doc = to.kind
     \/ ~to.had /\ to.doc = "none" /\ (to.pc = "over" => x \in faults')
  /\ faults \subseteq faults' /\ faults' \subseteq faults \cup {x}
  /\ UNCHANGED <<bucket, deletion>>

LEMMA WritingKeeps ==
  ASSUME ContextAssumption, ContextInv, NEW x \in Entries, NEW to, NEW b, WritingStep(x, to, b)
  PROVE  ContextInv'
<1>1. ContextTypes /\ 0 # S!Gone
  BY DEF ContextInv, S!Gone
<1>2. \A e \in Entries : /\ entry'[e] = IF e = x THEN to ELSE entry[e]
                         /\ blobs'[e] = IF e = x THEN b ELSE blobs[e]
  BY <1>1 DEF ContextTypes, WritingStep
<1>3. ContextTypes'
  BY <1>1 DEF ContextTypes, WritingStep
<1>4. to \in EntryState /\ to.pc \in {"upload", "create", "over"} /\ to.kind \in {"inline", "blob"}
      /\ to.doc \in S!Doc /\ to.had \in BOOLEAN
  BY DEF WritingStep, EntryState
<1>5. WritesGoOn'
  BY <1>2, <1>4 DEF ContextInv, WritesGoOn, WritingStep, S!Doc
<1>6. AgesAgree'
  BY <1>1, <1>2, <1>4 DEF ContextInv, AgesAgree, WritingStep
<1>7. DeletionsGoOn'
  BY <1>2 DEF ContextInv, DeletionsGoOn, WritingStep
<1>8. BucketHasRule'
  BY DEF ContextInv, BucketHasRule, WritingStep
<1>9. \A e \in Entries : S!Deleting(e)' = S!Deleting(e)
  BY DEF S!Deleting, WritingStep
<1>10. S!EntriesHaveBlobs'
  BY <1>1, <1>2, <1>4, <1>9 DEF ContextInv, S!EntriesHaveBlobs, WritingStep
<1>11. S!BlobsHaveEntries'
  BY <1>2, <1>4 DEF ContextInv, S!BlobsHaveEntries, WritingStep
<1> QED
  BY <1>3, <1>5, <1>6, <1>7, <1>8, <1>10, <1>11 DEF ContextInv

LEMMA WriteSteps ==
  ASSUME ContextAssumption, ContextInv, NEW x \in Entries,
         S!BeginWrite(x) \/ S!Upload(x) \/ S!Create(x) \/ S!WriteFails(x)
  PROVE  ContextInv'
<1>1. /\ entry \in [Entries -> EntryState] /\ entry[x] \in EntryState /\ blobs \in [Entries -> S!Gone .. MaxAge]
      /\ S!Gone \in S!Gone .. MaxAge /\ 0 \in S!Gone .. MaxAge /\ 0 # S!Gone
  BY DEF ContextInv, ContextTypes, ContextAssumption, S!Gone
<1>2. blobs = [blobs EXCEPT ![x] = blobs[x]]
  BY <1>1
<1>3. /\ entry[x].kind = "inline" \/ entry[x].pc \in {"idle", "upload"} => blobs[x] = S!Gone
      /\ entry[x].kind = "blob" /\ entry[x].pc = "create" => blobs[x] = 0
      /\ entry[x].pc # "over" => entry[x].doc = "none" /\ ~entry[x].had /\ entry[x].age = 0
      /\ entry[x].pc = "upload" => entry[x].kind = "blob"
  BY DEF ContextInv, WritesGoOn
<1>4. CASE S!BeginWrite(x)
  <2>1. PICK kind \in {"inline", "blob"} :
          entry' = [entry EXCEPT ![x] = [pc |-> IF kind = "blob" THEN "upload" ELSE "create",
                                         kind |-> kind, doc |-> "none", had |-> FALSE, age |-> 0]]
    BY <1>4 DEF S!BeginWrite
  <2> DEFINE to == [pc |-> IF kind = "blob" THEN "upload" ELSE "create",
                    kind |-> kind, doc |-> "none", had |-> FALSE, age |-> 0]
  <2>2. to \in EntryState
    BY DEF EntryState, S!Doc, ContextAssumption
  <2>3. WritingStep(x, to, blobs[x])
    BY <1>1, <1>2, <1>3, <1>4, <2>1, <2>2 DEF WritingStep, S!BeginWrite
  <2> QED
    BY <2>3, WritingKeeps
<1>5. CASE S!Upload(x)
  <2> DEFINE to == [entry[x] EXCEPT !.pc = "create"]
  <2>1. /\ to \in EntryState /\ to.pc = "create" /\ to.kind = entry[x].kind /\ to.doc = entry[x].doc
        /\ to.had = entry[x].had /\ to.age = entry[x].age
    BY <1>1 DEF EntryState
  <2>2. entry' = [entry EXCEPT ![x] = to] /\ blobs' = [blobs EXCEPT ![x] = 0]
    BY <1>1, <1>5 DEF S!Upload
  <2> HIDE DEF to
  <2>3. WritingStep(x, to, 0)
    BY <1>1, <1>3, <1>5, <2>1, <2>2 DEF WritingStep, S!Upload
  <2> QED
    BY <2>3, WritingKeeps
<1>6. CASE S!Create(x)
  <2> DEFINE to == [entry[x] EXCEPT !.pc = "over", !.doc = entry[x].kind, !.had = TRUE]
  <2>1. /\ to \in EntryState /\ to.pc = "over" /\ to.kind = entry[x].kind /\ to.doc = entry[x].kind
        /\ to.had /\ to.age = entry[x].age
    BY <1>1 DEF EntryState, S!Doc
  <2>2. entry' = [entry EXCEPT ![x] = to]
    BY <1>1, <1>6 DEF S!Create
  <2> HIDE DEF to
  <2>3. WritingStep(x, to, blobs[x])
    BY <1>1, <1>2, <1>3, <1>6, <2>1, <2>2 DEF WritingStep, S!Create
  <2> QED
    BY <2>3, WritingKeeps
<1>7. CASE S!WriteFails(x)
  <2> DEFINE to == [entry[x] EXCEPT !.pc = "over"]
  <2>1. /\ to \in EntryState /\ to.pc = "over" /\ to.kind = entry[x].kind /\ to.doc = entry[x].doc
        /\ to.had = entry[x].had /\ to.age = entry[x].age
    BY <1>1 DEF EntryState
  <2>2. entry' = [entry EXCEPT ![x] = to]
    BY <1>1, <1>7 DEF S!WriteFails
  <2> HIDE DEF to
  <2>3. WritingStep(x, to, blobs[x])
    BY <1>1, <1>2, <1>3, <1>7, <2>1, <2>2 DEF WritingStep, S!WriteFails, S!Fault
  <2> QED
    BY <2>3, WritingKeeps
<1> QED
  BY <1>4, <1>5, <1>6, <1>7

LEMMA RestartKeeps == ASSUME ContextInv, S!Restart PROVE ContextInv'
<1> DEFINE cut(e) == entry[e].pc \in {"upload", "create"}
           stopped(c) == deletion[c].pc \in {"blob", "doc"}
<1>1. /\ ContextTypes /\ WritesGoOn /\ DeletionsGoOn /\ faults \subseteq faults'
      /\ \A e \in Entries : entry[e] \in EntryState
      /\ \A c \in Deletions : deletion[c] \in DeletionState
  BY DEF ContextInv, ContextTypes, S!Restart
<1>2. \A e \in Entries : entry'[e] = IF cut(e) THEN [entry[e] EXCEPT !.pc = "over"] ELSE entry[e]
  BY DEF S!Restart
<1>3. \A e \in Entries :
        /\ entry'[e] \in EntryState
        /\ entry'[e].pc = IF cut(e) THEN "over" ELSE entry[e].pc
        /\ entry'[e].kind = entry[e].kind /\ entry'[e].doc = entry[e].doc
        /\ entry'[e].had = entry[e].had /\ entry'[e].age = entry[e].age
  <2> SUFFICES ASSUME NEW e \in Entries
               PROVE  /\ entry'[e] \in EntryState
                      /\ entry'[e].pc = IF cut(e) THEN "over" ELSE entry[e].pc
                      /\ entry'[e].kind = entry[e].kind /\ entry'[e].doc = entry[e].doc
                      /\ entry'[e].had = entry[e].had /\ entry'[e].age = entry[e].age
    OBVIOUS
  <2> QED
    BY <1>1, <1>2 DEF EntryState
<1>4. \A c \in Deletions : deletion'[c] = IF stopped(c) THEN [deletion[c] EXCEPT !.pc = "over"] ELSE deletion[c]
  BY DEF S!Restart
<1>5. \A c \in Deletions :
        deletion'[c] \in DeletionState /\ deletion'[c].of = deletion[c].of /\ deletion'[c].pc \notin {"blob", "doc"}
  <2> SUFFICES ASSUME NEW c \in Deletions
               PROVE  /\ deletion'[c] \in DeletionState /\ deletion'[c].of = deletion[c].of
                      /\ deletion'[c].pc \notin {"blob", "doc"}
    OBVIOUS
  <2> QED
    BY <1>1, <1>4 DEF DeletionState
<1>6. ContextTypes'
  <2>1. entry' \in [Entries -> EntryState]
    BY <1>3 DEF S!Restart
  <2>2. deletion' \in [Deletions -> DeletionState]
    BY <1>5 DEF S!Restart
  <2> QED
    BY <1>1, <2>1, <2>2 DEF ContextTypes, S!Restart
<1>7. \A e \in Entries : (cut(e) => e \in faults') /\ (S!Deleting(e) # {} => e \in faults')
  BY DEF S!Restart, S!Deleting
<1>8. UNCHANGED blobs
  BY DEF S!Restart
<1> HIDE DEF cut
<1>9. WritesGoOn'
  BY <1>1, <1>3, <1>8 DEF WritesGoOn, cut
<1>10. AgesAgree'
  BY <1>3, <1>8 DEF ContextInv, AgesAgree
<1>11. DeletionsGoOn'
  BY <1>1, <1>3, <1>5 DEF DeletionsGoOn
<1>12. BucketHasRule'
  BY <1>1 DEF S!Restart, ContextInv, ContextTypes, BucketHasRule
<1>13. S!EntriesHaveBlobs'
  BY <1>1, <1>3, <1>7, <1>8 DEF ContextInv, S!EntriesHaveBlobs
<1>14. S!BlobsHaveEntries'
  BY <1>1, <1>3, <1>7, <1>8 DEF ContextInv, S!BlobsHaveEntries
<1> QED
  BY <1>6, <1>9, <1>10, <1>11, <1>12, <1>13, <1>14 DEF ContextInv

\* The bucket removes a blob in its second day, when its entry has run out.
LEMMA AgeKeeps == ASSUME ContextAssumption, ContextInv, S!Age PROVE ContextInv'
<1>1. /\ ContextTypes /\ WritesGoOn /\ DeletionsGoOn /\ AgesAgree /\ MaxAge \in Nat /\ MaxAge > 1
      /\ \A e \in Entries : entry[e] \in EntryState /\ blobs[e] \in -1 .. MaxAge
  BY DEF ContextInv, ContextTypes, ContextAssumption, S!Gone
<1>2. \A e \in Entries :
        /\ entry'[e] \in EntryState
        /\ entry'[e].pc = entry[e].pc /\ entry'[e].kind = entry[e].kind
        /\ entry'[e].doc = entry[e].doc /\ entry'[e].had = entry[e].had
        /\ entry'[e].age = IF entry[e].age < MaxAge /\ entry[e].had THEN entry[e].age + 1 ELSE entry[e].age
  <2> SUFFICES ASSUME NEW e \in Entries
               PROVE  /\ entry'[e] \in EntryState
                      /\ entry'[e].pc = entry[e].pc /\ entry'[e].kind = entry[e].kind
                      /\ entry'[e].doc = entry[e].doc /\ entry'[e].had = entry[e].had
                      /\ entry'[e].age = IF entry[e].age < MaxAge /\ entry[e].had
                                         THEN entry[e].age + 1 ELSE entry[e].age
    OBVIOUS
  <2>1. entry'[e] = [entry[e] EXCEPT !.age = IF @ < MaxAge /\ entry[e].had THEN @ + 1 ELSE @]
    BY DEF S!Age
  <2> QED
    BY <1>1, <2>1 DEF EntryState
<1>3. \A e \in Entries :
        blobs'[e] = IF blobs[e] = -1 \/ (bucket.rule /\ blobs[e] >= 1) THEN -1
                    ELSE IF blobs[e] < MaxAge THEN blobs[e] + 1 ELSE blobs[e]
  BY DEF S!Age, S!Gone
<1>4. /\ UNCHANGED <<bucket, deletion, faults>>
      /\ \A e \in Entries : entry[e].pc \notin {"upload", "create"}
      /\ \A e \in Entries : entry[e].age \in 0 .. MaxAge /\ entry[e].had \in BOOLEAN
  BY <1>1 DEF S!Age, EntryState
<1>5. ContextTypes'
  <2>1. \A e \in Entries : blobs'[e] \in -1 .. MaxAge
    BY <1>1, <1>3
  <2>2. entry' = [e \in Entries |-> entry'[e]] /\ blobs' = [e \in Entries |-> blobs'[e]]
    BY DEF S!Age
  <2> QED
    BY <1>1, <1>2, <1>4, <2>1, <2>2 DEF ContextTypes, S!Gone
<1>6. WritesGoOn'
  BY <1>1, <1>2, <1>3, <1>4 DEF WritesGoOn, S!Gone
<1>7. AgesAgree'
  BY <1>1, <1>2, <1>3, <1>4 DEF AgesAgree, S!Gone
<1>8. DeletionsGoOn'
  BY <1>1, <1>2, <1>3, <1>4 DEF DeletionsGoOn, S!Gone
<1>9. BucketHasRule'
  BY <1>4 DEF ContextInv, BucketHasRule
<1>10. S!EntriesHaveBlobs'
  <2> SUFFICES ASSUME NEW e \in Entries, entry'[e].doc = "blob", S!Deleting(e)' = {}, e \notin faults', entry'[e].age <= 1
               PROVE  blobs'[e] # -1
    BY DEF S!EntriesHaveBlobs, S!Gone
  <2>1. S!Deleting(e) = {}
    BY <1>4 DEF S!Deleting
  <2>2. entry[e].doc = "blob" /\ entry[e].had /\ entry[e].kind = "blob"
    BY <1>1, <1>2 DEF WritesGoOn
  <2>3. entry[e].age = 0
    BY <1>1, <1>2, <1>4, <2>2
  <2>4. blobs[e] # -1
    BY <1>4, <2>1, <2>2, <2>3 DEF ContextInv, S!EntriesHaveBlobs, S!Gone
  <2>5. blobs[e] = 0
    BY <1>1, <2>2, <2>3, <2>4 DEF AgesAgree, S!Gone
  <2> QED
    BY <1>1, <1>3, <2>5
<1>11. S!BlobsHaveEntries'
  BY <1>1, <1>2, <1>3, <1>4 DEF ContextInv, S!BlobsHaveEntries, S!Gone
<1> QED
  BY <1>5, <1>6, <1>7, <1>8, <1>9, <1>10, <1>11 DEF ContextInv

LEMMA BucketKeeps == ASSUME ContextInv, S!EnsureBucket PROVE ContextInv'
<1> DEFINE Bucket == [exists : BOOLEAN, rule : BOOLEAN, ready : BOOLEAN, patched : BOOLEAN]
<1>1. UNCHANGED <<entry, blobs, deletion, faults>> /\ ContextTypes /\ BucketHasRule /\ bucket \in Bucket
  BY DEF S!EnsureBucket, ContextInv, ContextTypes
<1>2. bucket' \in Bucket /\ BucketHasRule'
  <2>1. CASE bucket.exists /\ bucket' = [bucket EXCEPT !.ready = TRUE]
    <3>1. /\ bucket'.exists = bucket.exists /\ bucket'.rule = bucket.rule /\ bucket'.patched = bucket.patched
          /\ bucket'.ready /\ bucket' \in Bucket
      BY <1>1, <2>1
    <3> QED
      BY <1>1, <2>1, <3>1 DEF BucketHasRule
  <2>2. CASE bucket' = [exists |-> TRUE, rule |-> TRUE, ready |-> TRUE, patched |-> TRUE]
    BY <2>2 DEF BucketHasRule
  <2>3. CASE bucket' = [bucket EXCEPT !.exists = TRUE, !.patched = FALSE]
    <3>1. /\ bucket'.exists /\ ~bucket'.patched /\ bucket' \in Bucket
      BY <1>1, <2>3
    <3> QED
      BY <3>1 DEF BucketHasRule
  <2> QED
    BY <2>1, <2>2, <2>3 DEF S!EnsureBucket
<1>3. ContextTypes'
  BY <1>1, <1>2 DEF ContextTypes
<1>4. WritesGoOn' /\ AgesAgree' /\ DeletionsGoOn'
  BY <1>1 DEF ContextInv, WritesGoOn, AgesAgree, DeletionsGoOn
<1>5. \A e \in Entries : S!Deleting(e)' = S!Deleting(e)
  BY <1>1 DEF S!Deleting
<1>6. S!EntriesHaveBlobs' /\ S!BlobsHaveEntries'
  BY <1>1, <1>5 DEF ContextInv, S!EntriesHaveBlobs, S!BlobsHaveEntries
<1> QED
  BY <1>2, <1>3, <1>4, <1>6 DEF ContextInv

LEMMA DeleteBegins ==
  ASSUME ContextInv, NEW c \in Deletions, NEW x \in Entries, S!BeginDelete(c, x) PROVE ContextInv'
<1> DEFINE to == [of |-> {x}, doc |-> entry[x].doc, pc |-> IF entry[x].doc = "blob" THEN "blob" ELSE "doc"]
<1>1. /\ deletion' = [deletion EXCEPT ![c] = to] /\ deletion[c].pc = "idle" /\ entry[x].doc # "none"
      /\ UNCHANGED <<entry, blobs, bucket, faults>>
  BY DEF S!BeginDelete
<1>2. /\ ContextTypes /\ WritesGoOn /\ entry[x] \in EntryState
  BY DEF ContextInv, ContextTypes
<1>3. to \in DeletionState /\ to.of = {x} /\ (to.pc = "doc" => entry[x].doc # "blob")
  BY <1>2 DEF DeletionState, EntryState
<1> HIDE DEF to
<1>4. \A d \in Deletions : deletion'[d] = IF d = c THEN to ELSE deletion[d]
  BY <1>1, <1>2 DEF ContextTypes
<1>5. ContextTypes'
  BY <1>1, <1>2, <1>3 DEF ContextTypes
<1>6. WritesGoOn' /\ AgesAgree' /\ BucketHasRule'
  BY <1>1 DEF ContextInv, WritesGoOn, AgesAgree, BucketHasRule
<1>7. entry[x].had /\ (to.pc = "doc" => blobs[x] = S!Gone)
  BY <1>1, <1>2, <1>3 DEF WritesGoOn, EntryState
<1>8. DeletionsGoOn'
  BY <1>1, <1>3, <1>4, <1>7 DEF ContextInv, DeletionsGoOn
<1>9. \A e \in Entries : S!Deleting(e) \subseteq S!Deleting(e)'
  BY <1>1, <1>4 DEF S!Deleting
<1>10. S!EntriesHaveBlobs' /\ S!BlobsHaveEntries'
  BY <1>1, <1>9 DEF ContextInv, S!EntriesHaveBlobs, S!BlobsHaveEntries
<1> QED
  BY <1>5, <1>6, <1>8, <1>10 DEF ContextInv

LEMMA BlobDeleted ==
  ASSUME ContextAssumption, ContextInv, NEW c \in Deletions, S!DeleteBlob(c) PROVE ContextInv'
<1>1. PICK x \in deletion[c].of : \/ blobs' = [blobs EXCEPT ![x] = S!Gone] /\ UNCHANGED faults
                                  \/ UNCHANGED blobs /\ faults' = faults \cup {x}
  BY Zenon DEF S!DeleteBlob, S!Fault
<1>2. /\ deletion' = [deletion EXCEPT ![c].pc = "doc"] /\ deletion[c].pc = "blob"
      /\ UNCHANGED <<entry, bucket>> /\ ContextTypes /\ WritesGoOn /\ DeletionsGoOn /\ AgesAgree
  BY DEF S!DeleteBlob, ContextInv
<1>3. deletion[c] \in DeletionState /\ x \in Entries /\ entry[x] \in EntryState
  BY <1>2 DEF ContextTypes, DeletionState
<1>4. entry[x].had /\ deletion[c].of = {x} /\ entry[x].pc = "over"
  BY <1>2, <1>3 DEF DeletionsGoOn, WritesGoOn
<1>5. \A d \in Deletions : /\ deletion'[d].of = deletion[d].of
                           /\ deletion'[d].pc = IF d = c THEN "doc" ELSE deletion[d].pc
  BY <1>2, <1>3 DEF ContextTypes, DeletionState
<1>6. /\ faults \subseteq faults' /\ (blobs'[x] = S!Gone \/ x \in faults')
      /\ \A e \in Entries : blobs'[e] = blobs[e] \/ (e = x /\ blobs'[e] = S!Gone)
  BY <1>1, <1>2, <1>3 DEF ContextTypes
<1>7. ContextTypes'
  <2>1. deletion' \in [Deletions -> DeletionState]
    <3>1. [deletion[c] EXCEPT !.pc = "doc"] \in DeletionState
      BY <1>3 DEF DeletionState
    <3> QED
      BY <1>2, <3>1 DEF ContextTypes
  <2>2. blobs' \in [Entries -> S!Gone .. MaxAge]
    <3>1. S!Gone \in S!Gone .. MaxAge
      BY DEF ContextAssumption, S!Gone
    <3> QED
      BY <1>1, <1>2, <3>1 DEF ContextTypes
  <2> QED
    BY <1>2, <2>1, <2>2 DEF ContextTypes
<1>8. WritesGoOn' /\ AgesAgree' /\ BucketHasRule'
  BY <1>2, <1>4, <1>6 DEF ContextInv, WritesGoOn, AgesAgree, BucketHasRule
<1>9. DeletionsGoOn'
  BY <1>2, <1>3, <1>4, <1>5, <1>6 DEF DeletionsGoOn
<1>10. \A e \in Entries : S!Deleting(e)' = S!Deleting(e)
  BY <1>2, <1>5 DEF S!Deleting
<1>11. S!EntriesHaveBlobs'
  <2>1. c \in S!Deleting(x)
    BY <1>2, <1>4 DEF S!Deleting
  <2> QED
    BY <1>2, <1>6, <1>10, <2>1 DEF ContextInv, S!EntriesHaveBlobs
<1>12. S!BlobsHaveEntries'
  BY <1>2, <1>6 DEF ContextInv, S!BlobsHaveEntries
<1> QED
  BY <1>7, <1>8, <1>9, <1>11, <1>12 DEF ContextInv

LEMMA DocDeleted ==
  ASSUME ContextInv, NEW c \in Deletions, S!DeleteDoc(c) PROVE ContextInv'
<1>1. /\ deletion' = [deletion EXCEPT ![c].pc = "over"] /\ deletion[c].pc = "doc"
      /\ UNCHANGED <<blobs, bucket>> /\ ContextTypes /\ WritesGoOn /\ DeletionsGoOn
      /\ faults \subseteq faults'
  BY DEF S!DeleteDoc, ContextInv
<1>2. deletion[c] \in DeletionState /\ \A e \in Entries : entry[e] \in EntryState
  BY <1>1 DEF ContextTypes
<1>3. \A e \in Entries :
        /\ entry'[e] \in EntryState
        /\ entry'[e].pc = entry[e].pc /\ entry'[e].kind = entry[e].kind
        /\ entry'[e].had = entry[e].had /\ entry'[e].age = entry[e].age
        /\ entry'[e].doc = entry[e].doc \/ (entry'[e].doc = "none" /\ e \in deletion[c].of)
        /\ e \in deletion[c].of => entry'[e].doc = "none" \/ e \in faults'
  <2>1. CASE UNCHANGED entry /\ faults' = faults \cup deletion[c].of
    BY <1>2, <2>1
  <2>2. CASE entry' = [e \in Entries |-> IF e \in deletion[c].of THEN [entry[e] EXCEPT !.doc = "none"] ELSE entry[e]]
    <3> SUFFICES ASSUME NEW e \in Entries
                 PROVE  /\ entry'[e] \in EntryState
                        /\ entry'[e].pc = entry[e].pc /\ entry'[e].kind = entry[e].kind
                        /\ entry'[e].had = entry[e].had /\ entry'[e].age = entry[e].age
                        /\ entry'[e].doc = entry[e].doc \/ (entry'[e].doc = "none" /\ e \in deletion[c].of)
                        /\ e \in deletion[c].of => entry'[e].doc = "none"
      BY Zenon
    <3>1. entry'[e] = IF e \in deletion[c].of THEN [entry[e] EXCEPT !.doc = "none"] ELSE entry[e]
      BY <2>2
    <3> QED
      BY <1>2, <3>1 DEF EntryState, S!Doc
  <2> QED
    BY <2>1, <2>2 DEF S!DeleteDoc
<1>4. \A d \in Deletions : /\ deletion'[d].of = deletion[d].of
                           /\ deletion'[d].pc = IF d = c THEN "over" ELSE deletion[d].pc
  BY <1>1, <1>2 DEF ContextTypes, DeletionState
<1>5. ContextTypes'
  <2>1. entry' \in [Entries -> EntryState]
    <3>1. entry' = [e \in Entries |-> entry'[e]]
      BY <1>1 DEF S!DeleteDoc, ContextTypes
    <3> QED
      BY <1>3, <3>1
  <2>2. [deletion[c] EXCEPT !.pc = "over"] \in DeletionState
    BY <1>2 DEF DeletionState
  <2> QED
    BY <1>1, <2>1, <2>2 DEF ContextTypes
<1>6. WritesGoOn'
  BY <1>1, <1>3 DEF WritesGoOn
<1>7. AgesAgree' /\ BucketHasRule'
  BY <1>1, <1>3 DEF ContextInv, AgesAgree, BucketHasRule
<1>8. DeletionsGoOn'
  BY <1>1, <1>3, <1>4 DEF DeletionsGoOn
<1>9. \A e \in Entries : e \in deletion[c].of \/ S!Deleting(e)' = S!Deleting(e)
  BY <1>4 DEF S!Deleting
<1>10. S!EntriesHaveBlobs'
  BY <1>1, <1>3, <1>9 DEF ContextInv, S!EntriesHaveBlobs
<1>11. S!BlobsHaveEntries'
  BY <1>1, <1>3 DEF ContextInv, S!BlobsHaveEntries, DeletionsGoOn
<1> QED
  BY <1>5, <1>6, <1>7, <1>8, <1>10, <1>11 DEF ContextInv

LEMMA ContextNexts ==
  ASSUME ContextAssumption, ContextInv, [S!ContextNext]_contextVars PROVE ContextInv'
<1>1. ASSUME NEW e \in Entries, S!BeginWrite(e) \/ S!Upload(e) \/ S!Create(e) \/ S!WriteFails(e) PROVE ContextInv'
  BY <1>1, WriteSteps
<1>2. ASSUME NEW c \in Deletions, S!DeleteBlob(c) \/ S!DeleteDoc(c) PROVE ContextInv'
  BY <1>2, BlobDeleted, DocDeleted
<1>3. ASSUME NEW c \in Deletions, NEW e \in Entries, S!BeginDelete(c, e) PROVE ContextInv'
  BY <1>3, DeleteBegins
<1>4. CASE S!EnsureBucket \/ S!Restart \/ S!Age
  BY <1>4, BucketKeeps, RestartKeeps, AgeKeeps
<1>5. CASE UNCHANGED contextVars
  <2>1. UNCHANGED <<entry, blobs, bucket, deletion, faults>>
    BY <1>5 DEF contextVars
  <2>2. S!EntriesHaveBlobs' /\ S!BlobsHaveEntries'
    BY <2>1 DEF ContextInv, S!EntriesHaveBlobs, S!BlobsHaveEntries, S!Deleting
  <2> QED
    BY <2>1, <2>2 DEF ContextInv, ContextTypes, WritesGoOn, AgesAgree, DeletionsGoOn, BucketHasRule
<1> QED
  BY <1>1, <1>2, <1>3, <1>4, <1>5 DEF S!ContextNext

LEMMA ContextImplies == ASSUME ContextInv PROVE S!ContextIsWhole
<1>1. \A e \in Entries : entry[e] \in EntryState
  BY DEF ContextInv, ContextTypes
<1>2. S!ContextTypeOK
  BY <1>1 DEF ContextInv, ContextTypes, WritesGoOn, BucketHasRule, S!ContextTypeOK, EntryState
<1>3. S!UsedBucketsExpire
  BY DEF ContextInv, BucketHasRule, S!UsedBucketsExpire
<1> QED
  BY <1>2, <1>3 DEF ContextInv, S!ContextIsWhole

\* An entry that has not run out has the blob it names and a blob has its entry,
\* through restarts, the days that pass and the bucket's own rule, but for those
\* that a call left halfway (SharedContextService, BlobStore).
THEOREM ContextStaysWhole == Spec => []ContextIsWhole
<1>1. Init => ContextInv
  BY ContextAssumption, ContextStarts DEF Init
<1>2. [Next]_allVars => [S!ContextNext]_contextVars
  BY DEF Next, allVars, shelfVars, contextVars
<1>3. ContextInv /\ [Next]_allVars => ContextInv'
  BY <1>2, ContextAssumption, ContextNexts
<1>4. ContextInv => ContextIsWhole
  BY ContextImplies DEF ContextIsWhole
<1> QED
  BY <1>1, <1>3, <1>4, PTL DEF Spec, allVars

-----------------------------------------------------------------------------
(* Copilot tokens.                                                         *)

TokenTypes ==
  /\ clock \in Nat /\ version \in Seq(Nat)
  /\ cached \in [of : Nat, since : Nat] \cup {None}
  /\ served \in [of : Nat, at : Nat] \cup {None}
  /\ caller \in [Requests -> [pc : {"idle", "wait", "read", "exchange", "over"}, of : Nat, since : Nat]]
  /\ holder \in Requests \cup {None}
  /\ \A c \in Requests : caller[c].pc \in {"read", "exchange"} <=> holder = c

\* The k-th version of the secret was the latest one until t.
LatestUntil(k, t) == k \in 1 .. Len(version) /\ (k < Len(version) => t <= version[k + 1])

\* What was exchanged is the latest version, or was at most a Timeout before.
ExchangedLatest ==
  /\ \A c \in Requests : caller[c].pc = "exchange" => LatestUntil(caller[c].of, caller[c].since)
  /\ \A c \in Requests : holder = c => caller[c].since <= clock /\ clock <= caller[c].since + Timeout
  /\ cached # None => cached.since <= clock /\ LatestUntil(cached.of, cached.since - Timeout)

ServedInTime ==
  served # None =>
    /\ served.at <= clock
    /\ LatestUntil(served.of, served.at) \/ LatestUntil(served.of, served.at + 1 - (Life - Margin) - Timeout)

TokenIsOld == cached = None \/ cached.since + Life - clock <= Margin

\* Whoever holds the lock has found no good token, and nobody else gets one.
HolderNeedsToken == holder # None => TokenIsOld

TokenInv == TokenTypes /\ ExchangedLatest /\ ServedInTime /\ HolderNeedsToken

LEMMA TokensStart == ASSUME TokenAssumption, P!TokenInit PROVE TokenInv
<1> DEFINE new == [pc |-> "idle", of |-> 0, since |-> 0]
<1>1. \A c \in Requests : caller[c] = new
  BY DEF P!TokenInit
<1>2. TokenTypes
  BY <1>1 DEF P!TokenInit, TokenTypes, TokenAssumption
<1> QED
  BY <1>1, <1>2 DEF P!TokenInit, TokenInv, ExchangedLatest, ServedInTime, HolderNeedsToken, TokenAssumption

LEMMA ValidToken ==
  ASSUME TokenAssumption, TokenInv
  PROVE  /\ (P!Valid = None) <=> TokenIsOld
         /\ P!Valid # None => P!Valid = cached /\ cached.since + Life - clock > Margin /\ holder = None
<1>1. CASE TokenIsOld
  BY <1>1 DEF P!Valid, TokenIsOld
<1>2. CASE ~TokenIsOld
  <2>1. P!Valid = cached /\ cached # None
    BY <1>2 DEF P!Valid, TokenIsOld
  <2>2. cached.since \in Nat /\ clock \in Nat /\ Life \in Nat /\ Margin \in Nat
    BY <2>1 DEF TokenInv, TokenTypes, TokenAssumption
  <2> QED
    BY <1>2, <2>1, <2>2 DEF TokenIsOld, TokenInv, HolderNeedsToken
<1> QED
  BY <1>1, <1>2

LEMMA LatestEarlier ==
  ASSUME TokenInv, NEW k, NEW t \in Int, NEW s \in Int, s <= t, LatestUntil(k, t) PROVE LatestUntil(k, s)
<1>1. version \in Seq(Nat) /\ k \in 1 .. Len(version)
  BY DEF TokenInv, TokenTypes, LatestUntil
<1>2. k < Len(version) => version[k + 1] \in Nat
  BY <1>1
<1> QED
  BY <1>2 DEF LatestUntil

\* The latest version stays the latest until now, when another one is added.
LEMMA VersionAdded ==
  ASSUME TokenInv, version' = Append(version, clock), NEW k, NEW t \in Int, LatestUntil(k, t), t <= clock
  PROVE  k \in 1 .. Len(version') /\ (k < Len(version') => t <= version'[k + 1])
<1>1. version \in Seq(Nat) /\ clock \in Nat
  BY DEF TokenInv, TokenTypes
<1>2. Len(version') = Len(version) + 1 /\ version'[Len(version) + 1] = clock
      /\ \A i \in 1 .. Len(version) : version'[i] = version[i]
  BY <1>1
<1> QED
  BY <1>1, <1>2 DEF LatestUntil

LEMMA TokenCalls ==
  ASSUME TokenAssumption, TokenInv, NEW c \in Requests, P!Call(c) \/ P!Lock(c) PROVE TokenInv'
<1>1. /\ UNCHANGED <<version, clock>> /\ TokenTypes /\ caller[c].pc \in {"idle", "wait"} /\ holder # c
      /\ caller[c] \in [pc : {"idle", "wait", "read", "exchange", "over"}, of : Nat, since : Nat]
  BY DEF P!Call, P!Lock, P!ServeCached, TokenInv, TokenTypes
<1>2. CASE P!ServeCached(c) /\ P!Valid # None /\ UNCHANGED holder
  <2>1. /\ UNCHANGED <<version, clock, cached>> /\ holder = None /\ holder' = None
        /\ served' = [of |-> cached.of, at |-> clock]
        /\ cached # None /\ cached.since + Life - clock > Margin
    BY <1>1, <1>2, ValidToken DEF P!ServeCached, TokenIsOld
  <2>2. caller' = [caller EXCEPT ![c].pc = "over"]
    BY <1>2 DEF P!ServeCached
  <2>3. /\ \A d \in Requests : d # c => caller'[d] = caller[d]
        /\ caller'[c].pc = "over" /\ TokenTypes'
    BY <1>1, <2>1, <2>2 DEF TokenTypes, TokenAssumption
  <2>4. ExchangedLatest'
    BY <1>1, <2>1, <2>3 DEF TokenInv, ExchangedLatest, LatestUntil, TokenAssumption
  <2>5. ServedInTime'
    <3>1. cached.since - Timeout >= clock + 1 - (Life - Margin) - Timeout
      BY <1>1, <2>1 DEF TokenTypes, TokenAssumption
    <3>2. /\ served'.of = cached.of /\ served'.at = clock /\ clock \in Nat /\ cached.since \in Nat
          /\ version \in Seq(Nat) /\ LatestUntil(cached.of, cached.since - Timeout)
      BY <1>1, <2>1 DEF TokenTypes, TokenInv, ExchangedLatest
    <3>3. LatestUntil(cached.of, clock + 1 - (Life - Margin) - Timeout)
      <4>1. cached.since - Timeout \in Int /\ clock + 1 - (Life - Margin) - Timeout \in Int
        BY <3>2 DEF TokenAssumption
      <4> QED
        BY <3>1, <3>2, <4>1, LatestEarlier
    <3> QED
      BY <1>1, <3>2, <3>3 DEF ServedInTime, LatestUntil
  <2> QED
    BY <2>1, <2>3, <2>4, <2>5 DEF TokenInv, HolderNeedsToken
<1>3. CASE P!Call(c) /\ P!Valid = None
  <2>1. UNCHANGED <<version, holder, clock, cached, served>> /\ caller' = [caller EXCEPT ![c].pc = "wait"]
    BY <1>3 DEF P!Call
  <2>2. /\ \A d \in Requests : d # c => caller'[d] = caller[d]
        /\ caller'[c].pc = "wait" /\ TokenTypes'
    BY <1>1, <2>1 DEF TokenTypes
  <2> QED
    BY <1>1, <2>1, <2>2 DEF TokenInv, ExchangedLatest, LatestUntil, ServedInTime, HolderNeedsToken, TokenIsOld
<1>4. CASE P!Lock(c) /\ P!Valid = None
  <2>1. /\ UNCHANGED <<version, clock, cached, served>> /\ holder' = c /\ holder = None
        /\ caller' = [caller EXCEPT ![c].pc = "read", ![c].since = clock] /\ TokenIsOld
    BY <1>4, ValidToken DEF P!Lock
  <2>2. /\ \A d \in Requests : d # c => caller'[d] = caller[d]
        /\ caller'[c].pc = "read" /\ caller'[c].since = clock /\ TokenTypes'
    BY <1>1, <2>1 DEF TokenTypes, TokenAssumption
  <2>3. ExchangedLatest'
    BY <1>1, <2>1, <2>2 DEF TokenInv, TokenTypes, ExchangedLatest, LatestUntil, TokenAssumption
  <2> QED
    BY <1>1, <2>1, <2>2, <2>3 DEF TokenInv, LatestUntil, ServedInTime, HolderNeedsToken, TokenIsOld
<1> QED
  BY <1>2, <1>3, <1>4 DEF P!Call, P!Lock

LEMMA TokenHolds ==
  ASSUME TokenAssumption, TokenInv, NEW c \in Requests, P!GetNothing(c) \/ P!ReadSecret(c) \/ P!Exchange(c)
  PROVE  TokenInv'
<1>1. /\ UNCHANGED <<version, clock>> /\ TokenTypes /\ holder = c /\ c # None
      /\ caller[c] \in [pc : {"idle", "wait", "read", "exchange", "over"}, of : Nat, since : Nat]
      /\ \A d \in Requests : d # c => caller[d].pc \notin {"read", "exchange"}
  BY DEF P!GetNothing, P!ReadSecret, P!Exchange, TokenInv, TokenTypes, TokenAssumption
<1>2. /\ version \in Seq(Nat) /\ Len(version) \in Nat /\ clock \in Nat
      /\ caller[c].since <= clock /\ clock <= caller[c].since + Timeout /\ TokenIsOld
  BY <1>1 DEF TokenInv, TokenTypes, ExchangedLatest, HolderNeedsToken
<1>3. CASE P!GetNothing(c)
  <2>1. UNCHANGED <<cached, served>> /\ holder' = None /\ caller' = [caller EXCEPT ![c].pc = "over"]
    BY <1>3 DEF P!GetNothing
  <2>2. /\ \A d \in Requests : d # c => caller'[d] = caller[d]
        /\ caller'[c].pc = "over" /\ TokenTypes'
    BY <1>1, <2>1 DEF TokenTypes, TokenAssumption
  <2> QED
    BY <1>1, <2>1, <2>2 DEF TokenInv, ExchangedLatest, LatestUntil, ServedInTime, HolderNeedsToken, TokenIsOld,
                            TokenAssumption
<1>4. CASE P!ReadSecret(c)
  <2>1. /\ UNCHANGED <<cached, served, holder>> /\ version # <<>> /\ caller[c].pc = "read"
        /\ caller' = [caller EXCEPT ![c].pc = "exchange", ![c].of = Len(version)]
    BY <1>4 DEF P!ReadSecret
  <2>2. /\ \A d \in Requests : d # c => caller'[d] = caller[d]
        /\ caller'[c].pc = "exchange" /\ caller'[c].of = Len(version) /\ caller'[c].since = caller[c].since
        /\ TokenTypes'
    BY <1>1, <1>2, <2>1 DEF TokenTypes
  <2>3. Len(version) \in 1 .. Len(version)
    BY <1>2, <2>1
  <2>4. \A k, t : LatestUntil(k, t)' <=> LatestUntil(k, t)
    BY <1>1 DEF LatestUntil
  <2>5. LatestUntil(Len(version), caller[c].since)
    BY <1>2, <2>3 DEF LatestUntil
  <2>6. \A d \in Requests : caller'[d].pc = "exchange" => d = c
    BY <1>1, <2>2
  <2>7. \A d \in Requests : caller'[d].pc = "exchange" => LatestUntil(caller'[d].of, caller'[d].since)
    BY <2>2, <2>5, <2>6
  <2>8. \A d \in Requests : holder = d => caller'[d].since <= clock /\ clock <= caller'[d].since + Timeout
    BY <1>1, <1>2, <2>2
  <2>9. ExchangedLatest'
    BY <1>1, <2>1, <2>4, <2>7, <2>8 DEF TokenInv, ExchangedLatest
  <2> QED
    BY <1>1, <2>1, <2>2, <2>9 DEF TokenInv, LatestUntil, ServedInTime, HolderNeedsToken, TokenIsOld
<1>5. CASE P!Exchange(c)
  <2>1. /\ caller[c].pc = "exchange" /\ cached' = [of |-> caller[c].of, since |-> clock]
        /\ served' = [of |-> caller[c].of, at |-> clock] /\ holder' = None
        /\ caller' = [caller EXCEPT ![c].pc = "over"]
    BY <1>5 DEF P!Exchange
  <2>2. /\ \A d \in Requests : d # c => caller'[d] = caller[d]
        /\ caller'[c].pc = "over" /\ TokenTypes'
    BY <1>1, <1>2, <2>1 DEF TokenTypes, TokenAssumption
  <2>3. LatestUntil(caller[c].of, caller[c].since)
    BY <2>1 DEF TokenInv, ExchangedLatest
  <2>4. LatestUntil(caller[c].of, clock - Timeout) /\ LatestUntil(caller[c].of, clock + 1 - (Life - Margin) - Timeout)
    <3>1. /\ caller[c].since \in Int /\ clock - Timeout \in Int /\ clock + 1 - (Life - Margin) - Timeout \in Int
          /\ clock - Timeout <= caller[c].since /\ clock + 1 - (Life - Margin) - Timeout <= caller[c].since
      BY <1>1, <1>2 DEF TokenAssumption
    <3> QED
      BY <2>3, <3>1, LatestEarlier
  <2>5. ExchangedLatest'
    BY <1>1, <1>2, <2>1, <2>2, <2>4 DEF TokenInv, ExchangedLatest, LatestUntil, TokenAssumption
  <2>6. ServedInTime'
    BY <1>1, <1>2, <2>1, <2>4 DEF ServedInTime, LatestUntil
  <2> QED
    BY <2>1, <2>2, <2>5, <2>6 DEF TokenInv, HolderNeedsToken
<1> QED
  BY <1>3, <1>4, <1>5

LEMMA TokenReplaced == ASSUME TokenAssumption, TokenInv, P!Replace PROVE TokenInv'
<1>1. version' = Append(version, clock) /\ UNCHANGED <<cached, caller, holder, served, clock>> /\ TokenTypes
  BY DEF P!Replace, TokenInv
<1>2. TokenTypes'
  BY <1>1 DEF TokenTypes
<1>3. ExchangedLatest'
  <2>1. ASSUME NEW c \in Requests, caller[c].pc = "exchange"
        PROVE  /\ caller[c].of \in 1 .. Len(version')
               /\ caller[c].of < Len(version') => caller[c].since <= version'[caller[c].of + 1]
    <3>1. LatestUntil(caller[c].of, caller[c].since) /\ caller[c].since <= clock /\ caller[c].since \in Int
      BY <1>1, <2>1 DEF TokenInv, TokenTypes, ExchangedLatest
    <3> QED
      BY <1>1, <3>1, VersionAdded
  <2>2. ASSUME cached # None
        PROVE  /\ cached.of \in 1 .. Len(version')
               /\ cached.of < Len(version') => cached.since - Timeout <= version'[cached.of + 1]
    <3>1. /\ LatestUntil(cached.of, cached.since - Timeout)
          /\ cached.since - Timeout <= clock /\ cached.since - Timeout \in Int
      BY <1>1, <2>2 DEF TokenInv, TokenTypes, ExchangedLatest, TokenAssumption
    <3> QED
      BY <1>1, <3>1, VersionAdded
  <2> QED
    BY <1>1, <2>1, <2>2 DEF TokenInv, ExchangedLatest, LatestUntil
<1>4. ServedInTime'
  <2> SUFFICES ASSUME served # None
               PROVE  /\ served.at <= clock
                      /\ LatestUntil(served.of, served.at)'
                         \/ LatestUntil(served.of, served.at + 1 - (Life - Margin) - Timeout)'
    BY <1>1 DEF ServedInTime
  <2>1. /\ served.at <= clock /\ served.at \in Nat /\ clock \in Nat
        /\ LatestUntil(served.of, served.at)
           \/ LatestUntil(served.of, served.at + 1 - (Life - Margin) - Timeout)
    BY <1>1 DEF TokenInv, TokenTypes, ServedInTime
  <2>2. served.at + 1 - (Life - Margin) - Timeout \in Int /\ served.at + 1 - (Life - Margin) - Timeout <= clock
    BY <2>1 DEF TokenAssumption
  <2>3. CASE LatestUntil(served.of, served.at)
    <3>1. served.of \in 1 .. Len(version') /\ (served.of < Len(version') => served.at <= version'[served.of + 1])
      BY <1>1, <2>1, <2>3, VersionAdded
    <3> QED
      BY <1>1, <2>1, <3>1 DEF LatestUntil
  <2>4. CASE LatestUntil(served.of, served.at + 1 - (Life - Margin) - Timeout)
    <3>1. /\ served.of \in 1 .. Len(version')
          /\ served.of < Len(version') => served.at + 1 - (Life - Margin) - Timeout <= version'[served.of + 1]
      BY <1>1, <2>2, <2>4, VersionAdded
    <3> QED
      BY <1>1, <2>1, <3>1 DEF LatestUntil
  <2> QED
    BY <2>1, <2>3, <2>4
<1> QED
  BY <1>1, <1>2, <1>3, <1>4 DEF TokenInv, HolderNeedsToken, TokenIsOld

LEMMA TimePasses == ASSUME TokenAssumption, TokenInv, P!PassTime PROVE TokenInv'
<1>1. /\ UNCHANGED <<version, cached, caller, holder, served>> /\ clock' = clock + 1 /\ TokenTypes /\ clock \in Nat
      /\ \A c \in Requests : holder = c => clock - caller[c].since < Timeout
  BY DEF P!PassTime, TokenInv, TokenTypes
<1>2. TokenTypes'
  BY <1>1 DEF TokenTypes
<1>3. \A c \in Requests : caller[c].since \in Nat
  BY <1>1 DEF TokenTypes
<1>4. cached # None => cached.since \in Nat
  BY <1>1 DEF TokenTypes
<1>5. served # None => served.at \in Nat
  BY <1>1 DEF TokenTypes
<1>6. ExchangedLatest'
  <2>1. \A c \in Requests : holder = c => caller[c].since <= clock + 1 /\ clock + 1 <= caller[c].since + Timeout
    BY <1>1, <1>3 DEF TokenInv, ExchangedLatest, TokenAssumption
  <2>2. cached # None => cached.since <= clock + 1
    BY <1>1, <1>4 DEF TokenInv, ExchangedLatest
  <2> QED
    BY <1>1, <2>1, <2>2 DEF TokenInv, ExchangedLatest, LatestUntil
<1>7. ServedInTime'
  BY <1>1, <1>5 DEF TokenInv, ServedInTime, LatestUntil
<1>8. HolderNeedsToken'
  BY <1>1, <1>4 DEF TokenInv, HolderNeedsToken, TokenIsOld, TokenAssumption
<1> QED
  BY <1>2, <1>6, <1>7, <1>8 DEF TokenInv

LEMMA TokensNext ==
  ASSUME TokenAssumption, TokenInv, [P!TokenNext]_tokenVars PROVE TokenInv'
<1>1. ASSUME NEW c \in Requests, P!Call(c) \/ P!Lock(c) PROVE TokenInv'
  BY <1>1, TokenCalls
<1>2. ASSUME NEW c \in Requests, P!GetNothing(c) \/ P!ReadSecret(c) \/ P!Exchange(c) PROVE TokenInv'
  BY <1>2, TokenHolds
<1>3. CASE P!Replace \/ P!PassTime
  BY <1>3, TokenReplaced, TimePasses
<1>4. CASE UNCHANGED tokenVars
  <2>1. UNCHANGED <<version, cached, caller, holder, served, clock>>
    BY <1>4 DEF tokenVars
  <2> QED
    BY <2>1 DEF TokenInv, TokenTypes, ExchangedLatest, ServedInTime, HolderNeedsToken, TokenIsOld, LatestUntil
<1> QED
  BY <1>1, <1>2, <1>3, <1>4 DEF P!TokenNext

LEMMA TokensImply ==
  ASSUME TokenAssumption, TokenInv
  PROVE  P!TokenTypeOK /\ P!ReplacedTokensGoOut /\ \A c \in Requests : P!Exchange(c) => P!Valid = None
<1>1. TokenTypes /\ version \in Seq(Nat)
  BY DEF TokenInv, TokenTypes
<1>2. P!TokenTypeOK
  <2>1. \A c \in Requests : caller[c].pc \in {"idle", "wait", "read", "exchange", "over"}
    BY <1>1 DEF TokenTypes
  <2> QED
    BY <1>1, <2>1 DEF TokenInv, TokenTypes, ExchangedLatest, LatestUntil, P!TokenTypeOK
<1>3. P!ReplacedTokensGoOut
  <2> SUFFICES ASSUME served # None, served.of < Len(version)
               PROVE  \/ served.at < version[served.of + 1] + (Life - Margin) + Timeout
                      \/ version[served.of + 1] >= served.at
    BY DEF P!ReplacedTokensGoOut
  <2>1. served.of \in 1 .. Len(version) /\ served.at \in Nat
    BY <1>1 DEF TokenInv, TokenTypes, ServedInTime, LatestUntil
  <2>2. version[served.of + 1] \in Nat
    BY <1>1, <2>1
  <2> QED
    BY <2>1, <2>2 DEF TokenInv, ServedInTime, LatestUntil, TokenAssumption
<1>4. \A c \in Requests : P!Exchange(c) => P!Valid = None
  BY <1>1, ValidToken DEF P!Exchange, TokenInv, TokenTypes, HolderNeedsToken, TokenAssumption
<1> QED
  BY <1>2, <1>3, <1>4

\* A GitHub token that was replaced is served no longer than a session token
\* lives and an exchange takes, and those who waited for the lock exchange nothing
\* while the token its holder got is good (CopilotTokenCache.get_access_token).
THEOREM SessionTokensStayFresh == Spec => SessionTokensAreFresh
<1>1. Init => TokenInv
  BY TokenAssumption, TokensStart DEF Init
<1>2. [Next]_allVars => [P!TokenNext]_tokenVars
  BY DEF Next, allVars, shelfVars, tokenVars
<1>3. TokenInv /\ [Next]_allVars => TokenInv'
  BY <1>2, TokenAssumption, TokensNext
<1>4. TokenInv => P!TokenTypeOK /\ P!ReplacedTokensGoOut
  BY TokenAssumption, TokensImply
<1>5. TokenInv => \A c \in Requests : P!Exchange(c) => P!Valid = None
  BY TokenAssumption, TokensImply
<1> QED
  BY <1>1, <1>3, <1>4, <1>5, PTL DEF Spec, allVars, SessionTokensAreFresh, P!SessionTokensAreFresh, P!NoNeedlessExchange

-----------------------------------------------------------------------------
(* Onboarding.                                                             *)

OnbProgress ==
  [pc : {"idle", "ask", "compile", "over"}, step : (0 .. O!Complete) \cup {None}, copy : O!State \cup {None}]

OnbTypes ==
  /\ state \in O!State \cup {None} /\ disk \in O!Answers \cup {None} /\ shown \in O!Steps \cup {None}
  /\ request \in [OnbRequests -> OnbProgress]
  /\ state # None => (state.step = O!Complete <=> state.completed)

AnsweredBelow(d) == \A s \in O!Steps : s < d.step => d.responses[s] # None

\* The steps that the interview has passed are answered, in what is stored and in
\* what will be once its profile has been compiled.
PassedAreAnswered ==
  /\ state # None => AnsweredBelow(state)
  /\ \A r \in OnbRequests :
       /\ request[r].pc = "ask" => state # None /\ request[r].step \in O!Steps
       /\ request[r].pc = "compile" =>
            /\ state # None /\ request[r].copy \in O!State
            /\ request[r].copy.step = O!Complete /\ AnsweredBelow(request[r].copy)

OnbWaits(r) == request[r].pc \in {"ask", "compile"}

OwnAnswers(d) == \A s \in O!Steps : d.responses[s] \in {None, s}

\* Unless something slipped, one request at a time is under way, and the question
\* that the user sees, or is about to see, is the one of the current step.
QuestionsAreShown ==
  ~slipped =>
    /\ \A r, q \in OnbRequests : OnbWaits(r) /\ OnbWaits(q) => r = q
    /\ state # None => OwnAnswers(state)
    /\ \A r \in OnbRequests : request[r].pc = "ask" => ~state.completed /\ request[r].step = state.step
    /\ \A r \in OnbRequests : request[r].pc = "compile" => OwnAnswers(request[r].copy)
    /\ (state # None /\ ~state.completed /\ \A r \in OnbRequests : request[r].pc # "ask") => shown = state.step

OnbInv == OnbTypes /\ PassedAreAnswered /\ QuestionsAreShown /\ O!ProfileIsOfTheAnswers

LEMMA InterviewStarts == ASSUME OnboardingAssumption, O!OnbInit PROVE OnbInv
<1> DEFINE new == [pc |-> "idle", step |-> None, copy |-> None]
<1>1. new \in OnbProgress
  BY DEF OnbProgress
<1>2. OnbTypes
  BY <1>1 DEF O!OnbInit, OnbTypes
<1>3. \A r \in OnbRequests : request[r].pc = "idle"
  BY DEF O!OnbInit
<1> QED
  BY <1>2, <1>3 DEF O!OnbInit, OnbInv, PassedAreAnswered, QuestionsAreShown, OnbWaits, O!ProfileIsOfTheAnswers

\* A request moves alone.
LEMMA OneAsks ==
  ASSUME OnbTypes, NEW r \in OnbRequests, NEW p \in OnbProgress, request' = [request EXCEPT ![r] = p]
  PROVE  /\ request' \in [OnbRequests -> OnbProgress] /\ request'[r] = p
         /\ \A q \in OnbRequests \ {r} : request'[q] = request[q]
BY DEF OnbTypes

\* A request that waits for nothing any more leaves the others' questions as they are.
LEMMA OneIsOver ==
  ASSUME OnbTypes, NEW r \in OnbRequests, request' = [request EXCEPT ![r].pc = "over"]
  PROVE  /\ request' \in [OnbRequests -> OnbProgress] /\ request'[r].pc = "over"
         /\ \A q \in OnbRequests \ {r} : request'[q] = request[q]
<1>1. request[r] \in OnbProgress
  BY DEF OnbTypes
<1> DEFINE p == [request[r] EXCEPT !.pc = "over"]
<1>2. p \in OnbProgress /\ p.pc = "over"
  BY <1>1 DEF OnbProgress
<1>3. request' = [request EXCEPT ![r] = p]
  OBVIOUS
<1> HIDE DEF p
<1> QED
  BY <1>2, <1>3, OneAsks

\* The state with one answer more.
LEMMA FiledState ==
  ASSUME OnboardingAssumption, OnbInv, state # None, shown # None, ~state.completed
  PROVE  /\ O!Filed \in O!State /\ O!Filed.step = state.step + 1 /\ O!Filed.completed = state.completed
         /\ O!Filed.profile = state.profile /\ state.step \in O!Steps
         /\ \A s \in O!Steps : O!Filed.responses[s] = IF s = state.step THEN shown ELSE state.responses[s]
         /\ AnsweredBelow(O!Filed) /\ O!Filed # None
<1>1. /\ state \in O!State /\ shown \in O!Steps /\ LastStep \in Nat /\ O!Complete = LastStep + 1 /\ O!Steps = 0 .. LastStep
      /\ state.step \in 0 .. O!Complete /\ state.step # O!Complete /\ state.responses \in O!Answers
  BY DEF OnboardingAssumption, OnbInv, OnbTypes, O!Complete, O!Steps, O!State
<1>2. state.step \in O!Steps /\ O!NextStep(state.step) = state.step + 1 /\ state.step + 1 \in 0 .. O!Complete
  BY <1>1 DEF O!NextStep
<1> DEFINE answers == [state.responses EXCEPT ![state.step] = shown]
<1>3. answers \in O!Answers /\ \A s \in O!Steps : answers[s] = IF s = state.step THEN shown ELSE state.responses[s]
  BY <1>1, <1>2 DEF O!Answers
<1>4. /\ O!Filed = [state EXCEPT !.responses = answers, !.step = state.step + 1]
  BY <1>1, <1>2 DEF O!Filed, O!State
<1>5. /\ O!Filed \in O!State /\ O!Filed.step = state.step + 1 /\ O!Filed.completed = state.completed
      /\ O!Filed.profile = state.profile /\ O!Filed.responses = answers
  BY <1>1, <1>2, <1>3, <1>4 DEF O!State
<1>6. AnsweredBelow(O!Filed)
  <2> SUFFICES ASSUME NEW s \in O!Steps, s < state.step + 1 PROVE answers[s] # None
    BY <1>5 DEF AnsweredBelow
  <2>1. s = state.step \/ s < state.step
    BY <1>1
  <2>2. shown # None /\ \A u \in O!Steps : u < state.step => state.responses[u] # None
    BY DEF OnbInv, PassedAreAnswered, AnsweredBelow
  <2> QED
    BY <2>1, <2>2, <1>3
<1> QED
  BY <1>2, <1>3, <1>5, <1>6 DEF OnboardingAssumption

\* What a request does that begins to wait.
LEMMA BeginsToWait ==
  ASSUME OnbTypes, NEW r \in OnbRequests, request[r].pc = "idle", NEW pc \in {"ask", "compile"},
         NEW s \in 0 .. O!Complete, NEW copy \in O!State \cup {None}, O!Await(r, pc, s, copy)
  PROVE  /\ request' \in [OnbRequests -> OnbProgress] /\ request'[r] = [pc |-> pc, step |-> s, copy |-> copy]
         /\ \A q \in OnbRequests \ {r} : request'[q] = request[q]
         /\ ~slipped' => ~slipped /\ \A q \in OnbRequests : ~OnbWaits(q)
<1> DEFINE p == [pc |-> pc, step |-> s, copy |-> copy]
<1>1. p \in OnbProgress /\ request' = [request EXCEPT ![r] = p]
  BY DEF OnbProgress, O!Await
<1>2. ~slipped' => ~slipped /\ \A q \in OnbRequests : ~OnbWaits(q)
  BY DEF O!Await, O!Waiting, OnbWaits
<1> HIDE DEF p
<1>3. /\ request' \in [OnbRequests -> OnbProgress] /\ request'[r] = p
      /\ \A q \in OnbRequests \ {r} : request'[q] = request[q]
  BY <1>1, OneAsks
<1> QED
  BY <1>2, <1>3 DEF p

\* A request that waits for a question, after it saved the state d.
LEMMA AskingKeeps ==
  ASSUME OnboardingAssumption, OnbInv, NEW r \in OnbRequests, request[r].pc = "idle",
         state' \in O!State, ~state'.completed, state'.step \in O!Steps, AnsweredBelow(state'),
         ~slipped => OwnAnswers(state') \/ \E q \in OnbRequests : OnbWaits(q),
         O!Await(r, "ask", state'.step, None), UNCHANGED <<disk, shown>>
  PROVE  OnbInv'
<1>1. O!Steps \subseteq 0 .. O!Complete /\ O!Complete \notin O!Steps
  BY DEF OnboardingAssumption, O!Steps, O!Complete
<1>2. /\ request' \in [OnbRequests -> OnbProgress] /\ request'[r] = [pc |-> "ask", step |-> state'.step, copy |-> None]
      /\ \A q \in OnbRequests \ {r} : request'[q] = request[q]
      /\ ~slipped' => ~slipped /\ \A q \in OnbRequests : ~OnbWaits(q)
  BY <1>1, BeginsToWait DEF OnbInv
<1>3. request'[r].pc = "ask" /\ request'[r].step = state'.step
  BY <1>2
<1>4. OnbTypes'
  BY <1>1, <1>2 DEF OnbInv, OnbTypes
<1>5. PassedAreAnswered'
  <2>1. state' # None
    BY DEF OnboardingAssumption
  <2>2. ASSUME NEW q \in OnbRequests
        PROVE  /\ request'[q].pc = "ask" => request'[q].step \in O!Steps
               /\ request'[q].pc = "compile" =>
                    /\ request'[q].copy \in O!State
                    /\ request'[q].copy.step = O!Complete /\ AnsweredBelow(request'[q].copy)
    BY <1>2, <1>3 DEF OnbInv, PassedAreAnswered
  <2> QED
    BY <2>1, <2>2 DEF PassedAreAnswered, AnsweredBelow
<1>6. QuestionsAreShown'
  <2> SUFFICES ASSUME ~slipped' PROVE QuestionsAreShown'
    BY DEF QuestionsAreShown
  <2>1. \A q \in OnbRequests \ {r} : request'[q].pc \notin {"ask", "compile"}
    BY <1>2 DEF OnbWaits
  <2>2. OwnAnswers(state')
    BY <1>2
  <2> QED
    BY <1>3, <2>1, <2>2 DEF QuestionsAreShown, OnbWaits, OwnAnswers
<1>7. O!ProfileIsOfTheAnswers'
  BY DEF O!ProfileIsOfTheAnswers
<1> QED
  BY <1>4, <1>5, <1>6, <1>7 DEF OnbInv

\* A request that is refused, or that fails.
LEMMA EndingKeeps ==
  ASSUME OnboardingAssumption, OnbInv, NEW r \in OnbRequests, request' = [request EXCEPT ![r].pc = "over"],
         UNCHANGED <<state, disk, shown>>,
         ~slipped' => ~slipped /\ (request[r].pc = "ask" => shown = request[r].step)
  PROVE  OnbInv'
<1>1. /\ request' \in [OnbRequests -> OnbProgress] /\ request'[r].pc = "over"
      /\ \A q \in OnbRequests \ {r} : request'[q] = request[q]
  BY OneIsOver DEF OnbInv
<1>2. OnbTypes'
  BY <1>1 DEF OnbInv, OnbTypes
<1>3. PassedAreAnswered'
  BY <1>1 DEF OnbInv, PassedAreAnswered, AnsweredBelow
<1>4. QuestionsAreShown'
  <2> SUFFICES ASSUME ~slipped' PROVE QuestionsAreShown'
    BY DEF QuestionsAreShown
  <2>1. ASSUME state # None, ~state.completed, \A q \in OnbRequests : request'[q].pc # "ask" PROVE shown = state.step
    BY <1>1, <2>1 DEF OnbInv, QuestionsAreShown
  <2> QED
    BY <1>1, <2>1 DEF OnbInv, QuestionsAreShown, OnbWaits, OwnAnswers
<1>5. O!ProfileIsOfTheAnswers'
  BY DEF OnbInv, O!ProfileIsOfTheAnswers
<1> QED
  BY <1>2, <1>3, <1>4, <1>5 DEF OnbInv

LEMMA StartKeeps == ASSUME OnboardingAssumption, OnbInv, NEW r \in OnbRequests, O!Start(r) PROVE OnbInv'
<1>1. CASE state # None /\ state.completed
  BY <1>1, EndingKeeps DEF O!Start, O!Refused
<1>2. CASE state = None
  <2>1. state' = O!NewState /\ O!NewState \in O!State /\ ~O!NewState.completed /\ O!NewState.step = 0
        /\ \A s \in O!Steps : O!NewState.responses[s] = None
    BY <1>2 DEF O!Start, O!NewState, O!State, O!Answers, O!Complete, OnboardingAssumption
  <2>2. 0 \in O!Steps /\ \A s \in O!Steps : ~(s < 0)
    BY DEF OnboardingAssumption, O!Steps
  <2>3. AnsweredBelow(state') /\ OwnAnswers(state')
    BY <2>1, <2>2 DEF AnsweredBelow, OwnAnswers
  <2> QED
    BY <1>2, <2>1, <2>2, <2>3, AskingKeeps DEF O!Start
<1>3. CASE state # None /\ ~state.completed
  <2>1. state' = state /\ state \in O!State /\ state.step \in O!Steps
    BY <1>3 DEF O!Start, OnbInv, OnbTypes, O!State, O!Complete, O!Steps, OnboardingAssumption
  <2>2. AnsweredBelow(state') /\ (~slipped => OwnAnswers(state'))
    BY <1>3, <2>1 DEF OnbInv, PassedAreAnswered, QuestionsAreShown
  <2> QED
    BY <1>3, <2>1, <2>2, AskingKeeps DEF O!Start
<1> QED
  BY <1>1, <1>2, <1>3

LEMMA AdvanceKeeps == ASSUME OnboardingAssumption, OnbInv, NEW r \in OnbRequests, O!Advance(r) PROVE OnbInv'
<1>1. CASE state.completed
  BY <1>1, EndingKeeps DEF O!Advance, O!Refused
<1> SUFFICES ASSUME ~state.completed PROVE OnbInv'
  BY <1>1
<1>2. /\ O!Filed \in O!State /\ O!Filed.step = state.step + 1 /\ ~O!Filed.completed
      /\ state.step \in O!Steps /\ AnsweredBelow(O!Filed) /\ O!Filed # None
      /\ \A s \in O!Steps : O!Filed.responses[s] = IF s = state.step THEN shown ELSE state.responses[s]
  BY FiledState DEF O!Advance
\* The answer is to the current question, unless a request waits for another one.
<1>3. ~slipped => OwnAnswers(O!Filed) \/ \E q \in OnbRequests : OnbWaits(q)
  BY <1>2 DEF OnbInv, QuestionsAreShown, OwnAnswers, OnbWaits, O!Advance
<1>4. CASE O!Filed.step # O!Complete
  <2>1. state' = O!Filed /\ O!Await(r, "ask", O!Filed.step, None) /\ UNCHANGED <<disk, shown>> /\ request[r].pc = "idle"
    BY <1>4 DEF O!Advance
  <2>2. O!Filed.step \in O!Steps
    BY <1>2, <1>4 DEF O!Steps, O!Complete, OnboardingAssumption
  <2> QED
    BY <1>2, <1>3, <2>1, <2>2, AskingKeeps
<1>5. CASE O!Filed.step = O!Complete
  <2>1. O!Await(r, "compile", O!Complete, O!Filed) /\ UNCHANGED <<state, disk, shown>> /\ request[r].pc = "idle"
    BY <1>5 DEF O!Advance
  <2>2. O!Complete \in 0 .. O!Complete
    BY DEF OnboardingAssumption, O!Complete
  <2>3. /\ request' \in [OnbRequests -> OnbProgress]
        /\ request'[r] = [pc |-> "compile", step |-> O!Complete, copy |-> O!Filed]
        /\ \A q \in OnbRequests \ {r} : request'[q] = request[q]
        /\ ~slipped' => ~slipped /\ \A q \in OnbRequests : ~OnbWaits(q)
    BY <1>2, <2>1, <2>2, BeginsToWait DEF OnbInv
  <2>4. request'[r].pc = "compile" /\ request'[r].copy = O!Filed
    BY <2>3
  <2>5. OnbTypes'
    BY <2>1, <2>3 DEF OnbInv, OnbTypes
  <2>6. PassedAreAnswered'
    <3>1. ASSUME NEW q \in OnbRequests
          PROVE  /\ request'[q].pc = "ask" => request'[q].step \in O!Steps
                 /\ request'[q].pc = "compile" =>
                      /\ request'[q].copy \in O!State
                      /\ request'[q].copy.step = O!Complete /\ AnsweredBelow(request'[q].copy)
      BY <1>2, <1>5, <2>3, <2>4 DEF OnbInv, PassedAreAnswered
    <3>2. state # None /\ state' = state
      BY <2>1 DEF O!Advance
    <3> QED
      BY <3>1, <3>2 DEF OnbInv, PassedAreAnswered, AnsweredBelow
  <2>7. QuestionsAreShown'
    <3> SUFFICES ASSUME ~slipped' PROVE QuestionsAreShown'
      BY DEF QuestionsAreShown
    <3>1. \A q \in OnbRequests \ {r} : request'[q].pc \notin {"ask", "compile"}
      BY <2>3 DEF OnbWaits
    <3>2. OwnAnswers(O!Filed) /\ OwnAnswers(state) /\ shown = state.step /\ state' = state /\ shown' = shown
      BY <1>3, <2>1, <2>3 DEF OnbInv, QuestionsAreShown, OnbWaits, O!Advance
    <3> QED
      BY <2>4, <3>1, <3>2 DEF QuestionsAreShown, OnbWaits, OwnAnswers
  <2>8. O!ProfileIsOfTheAnswers'
    BY <2>1 DEF OnbInv, O!ProfileIsOfTheAnswers
  <2> QED
    BY <2>5, <2>6, <2>7, <2>8 DEF OnbInv
<1> QED
  BY <1>4, <1>5

LEMMA AskKeeps == ASSUME OnboardingAssumption, OnbInv, NEW r \in OnbRequests, O!Ask(r) PROVE OnbInv'
<1>1. /\ request' \in [OnbRequests -> OnbProgress] /\ request'[r].pc = "over"
      /\ \A q \in OnbRequests \ {r} : request'[q] = request[q]
  BY OneIsOver DEF OnbInv, O!Ask
<1>2. request[r].pc = "ask" /\ shown' = request[r].step /\ UNCHANGED <<state, disk, slipped>> /\ state # None
      /\ request[r].step \in O!Steps
  BY DEF O!Ask, OnbInv, PassedAreAnswered
<1>3. OnbTypes'
  BY <1>1, <1>2 DEF OnbInv, OnbTypes
<1>4. PassedAreAnswered'
  BY <1>1, <1>2 DEF OnbInv, PassedAreAnswered, AnsweredBelow
<1>5. QuestionsAreShown'
  <2> SUFFICES ASSUME ~slipped PROVE QuestionsAreShown'
    BY <1>2 DEF QuestionsAreShown
  <2>1. shown' = state.step /\ \A q \in OnbRequests : request'[q].pc \notin {"ask", "compile"}
    BY <1>1, <1>2 DEF OnbInv, QuestionsAreShown, OnbWaits
  <2> QED
    BY <1>2, <2>1 DEF OnbInv, QuestionsAreShown, OnbWaits, OwnAnswers
<1>6. O!ProfileIsOfTheAnswers'
  BY <1>2 DEF OnbInv, O!ProfileIsOfTheAnswers
<1> QED
  BY <1>3, <1>4, <1>5, <1>6 DEF OnbInv

\* The state that a compiled interview is stored with.
LEMMA CompiledState ==
  ASSUME OnboardingAssumption, OnbInv, NEW r \in OnbRequests, O!Compile(r)
  PROVE  /\ state' \in O!State /\ state'.step = O!Complete /\ state'.completed
         /\ state'.responses = request[r].copy.responses /\ state'.profile = state'.responses
         /\ disk' \in O!Answers \cup {None} /\ state # None /\ state' # None
         /\ \A s \in O!Steps : state'.responses[s] # None
<1>1. /\ request[r].copy \in O!State /\ request[r].copy.step = O!Complete /\ AnsweredBelow(request[r].copy)
      /\ state # None
  BY DEF OnbInv, PassedAreAnswered, O!Compile
<1>2. \A s \in O!Steps : request[r].copy.responses[s] # None
  BY <1>1 DEF AnsweredBelow, O!Steps, O!Complete, OnboardingAssumption
<1>3. state' = [request[r].copy EXCEPT !.profile = request[r].copy.responses, !.completed = TRUE]
      /\ disk' \in {disk, request[r].copy.responses}
  BY DEF O!Compile
<1>4. /\ state' \in O!State /\ state'.step = O!Complete /\ state'.completed
      /\ state'.responses = request[r].copy.responses /\ state'.profile = state'.responses
  BY <1>1, <1>3 DEF O!State
<1>5. disk' \in O!Answers \cup {None}
  BY <1>1, <1>3 DEF OnbInv, OnbTypes, O!State
<1> QED
  BY <1>1, <1>2, <1>4, <1>5 DEF OnboardingAssumption

LEMMA CompileKeeps == ASSUME OnboardingAssumption, OnbInv, NEW r \in OnbRequests, O!Compile(r) PROVE OnbInv'
<1>1. /\ request' \in [OnbRequests -> OnbProgress] /\ request'[r].pc = "over"
      /\ \A q \in OnbRequests \ {r} : request'[q] = request[q]
  BY OneIsOver DEF OnbInv, O!Compile
<1>2. UNCHANGED <<shown, slipped>> /\ request[r].pc = "compile"
  BY DEF O!Compile
<1>3. /\ state' \in O!State /\ state'.step = O!Complete /\ state'.completed
      /\ state'.responses = request[r].copy.responses /\ state'.profile = state'.responses
      /\ disk' \in O!Answers \cup {None} /\ state # None /\ state' # None
      /\ \A s \in O!Steps : state'.responses[s] # None
  BY CompiledState
<1>4. OnbTypes'
  BY <1>1, <1>2, <1>3 DEF OnbInv, OnbTypes
<1>5. PassedAreAnswered'
  BY <1>1, <1>3 DEF OnbInv, PassedAreAnswered, AnsweredBelow
<1>6. QuestionsAreShown'
  <2> SUFFICES ASSUME ~slipped PROVE QuestionsAreShown'
    BY <1>2 DEF QuestionsAreShown
  <2>1. OwnAnswers(state') /\ \A q \in OnbRequests : request'[q].pc \notin {"ask", "compile"}
    BY <1>1, <1>2, <1>3 DEF OnbInv, QuestionsAreShown, OnbWaits, OwnAnswers
  <2> QED
    BY <1>3, <2>1 DEF QuestionsAreShown, OnbWaits, OwnAnswers
<1>7. O!ProfileIsOfTheAnswers'
  BY <1>3 DEF O!ProfileIsOfTheAnswers
<1> QED
  BY <1>4, <1>5, <1>6, <1>7 DEF OnbInv

LEMMA InterviewGoesOn == ASSUME OnboardingAssumption, OnbInv, [O!OnbNext]_onbVars PROVE OnbInv'
<1>1. ASSUME NEW r \in OnbRequests, O!Start(r) \/ O!Advance(r) \/ O!Ask(r) \/ O!Compile(r) PROVE OnbInv'
  BY <1>1, StartKeeps, AdvanceKeeps, AskKeeps, CompileKeeps
<1>2. ASSUME NEW r \in OnbRequests, O!Fail(r) PROVE OnbInv'
  BY <1>2, EndingKeeps DEF O!Fail
<1>3. CASE UNCHANGED onbVars
  <2>1. UNCHANGED <<state, disk, shown, request, slipped>>
    BY <1>3 DEF onbVars
  <2> QED
    BY <2>1 DEF OnbInv, OnbTypes, PassedAreAnswered, AnsweredBelow, QuestionsAreShown, OnbWaits, OwnAnswers,
                O!ProfileIsOfTheAnswers
<1> QED
  BY <1>1, <1>2, <1>3 DEF O!OnbNext

Onward ==
  state # None => /\ state' # None /\ state'.step >= state.step
                  /\ \A s \in O!Steps : state.responses[s] # None => state'.responses[s] # None

LEMMA InterviewGoesForward == ASSUME OnboardingAssumption, OnbInv, [O!OnbNext]_onbVars PROVE Onward
<1> SUFFICES ASSUME state # None PROVE Onward
  BY DEF Onward
<1>1. state \in O!State /\ state.step \in 0 .. O!Complete /\ O!Complete \in Nat
  BY DEF OnbInv, OnbTypes, O!State, O!Complete, OnboardingAssumption
<1>2. CASE UNCHANGED state
  BY <1>1, <1>2 DEF Onward
<1>3. ASSUME NEW r \in OnbRequests, O!Advance(r), state' = O!Filed, ~state.completed PROVE Onward
  <2>1. /\ O!Filed.step = state.step + 1 /\ O!Filed # None
        /\ \A s \in O!Steps : O!Filed.responses[s] = IF s = state.step THEN shown ELSE state.responses[s]
    BY <1>3, FiledState DEF O!Advance
  <2>2. shown # None
    BY <1>3 DEF O!Advance
  <2> QED
    BY <1>1, <1>3, <2>1, <2>2 DEF Onward
<1>4. ASSUME NEW r \in OnbRequests, O!Compile(r) PROVE Onward
  BY <1>1, <1>4, CompiledState DEF Onward
<1>5. [O!OnbNext]_onbVars =>
        \/ UNCHANGED state
        \/ \E r \in OnbRequests : O!Compile(r) \/ (O!Advance(r) /\ state' = O!Filed /\ ~state.completed)
  BY DEF O!OnbNext, onbVars, O!Start, O!Advance, O!Ask, O!Fail, O!Refused
<1> QED
  BY <1>2, <1>3, <1>4, <1>5

\* Answers are filed under their questions unless a question was saved and not
\* shown or requests overlapped; a completed interview has every answer, and its
\* profile is of them; no request takes the interview back (OnboardingService).
THEOREM InterviewsAreKept == Spec => InterviewIsKept
<1>1. Init => OnbInv
  BY OnboardingAssumption, InterviewStarts DEF Init
<1>2. [Next]_allVars => [O!OnbNext]_onbVars
  BY DEF Next, allVars, onbVars
<1>3. OnbInv /\ [Next]_allVars => OnbInv'
  BY <1>2, OnboardingAssumption, InterviewGoesOn
<1>4. OnbInv => O!OnbTypeOK
  BY DEF OnbInv, OnbTypes, OnbProgress, O!OnbTypeOK
<1>5. OnbInv => O!AnswersMatchQuestions
  BY DEF OnbInv, QuestionsAreShown, OwnAnswers, O!AnswersMatchQuestions
<1>6. OnbInv => O!ProfileIsOfTheAnswers
  BY DEF OnbInv
<1>7. OnbInv /\ [Next]_allVars => [Onward]_O!onbVars
  BY <1>2, OnboardingAssumption, InterviewGoesForward
<1> QED
  BY <1>1, <1>3, <1>4, <1>5, <1>6, <1>7, PTL
  DEF Spec, allVars, InterviewIsKept, O!InterviewIsKept, O!StepsGoForward, Onward

-----------------------------------------------------------------------------
(* The order of requests that read a document, and write it later: of      *)
(* AgentConfig, Skills and ToolCatalog.                                    *)

Begun(q) == {r \in Requests : q[r].pc # "idle"}
Writing(q) == {r \in Requests : q[r].pc = "write"}

\* Requests begin in the order of their numbers; two of which one has not written
\* when the other begins have met.
InOrder(q, m) ==
  /\ \A r \in Requests : /\ q[r].began \in Nat
                         /\ IF r \in Begun(q) THEN q[r].began < Cardinality(Begun(q)) ELSE q[r].began = 0
  /\ \A r, s \in Writing(q) : r # s => {r, s} \in m
  /\ \A s \in Writing(q), r \in Begun(q) \ Writing(q) : {r, s} \in m \/ q[s].began > q[r].began
  /\ \A r \in Writing(q), s \in Begun(q) : q[s].began > q[r].began => {r, s} \in m

\* The request r begins: with a number of its own, and it meets those that have yet
\* to write.
Joins(q, m, p, n, r) ==
  /\ r \notin Begun(q) /\ r \in Begun(p) /\ p[r].began = Cardinality(Begun(q))
  /\ \A s \in Requests : s # r => p[s] = q[s]
  /\ n = m \cup {{r, s} : s \in Writing(q)}

LEMMA OrderBegins ==
  ASSUME IsFiniteSet(Requests), NEW q, NEW m, NEW p, NEW n, NEW r \in Requests, InOrder(q, m), Joins(q, m, p, n, r)
  PROVE  InOrder(p, n) /\ \A s \in Begun(q) : p[r].began > p[s].began
<1>1. Begun(p) = Begun(q) \cup {r} /\ r \notin Begun(q)
  BY DEF Begun, Joins
<1>2. IsFiniteSet(Begun(q))
  BY FS_Subset DEF Begun
<1>3. Cardinality(Begun(q)) \in Nat /\ Cardinality(Begun(p)) = Cardinality(Begun(q)) + 1
  BY <1>1, <1>2, FS_AddElement, FS_CardinalityType
<1>4. /\ \A s \in Requests : s \in Writing(p) <=> IF s = r THEN p[r].pc = "write" ELSE s \in Writing(q)
      /\ Writing(q) \subseteq Begun(q) /\ Begun(q) \subseteq Requests /\ Writing(p) \subseteq Requests
  BY DEF Joins, Writing, Begun
<1>5. /\ m \subseteq n /\ \A s \in Writing(q) : {r, s} \in n /\ {s, r} \in n
  <2>1. \A s : {r, s} = {s, r}
    OBVIOUS
  <2> QED
    BY <2>1 DEF Joins
<1>6. \A s \in Begun(q) : s # r /\ p[s] = q[s] /\ q[s].began < p[r].began
  BY <1>1, <1>4 DEF Joins, InOrder
<1>7. \A s \in Requests : /\ p[s].began \in Nat
                          /\ IF s \in Begun(p) THEN p[s].began < Cardinality(Begun(p)) ELSE p[s].began = 0
  BY <1>1, <1>3, <1>4 DEF InOrder, Joins
<1>8. \A s, t \in Writing(p) : s # t => {s, t} \in n
  BY <1>1, <1>4, <1>5 DEF InOrder
<1>9. \A t \in Writing(p), s \in Begun(p) \ Writing(p) : {s, t} \in n \/ p[t].began > p[s].began
  BY <1>1, <1>4, <1>5, <1>6 DEF InOrder
<1>10. \A s \in Writing(p), t \in Begun(p) : p[t].began > p[s].began => {s, t} \in n
  <2> SUFFICES ASSUME NEW s \in Writing(p), NEW t \in Begun(p), p[t].began > p[s].began PROVE {s, t} \in n
    OBVIOUS
  <2>1. s # t /\ s \in Requests /\ t \in Requests /\ \A x \in Requests : p[x].began \in Nat
    BY <1>1, <1>4, <1>7
  <2>2. CASE t = r
    BY <1>4, <1>5, <2>1, <2>2
  <2>3. CASE s = r
    BY <1>1, <1>6, <1>7, <2>1, <2>3
  <2>4. CASE s # r /\ t # r
    BY <1>1, <1>4, <1>5, <1>6, <2>1, <2>4 DEF InOrder
  <2> QED
    BY <2>2, <2>3, <2>4
<1> QED
  BY <1>6, <1>7, <1>8, <1>9, <1>10 DEF InOrder

\* Requests that go on keep their numbers, and none begins to write a second time.
LEMMA OrderGoesOn ==
  ASSUME NEW q, NEW m, NEW p, InOrder(q, m),
         \A r \in Requests : /\ p[r].began = q[r].began /\ (p[r].pc = "idle" <=> q[r].pc = "idle")
                             /\ p[r].pc = "write" => q[r].pc = "write"
  PROVE  InOrder(p, m)
<1>1. Begun(p) = Begun(q) /\ Writing(p) \subseteq Writing(q) /\ Writing(p) \subseteq Requests /\ Begun(q) \subseteq Requests
  BY DEF Begun, Writing
<1>2. \A r, s : {r, s} = {s, r}
  OBVIOUS
<1>3. Writing(q) \subseteq Begun(q)
  BY DEF Writing, Begun
<1>4. \A r \in Requests : p[r].began = q[r].began /\ p[r].began \in Nat
  BY DEF InOrder
<1>5. \A s \in Writing(p), r \in Begun(p) \ Writing(p) : {r, s} \in m \/ p[s].began > p[r].began
  <2> SUFFICES ASSUME NEW s \in Writing(p), NEW r \in Begun(p) \ Writing(p)
               PROVE  {r, s} \in m \/ p[s].began > p[r].began
    OBVIOUS
  <2>1. CASE r \in Writing(q)
    BY <1>1, <2>1 DEF InOrder
  <2>2. CASE r \notin Writing(q)
    BY <1>1, <1>4, <2>2 DEF InOrder
  <2> QED
    BY <2>1, <2>2
<1>6. \A r, s \in Writing(p) : r # s => {r, s} \in m
  BY <1>1 DEF InOrder
<1>7. \A r \in Writing(p), s \in Begun(p) : p[s].began > p[r].began => {r, s} \in m
  BY <1>1, <1>4 DEF InOrder
<1> QED
  BY <1>1, <1>4, <1>5, <1>6, <1>7 DEF InOrder

-----------------------------------------------------------------------------
(* The configuration of agents.                                            *)

CfgRequest ==
  [op : {"none", "create", "patch", "delete", "forced"}, a : Agents \cup {None}, field : {"body", "model"},
   copy : A!Doc \cup {None}, pc : {"idle", "write", "over", "failed"}, began : Nat]

CfgTypes ==
  /\ doc \in [Agents -> A!Doc \cup {None}] /\ runner \in [Agents -> A!Doc \cup {None}]
  /\ req \in [Requests -> CfgRequest] /\ Protected \subseteq Agents
  /\ \A r \in Begun(req) : req[r].a \in Agents /\ req[r].op # "none"
                           /\ (req[r].op = "delete" => req[r].a \notin Protected)

\* The field that r wrote is, in the document x, as it or a later request left it.
CfgStands(q, r, x) ==
  /\ x # None
  /\ \/ x[q[r].field] = r
     \/ x[q[r].field] # Unset /\ q[x[q[r].field]].began > q[r].began

CfgRemoved(q, r) ==
  \E d \in Requests : /\ q[d].op \in {"delete", "forced"} /\ q[d].pc = "over" /\ q[d].a = q[r].a
                      /\ q[d].began > q[r].began

CfgWrote(q, r) == q[r].op \in {"create", "patch"} /\ q[r].pc = "over"

\* What a request wrote alone stands in the document, and in every copy of it that
\* is yet to be written back.
CfgKept ==
  \A r \in Requests : CfgWrote(req, r) /\ A!Alone(r) =>
    /\ CfgStands(req, r, doc[req[r].a]) \/ CfgRemoved(req, r)
    /\ \A s \in Writing(req) : req[s].a = req[r].a => CfgStands(req, r, req[s].copy) \/ CfgRemoved(req, r)

DocsHaveWriters == \A a \in Agents : doc[a] # None => \E r \in Requests : CfgWrote(req, r) /\ req[r].a = a

CfgInv ==
  /\ CfgTypes /\ InOrder(req, cfgMet) /\ CfgKept /\ A!DeletedStaysGone /\ A!RunnersHaveAgents /\ DocsHaveWriters

LEMMA CfgStarts == ASSUME RequestsAssumption, A!CfgInit PROVE CfgInv
<1>1. /\ A!Idle \in CfgRequest /\ A!Idle.pc = "idle" /\ A!Idle.began = 0
      /\ \A r \in Requests : req[r] = A!Idle
  BY DEF A!CfgInit, A!Idle, CfgRequest
<1>2. Begun(req) = {} /\ Writing(req) = {}
  BY <1>1 DEF Begun, Writing
<1>3. CfgTypes
  BY <1>1, <1>2 DEF A!CfgInit, CfgTypes
<1>4. InOrder(req, cfgMet)
  BY <1>1, <1>2 DEF InOrder
<1>5. CfgKept /\ A!DeletedStaysGone
  BY <1>1 DEF CfgKept, CfgWrote, A!DeletedStaysGone
<1>6. A!RunnersHaveAgents /\ DocsHaveWriters
  BY DEF A!CfgInit, A!RunnersHaveAgents, DocsHaveWriters
<1> QED
  BY <1>3, <1>4, <1>5, <1>6 DEF CfgInv

\* Requests that have begun stay what they are, and those that are over are over.
CfgForward(q, p) ==
  \A r \in Requests :
    q[r].pc # "idle" => /\ p[r].began = q[r].began /\ p[r].a = q[r].a /\ p[r].field = q[r].field /\ p[r].op = q[r].op
                        /\ q[r].pc = "over" => p[r].pc = "over"

LEMMA CfgCarries ==
  ASSUME NEW q, NEW p, NEW m, CfgForward(q, p), InOrder(q, m), NEW r \in Requests, q[r].pc # "idle",
         q[r].field \in {"body", "model"}
  PROVE  /\ \A x \in A!Doc \cup {None} : CfgStands(q, r, x) => CfgStands(p, r, x)
         /\ CfgRemoved(q, r) => CfgRemoved(p, r)
         /\ CfgWrote(q, r) => CfgWrote(p, r)
<1>1. \A s \in Requests : q[s].began \in Nat /\ (q[s].pc = "idle" => q[s].began = 0)
  BY DEF InOrder, Begun
<1>2. p[r].began = q[r].began /\ p[r].field = q[r].field /\ p[r].a = q[r].a
  BY DEF CfgForward
<1>3. \A s \in Requests : q[s].began > q[r].began => q[s].pc # "idle"
  BY <1>1
<1>4. \A s \in Requests : q[s].began > q[r].began => p[s].began > p[r].began
  BY <1>2, <1>3 DEF CfgForward
<1>5. ASSUME NEW x \in A!Doc \cup {None}, CfgStands(q, r, x) PROVE CfgStands(p, r, x)
  <2>1. x # None /\ x[q[r].field] \in Requests \cup {Unset}
    BY <1>5 DEF CfgStands, A!Doc
  <2> QED
    BY <1>2, <1>4, <1>5, <2>1 DEF CfgStands
<1>6. CfgRemoved(q, r) => CfgRemoved(p, r)
  BY <1>2, <1>3, <1>4 DEF CfgRemoved, CfgForward
<1>7. CfgWrote(q, r) => CfgWrote(p, r)
  BY DEF CfgWrote, CfgForward
<1> QED
  BY <1>5, <1>6, <1>7

LEMMA CfgBegins ==
  ASSUME RequestsAssumption, CfgInv, NEW r \in Requests, NEW op \in {"create", "patch", "delete", "forced"},
         NEW a \in Agents, NEW field \in {"body", "model"}, req[r].pc = "idle", op = "delete" => a \notin Protected,
         A!Under(r, op, a, field), UNCHANGED <<file, doc, runner>>
  PROVE  CfgInv'
<1> DEFINE to == [op |-> op, a |-> a, field |-> field, copy |-> doc[a], pc |-> "write", began |-> A!Now]
<1>1. /\ CfgTypes /\ req \in [Requests -> CfgRequest] /\ InOrder(req, cfgMet)
      /\ A!Now = Cardinality(Begun(req)) /\ A!Now \in Nat
  <2>1. IsFiniteSet(Begun(req))
    BY FS_Subset DEF Begun, RequestsAssumption
  <2>2. A!Now = Cardinality(Begun(req))
    BY DEF A!Now, Begun, A!Cardinality, Cardinality
  <2> QED
    BY <2>1, <2>2, FS_CardinalityType DEF CfgInv, CfgTypes
<1>2. to \in CfgRequest /\ doc[a] \in A!Doc \cup {None}
  BY <1>1 DEF CfgTypes, CfgRequest
<1>3. /\ req' = [req EXCEPT ![r] = to]
      /\ cfgMet' = cfgMet \cup {{r, s} : s \in Writing(req)}
  BY DEF A!Under, A!Meets, A!Open, Writing
<1>4. req'[r] = to /\ \A s \in Requests : s # r => req'[s] = req[s]
  BY <1>1, <1>3
<1>5. Joins(req, cfgMet, req', cfgMet', r)
  BY <1>1, <1>3, <1>4 DEF Joins, Begun
<1>6. InOrder(req', cfgMet') /\ \A s \in Begun(req) : req'[r].began > req'[s].began
  BY <1>1, <1>5, OrderBegins DEF RequestsAssumption
<1>7. CfgForward(req, req')
  BY <1>4 DEF CfgForward
<1>8. CfgTypes'
  <2>1. req' \in [Requests -> CfgRequest]
    BY <1>1, <1>2, <1>3
  <2>2. \A s \in Begun(req') : s = r \/ (s \in Begun(req) /\ req'[s] = req[s])
    BY <1>4 DEF Begun
  <2> QED
    BY <1>1, <1>4, <2>1, <2>2 DEF CfgTypes
<1>9. \A s \in Requests : CfgWrote(req', s) => s # r /\ CfgWrote(req, s) /\ req'[s] = req[s]
  BY <1>4 DEF CfgWrote
<1>10. \A s \in Requests : A!Alone(s)' => A!Alone(s)
  BY <1>3 DEF A!Alone
<1>11. CfgKept'
  <2> SUFFICES ASSUME NEW s \in Requests, CfgWrote(req', s), A!Alone(s)'
               PROVE  /\ CfgStands(req', s, doc[req'[s].a]) \/ CfgRemoved(req', s)
                      /\ \A t \in Writing(req') : req'[t].a = req'[s].a =>
                            CfgStands(req', s, req'[t].copy) \/ CfgRemoved(req', s)
    BY DEF CfgKept
  <2>1. s # r /\ CfgWrote(req, s) /\ A!Alone(s) /\ req'[s] = req[s]
    BY <1>9, <1>10
  <2>2. req[s].pc # "idle" /\ req[s] \in CfgRequest /\ req[s].a \in Agents /\ req[s].field \in {"body", "model"}
    BY <1>1, <2>1 DEF CfgWrote, CfgTypes, Begun, CfgRequest
  <2>3. /\ \A x \in A!Doc \cup {None} : CfgStands(req, s, x) => CfgStands(req', s, x)
        /\ CfgRemoved(req, s) => CfgRemoved(req', s)
    BY <1>1, <1>7, <2>2, CfgCarries
  <2>4. CfgStands(req', s, doc[req[s].a]) \/ CfgRemoved(req', s)
    BY <1>1, <2>1, <2>2, <2>3 DEF CfgInv, CfgKept, CfgTypes
  <2>5. ASSUME NEW t \in Writing(req'), req'[t].a = req'[s].a
        PROVE  CfgStands(req', s, req'[t].copy) \/ CfgRemoved(req', s)
    <3>1. CASE t = r
      BY <1>4, <2>1, <2>4, <2>5, <3>1
    <3>2. CASE t # r
      <4>1. t \in Writing(req) /\ req'[t] = req[t] /\ req[t].copy \in A!Doc \cup {None}
        BY <1>1, <1>4, <3>2 DEF Writing, CfgRequest
      <4> QED
        BY <2>1, <2>3, <2>5, <4>1 DEF CfgInv, CfgKept
    <3> QED
      BY <3>1, <3>2
  <2> QED
    BY <2>1, <2>4, <2>5
<1>12. A!DeletedStaysGone'
  <2> SUFFICES ASSUME NEW d \in Requests, req'[d].op \in {"delete", "forced"}, req'[d].pc = "over", doc[req'[d].a] # None
               PROVE  \E s \in Requests : /\ req'[s].op \in {"create", "patch"} /\ req'[s].pc = "over"
                                          /\ req'[s].a = req'[d].a
                                          /\ {s, d} \in cfgMet' \/ req'[s].began > req'[d].began
    BY DEF A!DeletedStaysGone
  <2>1. d # r /\ req'[d] = req[d]
    BY <1>4
  <2>2. PICK s \in Requests : /\ req[s].op \in {"create", "patch"} /\ req[s].pc = "over" /\ req[s].a = req[d].a
                              /\ {s, d} \in cfgMet \/ req[s].began > req[d].began
    BY <2>1 DEF CfgInv, A!DeletedStaysGone
  <2>3. s # r /\ req'[s] = req[s]
    BY <1>4, <2>2
  <2> QED
    BY <1>3, <2>1, <2>2, <2>3
<1>13. \A x \in Agents : (\E s \in Requests : CfgWrote(req, s) /\ req[s].a = x)
                         => \E s \in Requests : CfgWrote(req', s) /\ req'[s].a = x
  BY <1>4 DEF CfgWrote
<1>14. A!RunnersHaveAgents' /\ DocsHaveWriters'
  BY <1>13 DEF CfgInv, A!RunnersHaveAgents, DocsHaveWriters, CfgWrote
<1> QED
  BY <1>6, <1>8, <1>11, <1>12, <1>14 DEF CfgInv

\* A request writes: it met those that read before, so what others have read stands
\* in no way of what it wrote alone.
LEMMA CfgWrites ==
  ASSUME RequestsAssumption, CfgInv, NEW r \in Requests, A!Write(r) PROVE CfgInv'
<1> DEFINE a == req[r].a
           new == A!Written(r)
<1>1. /\ CfgTypes /\ req \in [Requests -> CfgRequest] /\ doc \in [Agents -> A!Doc \cup {None}]
      /\ req[r] \in CfgRequest /\ req[r].pc = "write" /\ InOrder(req, cfgMet)
  BY DEF CfgInv, CfgTypes, A!Write, A!Open
<1>2. a \in Agents /\ req[r].op \in {"create", "patch", "delete", "forced"} /\ r \in Begun(req) /\ r \in Writing(req)
  BY <1>1 DEF CfgTypes, Begun, Writing, CfgRequest
<1>3. /\ doc' = [doc EXCEPT ![a] = new] /\ req' = [req EXCEPT ![r].pc = "over"]
      /\ UNCHANGED <<file, runner, cfgMet>>
  BY DEF A!Write
<1>4. /\ new \in A!Doc \cup {None}
      /\ req[r].op \in {"create", "patch"} => new \in A!Doc /\ new # None /\ new[req[r].field] = r
      /\ req[r].op = "create" => new["body"] = r /\ new["model"] = r
      /\ req[r].op \in {"delete", "forced"} => new = None
      /\ \A f \in {"body", "model"} \ {req[r].field} :
           req[r].op = "patch" /\ req[r].copy # None => new[f] = req[r].copy[f]
  <2>1. CASE req[r].op = "create"
    <3>1. new = [body |-> r, model |-> r, standalone |-> TRUE]
      BY <2>1 DEF A!Written
    <3> HIDE DEF new
    <3>2. new \in A!Doc /\ new["body"] = r /\ new["model"] = r
      BY <3>1 DEF A!Doc
    <3>3. req[r].field \in {"body", "model"}
      BY <1>1 DEF CfgRequest
    <3> QED
      BY <2>1, <3>2, <3>3, NoneIsNoDoc
  <2>2. CASE req[r].op = "patch"
    <3> DEFINE old == IF req[r].copy = None THEN A!NewDoc ELSE req[r].copy
    <3>1. new = [old EXCEPT ![req[r].field] = r]
      BY <2>2 DEF A!Written
    <3>2. old \in A!Doc /\ req[r].field \in {"body", "model"}
      BY <1>1 DEF CfgRequest, A!Doc, A!NewDoc
    <3>3. /\ new \in A!Doc /\ new[req[r].field] = r
          /\ \A f \in {"body", "model"} \ {req[r].field} : new[f] = old[f]
      <4> HIDE DEF old, new
      <4>1. CASE req[r].field = "body"
        BY <3>1, <3>2, <4>1 DEF A!Doc
      <4>2. CASE req[r].field = "model"
        BY <3>1, <3>2, <4>2 DEF A!Doc
      <4> QED
        BY <3>2, <4>1, <4>2
    <3> QED
      BY <2>2, <3>3, NoneIsNoDoc
  <2>3. CASE req[r].op \in {"delete", "forced"}
    BY <2>3 DEF A!Written
  <2> QED
    BY <1>2, <2>1, <2>2, <2>3
<1> HIDE DEF new
<1>5. /\ req'[r].pc = "over" /\ req'[r].op = req[r].op /\ req'[r].a = a /\ req'[r].field = req[r].field
      /\ req'[r].began = req[r].began /\ req'[r].copy = req[r].copy /\ req'[r] \in CfgRequest
      /\ \A s \in Requests : s # r => req'[s] = req[s]
  BY <1>1, <1>3 DEF CfgRequest
<1>6. /\ doc'[a] = new /\ \A x \in Agents : x # a => doc'[x] = doc[x]
      /\ \A x \in Agents : doc'[x] \in A!Doc \cup {None}
  BY <1>1, <1>2, <1>3, <1>4
<1>7. InOrder(req', cfgMet)
  BY <1>1, <1>5, OrderGoesOn
<1>8. CfgForward(req, req')
  BY <1>5 DEF CfgForward
<1>9. CfgTypes'
  <2>1. req' \in [Requests -> CfgRequest] /\ doc' \in [Agents -> A!Doc \cup {None}]
    BY <1>1, <1>3, <1>4, <1>5
  <2>2. \A s \in Begun(req') : s \in Begun(req) /\ req'[s].a = req[s].a /\ req'[s].op = req[s].op
    BY <1>1, <1>5 DEF Begun
  <2> QED
    BY <1>1, <1>3, <2>1, <2>2 DEF CfgTypes
<1>10. \A s \in Requests : s # r => CfgWrote(req', s) = CfgWrote(req, s)
  BY <1>5 DEF CfgWrote
<1>11. \A s \in Requests : A!Alone(s)' <=> A!Alone(s)
  BY <1>3 DEF A!Alone
<1>12. Writing(req') = Writing(req) \ {r} /\ \A s \in Writing(req') : req'[s] = req[s] /\ s \in Requests
  BY <1>5 DEF Writing
<1>13. CfgKept'
  <2> SUFFICES ASSUME NEW s \in Requests, CfgWrote(req', s), A!Alone(s)
               PROVE  /\ CfgStands(req', s, doc'[req'[s].a]) \/ CfgRemoved(req', s)
                      /\ \A t \in Writing(req') : req'[t].a = req'[s].a =>
                            CfgStands(req', s, req'[t].copy) \/ CfgRemoved(req', s)
    BY <1>11 DEF CfgKept
  <2>1. CASE s = r
    <3>1. new # None /\ new[req[r].field] = r
      BY <1>4, <1>5, <2>1 DEF CfgWrote
    <3>2. CfgStands(req', s, doc'[req'[s].a])
      BY <1>5, <1>6, <2>1, <3>1 DEF CfgStands
    <3>3. Writing(req') = {}
      BY <1>1, <1>2, <1>12, <2>1 DEF InOrder, A!Alone
    <3> QED
      BY <3>2, <3>3
  <2>2. CASE s # r
    <3>1. CfgWrote(req, s) /\ req'[s] = req[s]
      BY <1>5, <1>10, <2>2
    <3>2. req[s].pc = "over" /\ req[s] \in CfgRequest /\ req[s].a \in Agents /\ req[s].field \in {"body", "model"}
          /\ s \in Begun(req) \ Writing(req)
      BY <1>1, <3>1 DEF CfgWrote, CfgTypes, Begun, CfgRequest, Writing
    <3>3. /\ \A x \in A!Doc \cup {None} : CfgStands(req, s, x) => CfgStands(req', s, x)
          /\ CfgRemoved(req, s) => CfgRemoved(req', s)
      BY <1>1, <1>8, <3>2, CfgCarries
    <3>4. /\ CfgStands(req, s, doc[req[s].a]) \/ CfgRemoved(req, s)
          /\ \A t \in Writing(req) : req[t].a = req[s].a => CfgStands(req, s, req[t].copy) \/ CfgRemoved(req, s)
      BY <3>1 DEF CfgInv, CfgKept
    <3>5. \A t \in Writing(req') : req'[t].a = req'[s].a =>
                            CfgStands(req', s, req'[t].copy) \/ CfgRemoved(req', s)
      <4>1. \A t \in Writing(req') : req'[t].copy \in A!Doc \cup {None}
        BY <1>1, <1>12 DEF CfgRequest
      <4> QED
        BY <1>12, <3>1, <3>3, <3>4, <4>1
    <3>6. CfgStands(req', s, doc'[req'[s].a]) \/ CfgRemoved(req', s)
      <4>1. CASE req[s].a # a
        BY <1>1, <1>6, <3>1, <3>2, <3>3, <3>4, <4>1
      <4>2. CASE req[s].a = a
        <5>1. req[r].began > req[s].began
          BY <1>1, <1>2, <2>2, <3>2 DEF InOrder, A!Alone
        <5>2. CASE req[r].op \in {"delete", "forced"}
          BY <1>5, <3>1, <4>2, <5>1, <5>2 DEF CfgRemoved
        <5>3. CASE req[r].op = "create" \/ (req[r].op = "patch" /\ req[r].field = req[s].field)
          <6>1. new # None /\ new[req[s].field] = r
            BY <1>4, <3>2, <5>3
          <6>2. r # Unset
            BY DEF RequestsAssumption
          <6> QED
            BY <1>5, <1>6, <3>1, <4>2, <5>1, <6>1, <6>2 DEF CfgStands
        <5>4. CASE req[r].op = "patch" /\ req[r].field # req[s].field
          <6>1. CfgStands(req', s, req[r].copy) \/ CfgRemoved(req', s)
            BY <1>1, <1>2, <3>3, <3>4, <4>2 DEF CfgRequest
          <6>2. CASE CfgStands(req', s, req[r].copy)
            <7>1. req[r].copy # None /\ new # None /\ new[req[s].field] = req[r].copy[req[s].field]
              BY <1>4, <3>2, <5>4, <6>2 DEF CfgStands
            <7> QED
              BY <1>6, <3>1, <4>2, <6>2, <7>1 DEF CfgStands
          <6> QED
            BY <6>1, <6>2
        <5> QED
          BY <1>2, <5>2, <5>3, <5>4
      <4> QED
        BY <4>1, <4>2
    <3> QED
      BY <3>5, <3>6
  <2> QED
    BY <2>1, <2>2
<1>14. A!DeletedStaysGone'
  <2> SUFFICES ASSUME NEW d \in Requests, req'[d].op \in {"delete", "forced"}, req'[d].pc = "over",
                      doc'[req'[d].a] # None
               PROVE  \E s \in Requests : /\ req'[s].op \in {"create", "patch"} /\ req'[s].pc = "over"
                                          /\ req'[s].a = req'[d].a
                                          /\ {s, d} \in cfgMet' \/ req'[s].began > req'[d].began
    BY DEF A!DeletedStaysGone
  <2>1. d # r /\ req'[d] = req[d]
    BY <1>4, <1>5, <1>6
  <2>2. req[d] \in CfgRequest /\ req[d].a \in Agents /\ d \in Begun(req) \ Writing(req)
    BY <1>1, <2>1 DEF CfgTypes, Begun, Writing
  <2>3. CASE req[d].a = a
    <3>1. req[r].op \in {"create", "patch"}
      BY <1>2, <1>4, <1>6, <2>1, <2>3
    <3>2. {d, r} \in cfgMet \/ req[r].began > req[d].began
      BY <1>1, <1>2, <2>2 DEF InOrder
    <3>3. {d, r} = {r, d}
      OBVIOUS
    <3> QED
      BY <1>3, <1>5, <2>1, <2>3, <3>1, <3>2, <3>3
  <2>4. CASE req[d].a # a
    <3>1. PICK s \in Requests : /\ req[s].op \in {"create", "patch"} /\ req[s].pc = "over" /\ req[s].a = req[d].a
                                /\ {s, d} \in cfgMet \/ req[s].began > req[d].began
      BY <1>6, <2>1, <2>2, <2>4 DEF CfgInv, A!DeletedStaysGone
    <3>2. s # r /\ req'[s] = req[s]
      BY <1>1, <1>5, <3>1
    <3> QED
      BY <1>3, <2>1, <3>1, <3>2
  <2> QED
    BY <2>3, <2>4
<1>15. \A x \in Agents : (\E s \in Requests : CfgWrote(req, s) /\ req[s].a = x)
                         => \E s \in Requests : CfgWrote(req', s) /\ req'[s].a = x
  BY <1>1, <1>5 DEF CfgWrote
<1>16. A!RunnersHaveAgents'
  BY <1>3, <1>15 DEF CfgInv, A!RunnersHaveAgents, CfgWrote
<1>17. DocsHaveWriters'
  <2> SUFFICES ASSUME NEW x \in Agents, doc'[x] # None
               PROVE  \E s \in Requests : CfgWrote(req', s) /\ req'[s].a = x
    BY DEF DocsHaveWriters
  <2>1. CASE x = a
    <3>1. CfgWrote(req', r)
      BY <1>2, <1>4, <1>5, <1>6, <2>1 DEF CfgWrote
    <3> QED
      BY <1>5, <2>1, <3>1
  <2>2. CASE x # a
    BY <1>6, <1>15, <2>2 DEF CfgInv, DocsHaveWriters
  <2> QED
    BY <2>1, <2>2
<1> QED
  BY <1>3, <1>7, <1>9, <1>13, <1>14, <1>16, <1>17 DEF CfgInv

\* Requests end, and runners or files come and go, while the documents stay.
LEMMA CfgEnds ==
  ASSUME RequestsAssumption, CfgInv, UNCHANGED <<doc, cfgMet>>, req' \in [Requests -> CfgRequest],
         \A r \in Requests : /\ req'[r].op = req[r].op /\ req'[r].a = req[r].a /\ req'[r].field = req[r].field
                             /\ req'[r].copy = req[r].copy /\ req'[r].began = req[r].began
                             /\ req'[r].pc = req[r].pc \/ (req[r].pc = "write" /\ req'[r].pc = "failed"),
         runner' \in [Agents -> A!Doc \cup {None}], file \subseteq file',
         \A a \in Agents : runner'[a] # None => runner[a] # None \/ a \in file \/ doc[a] # None
  PROVE  CfgInv'
<1>1. CfgTypes /\ req \in [Requests -> CfgRequest] /\ InOrder(req, cfgMet)
  BY DEF CfgInv, CfgTypes
<1>2. InOrder(req', cfgMet)
  BY <1>1, OrderGoesOn
<1>3. CfgForward(req, req')
  BY DEF CfgForward
<1>4. CfgTypes'
  <2>1. Begun(req') = Begun(req) /\ Begun(req) \subseteq Requests
    BY <1>1 DEF Begun
  <2> QED
    BY <1>1, <2>1 DEF CfgTypes
<1>5. \A s \in Requests : CfgWrote(req', s) => CfgWrote(req, s)
  BY DEF CfgWrote
<1>6. \A s \in Writing(req') : s \in Writing(req) /\ req[s].copy \in A!Doc \cup {None}
  BY <1>1 DEF Writing, CfgRequest
<1>7. CfgKept'
  <2> SUFFICES ASSUME NEW s \in Requests, CfgWrote(req', s), A!Alone(s)'
               PROVE  /\ CfgStands(req', s, doc[req'[s].a]) \/ CfgRemoved(req', s)
                      /\ \A t \in Writing(req') : req'[t].a = req'[s].a =>
                            CfgStands(req', s, req'[t].copy) \/ CfgRemoved(req', s)
    BY DEF CfgKept
  <2>1. CfgWrote(req, s) /\ A!Alone(s)
    BY <1>5 DEF A!Alone
  <2>2. req[s].pc # "idle" /\ req[s].a \in Agents /\ req[s].field \in {"body", "model"}
    BY <1>1, <2>1 DEF CfgWrote, CfgTypes, Begun, CfgRequest
  <2>3. /\ \A x \in A!Doc \cup {None} : CfgStands(req, s, x) => CfgStands(req', s, x)
        /\ CfgRemoved(req, s) => CfgRemoved(req', s)
    BY <1>1, <1>3, <2>2, CfgCarries
  <2>4. /\ CfgStands(req, s, doc[req[s].a]) \/ CfgRemoved(req, s)
        /\ \A t \in Writing(req) : req[t].a = req[s].a => CfgStands(req, s, req[t].copy) \/ CfgRemoved(req, s)
    BY <2>1 DEF CfgInv, CfgKept
  <2>5. doc[req[s].a] \in A!Doc \cup {None}
    BY <1>1, <2>2 DEF CfgTypes
  <2>6. ASSUME NEW t \in Writing(req'), req'[t].a = req'[s].a
        PROVE  CfgStands(req', s, req'[t].copy) \/ CfgRemoved(req', s)
    <3>1. t \in Requests /\ t \in Writing(req) /\ req[t].copy \in A!Doc \cup {None}
      BY <1>6 DEF Writing
    <3>2. req'[t].copy = req[t].copy /\ req[t].a = req[s].a
      BY <2>6, <3>1
    <3> QED
      BY <2>3, <2>4, <3>1, <3>2
  <2> QED
    BY <2>3, <2>4, <2>5, <2>6
<1>8. A!DeletedStaysGone'
  <2> SUFFICES ASSUME NEW d \in Requests, req'[d].op \in {"delete", "forced"}, req'[d].pc = "over",
                      doc[req'[d].a] # None
               PROVE  \E s \in Requests : /\ req'[s].op \in {"create", "patch"} /\ req'[s].pc = "over"
                                          /\ req'[s].a = req'[d].a
                                          /\ {s, d} \in cfgMet' \/ req'[s].began > req'[d].began
    BY DEF A!DeletedStaysGone
  <2>1. PICK s \in Requests : /\ req[s].op \in {"create", "patch"} /\ req[s].pc = "over" /\ req[s].a = req[d].a
                              /\ {s, d} \in cfgMet \/ req[s].began > req[d].began
    BY DEF CfgInv, A!DeletedStaysGone
  <2> QED
    BY <2>1
<1>9. \A x \in Agents : (\E s \in Requests : CfgWrote(req, s) /\ req[s].a = x)
                        => \E s \in Requests : CfgWrote(req', s) /\ req'[s].a = x
  BY DEF CfgWrote
<1>10. A!RunnersHaveAgents'
  BY <1>9 DEF CfgInv, A!RunnersHaveAgents, CfgWrote, DocsHaveWriters
<1>11. DocsHaveWriters'
  BY <1>9 DEF CfgInv, DocsHaveWriters
<1> QED
  BY <1>2, <1>4, <1>7, <1>8, <1>10, <1>11 DEF CfgInv

LEMMA CfgNexts ==
  ASSUME RequestsAssumption, CfgInv, [A!CfgNext]_cfgVars PROVE CfgInv'
<1>1. /\ CfgTypes /\ req \in [Requests -> CfgRequest] /\ runner \in [Agents -> A!Doc \cup {None}]
      /\ doc \in [Agents -> A!Doc \cup {None}]
  BY DEF CfgInv, CfgTypes
<1>2. ASSUME NEW r \in Requests, A!BeginCreate(r) \/ A!BeginPatch(r) \/ A!BeginDelete(r) PROVE CfgInv'
  <2>1. PICK op \in {"create", "patch", "delete", "forced"}, a \in Agents, field \in {"body", "model"} :
          /\ op = "delete" => a \notin Protected
          /\ A!Under(r, op, a, field)
    <3>1. CASE A!BeginCreate(r)
      BY <3>1 DEF A!BeginCreate
    <3>2. CASE A!BeginPatch(r)
      BY <3>2 DEF A!BeginPatch
    <3>3. CASE A!BeginDelete(r)
      BY <3>3 DEF A!BeginDelete
    <3> QED
      BY <1>2, <3>1, <3>2, <3>3
  <2>2. req[r].pc = "idle" /\ UNCHANGED <<file, doc, runner>>
    BY <1>2 DEF A!BeginCreate, A!BeginPatch, A!BeginDelete
  <2> QED
    BY <2>1, <2>2, CfgBegins
<1>3. ASSUME NEW r \in Requests, A!WriteFails(r) PROVE CfgInv'
  <2>1. /\ req' = [req EXCEPT ![r].pc = "failed"] /\ req[r].pc = "write" /\ req[r] \in CfgRequest
        /\ UNCHANGED <<file, doc, runner, cfgMet>>
    BY <1>1, <1>3 DEF A!WriteFails, A!Open
  <2>2. req' \in [Requests -> CfgRequest]
    BY <1>1, <2>1 DEF CfgRequest
  <2>3. \A s \in Requests : req'[s] = IF s = r THEN [req[r] EXCEPT !.pc = "failed"] ELSE req[s]
    BY <1>1, <2>1
  <2>4. \A s \in Requests : /\ req'[s].op = req[s].op /\ req'[s].a = req[s].a /\ req'[s].field = req[s].field
                            /\ req'[s].copy = req[s].copy /\ req'[s].began = req[s].began
                            /\ req'[s].pc = req[s].pc \/ (req[s].pc = "write" /\ req'[s].pc = "failed")
    BY <2>1, <2>3 DEF CfgRequest
  <2> QED
    BY <1>1, <2>1, <2>2, <2>4, CfgEnds
<1>4. ASSUME NEW a \in Agents, A!WriteFile(a) PROVE CfgInv'
  <2>1. UNCHANGED <<doc, req, runner, cfgMet>> /\ file \subseteq file'
    BY <1>4 DEF A!WriteFile
  <2> QED
    BY <1>1, <2>1, CfgEnds
<1>5. ASSUME NEW a \in Agents, A!Run(a) PROVE CfgInv'
  <2> DEFINE to == IF doc[a] = None THEN A!NewDoc ELSE doc[a]
  <2>1. UNCHANGED <<doc, req, file, cfgMet>> /\ runner' = [runner EXCEPT ![a] = to] /\ (a \in file \/ doc[a] # None)
    BY <1>5 DEF A!Run
  <2>2. to \in A!Doc \cup {None}
    BY <1>1 DEF A!NewDoc, A!Doc
  <2>3. /\ runner' \in [Agents -> A!Doc \cup {None}]
        /\ \A b \in Agents : runner'[b] # None => runner[b] # None \/ b \in file \/ doc[b] # None
    BY <1>1, <2>1, <2>2
  <2> QED
    BY <1>1, <2>1, <2>3, CfgEnds
<1>6. CASE A!Restart
  <2>1. /\ runner' = [a \in Agents |-> None] /\ UNCHANGED <<file, doc, cfgMet>>
        /\ req' = [r \in Requests |-> IF req[r].pc = "write" THEN [req[r] EXCEPT !.pc = "failed"] ELSE req[r]]
    BY <1>6 DEF A!Restart, A!Open
  <2>2. /\ runner' \in [Agents -> A!Doc \cup {None}] /\ \A a \in Agents : runner'[a] = None
    BY <2>1
  <2>3. \A s \in Requests : req'[s] = IF req[s].pc = "write" THEN [req[s] EXCEPT !.pc = "failed"] ELSE req[s]
    BY <2>1
  <2>4. \A s \in Requests : /\ req'[s] \in CfgRequest
                            /\ req'[s].op = req[s].op /\ req'[s].a = req[s].a /\ req'[s].field = req[s].field
                            /\ req'[s].copy = req[s].copy /\ req'[s].began = req[s].began
                            /\ req'[s].pc = req[s].pc \/ (req[s].pc = "write" /\ req'[s].pc = "failed")
    <3> SUFFICES ASSUME NEW s \in Requests
                 PROVE  /\ req'[s] \in CfgRequest
                        /\ req'[s].op = req[s].op /\ req'[s].a = req[s].a /\ req'[s].field = req[s].field
                        /\ req'[s].copy = req[s].copy /\ req'[s].began = req[s].began
                        /\ req'[s].pc = req[s].pc \/ (req[s].pc = "write" /\ req'[s].pc = "failed")
      OBVIOUS
    <3>1. req[s] \in CfgRequest
      BY <1>1
    <3> QED
      BY <2>3, <3>1 DEF CfgRequest
  <2>5. req' \in [Requests -> CfgRequest]
    BY <2>1, <2>4
  <2> QED
    BY <2>1, <2>2, <2>4, <2>5, CfgEnds
<1>7. CASE UNCHANGED cfgVars
  <2>1. UNCHANGED <<file, doc, req, runner, cfgMet>>
    BY <1>7 DEF cfgVars
  <2> QED
    BY <1>1, <2>1, CfgEnds
<1> QED
  BY <1>2, <1>3, <1>4, <1>5, <1>6, <1>7, CfgWrites DEF A!CfgNext

LEMMA CfgImplies ==
  ASSUME CfgInv PROVE A!CfgTypeOK /\ A!PatchesStay /\ A!DeletedStaysGone /\ A!RunnersHaveAgents
<1>1. \A r \in Requests : req[r] \in CfgRequest
  BY DEF CfgInv, CfgTypes
<1>2. A!CfgTypeOK
  BY <1>1 DEF CfgInv, CfgTypes, CfgRequest, A!CfgTypeOK
<1>3. A!PatchesStay
  BY <1>1 DEF CfgInv, CfgKept, CfgWrote, CfgStands, CfgRemoved, A!PatchesStay
<1> QED
  BY <1>2, <1>3 DEF CfgInv

\* Only the writing of a deletion takes a document away, and only a forced one of a
\* protected agent gets as far as that.
LEMMA ForceNeeded ==
  ASSUME RequestsAssumption, CfgInv, [A!CfgNext]_cfgVars, NEW a \in Protected, doc[a] # None, doc'[a] = None
  PROVE  \E r \in Requests : req[r].op = "forced" /\ req[r].a = a /\ req[r].pc = "write"
<1>1. /\ CfgTypes /\ req \in [Requests -> CfgRequest] /\ doc \in [Agents -> A!Doc \cup {None}]
  BY DEF CfgInv, CfgTypes
<1>2. PICK r \in Requests : A!Write(r)
  BY DEF A!CfgNext, A!BeginCreate, A!BeginPatch, A!BeginDelete, A!WriteFails, A!WriteFile, A!Run, A!Restart, cfgVars
<1>3. /\ req[r].pc = "write" /\ doc' = [doc EXCEPT ![req[r].a] = A!Written(r)] /\ r \in Begun(req)
  BY <1>2 DEF A!Write, A!Open, Begun
<1>4. req[r].a = a /\ A!Written(r) = None
  BY <1>1, <1>3
<1>5. req[r].op # "create"
  <2>1. [body |-> r, model |-> r, standalone |-> TRUE] \in A!Doc
    BY DEF A!Doc
  <2> QED
    BY <1>4, <2>1, NoneIsNoDoc DEF A!Written
<1>6. req[r].op # "patch"
  <2> DEFINE old == IF req[r].copy = None THEN A!NewDoc ELSE req[r].copy
  <2>1. old \in A!Doc /\ req[r].field \in {"body", "model"}
    BY <1>1 DEF CfgRequest, A!Doc, A!NewDoc
  <2>2. [old EXCEPT ![req[r].field] = r] \in A!Doc
    <3> HIDE DEF old
    <3>1. CASE req[r].field = "body"
      BY <2>1, <3>1 DEF A!Doc
    <3>2. CASE req[r].field = "model"
      BY <2>1, <3>2 DEF A!Doc
    <3> QED
      BY <2>1, <3>1, <3>2
  <2>3. req[r].op = "patch" => A!Written(r) = [old EXCEPT ![req[r].field] = r]
    BY DEF A!Written
  <2> QED
    BY <1>4, <2>2, <2>3, NoneIsNoDoc
<1> QED
  BY <1>1, <1>3, <1>4, <1>5, <1>6 DEF CfgTypes, CfgRequest

\* What one request stored or deleted stands until another request, no later patch
\* of another field takes it back, and a protected agent loses its override only by
\* force (AgentConfigService.upsert_override, delete_override).
THEOREM ConfigurationsStand == Spec => ConfigurationStands
<1>1. Init => CfgInv
  BY RequestsAssumption, CfgStarts DEF Init
<1>2. [Next]_allVars => [A!CfgNext]_cfgVars
  BY DEF Next, allVars, shelfVars, skillVars, cfgVars
<1>3. CfgInv /\ [Next]_allVars => CfgInv'
  BY <1>2, RequestsAssumption, CfgNexts
<1>4. CfgInv => A!CfgTypeOK /\ A!PatchesStay /\ A!DeletedStaysGone /\ A!RunnersHaveAgents
  BY CfgImplies
<1>5. CfgInv /\ [Next]_allVars =>
        [\A a \in Protected : (doc[a] # None /\ doc'[a] = None) =>
           \E r \in Requests : req[r].op = "forced" /\ req[r].a = a /\ req[r].pc = "write"]_A!cfgVars
  BY <1>2, RequestsAssumption, ForceNeeded
<1> QED
  BY <1>1, <1>3, <1>4, <1>5, PTL
     DEF Spec, allVars, ConfigurationStands, A!ConfigurationStands, A!ProtectedNeedForce

-----------------------------------------------------------------------------
(* Skills.                                                                 *)

SkillNames == {"shipped", "own"}

SkillDoc ==
  [source : {"builtin", "custom"}, text : Requests \cup {"disk"}, grants : Requests \cup {"disk"}]

SkillRequest ==
  [op : {"none", "create", "patch", "delete"}, n : SkillNames \cup {None}, field : {"text", "grants"},
   copy : SkillDoc \cup {None}, pc : {"idle", "write", "over", "past", "failed"}, began : Nat]

SkillTypes ==
  /\ skill \in [SkillNames -> SkillDoc \cup {None}] /\ skillReq \in [Requests -> SkillRequest]
  /\ skillBoot \subseteq DirsDef
  /\ \A r \in Begun(skillReq) : skillReq[r].n \in SkillNames /\ skillReq[r].op # "none"
  /\ \A r \in Writing(skillReq) : skillReq[r].op = "patch" => skillReq[r].copy # None
  /\ skillBoot # {} => \A r \in Requests : skillReq[r].pc \notin {"write", "over"}

SkillDone(q, r) == q[r].pc \in {"over", "past"}
SkillWrote(q, r) == SkillDone(q, r) /\ q[r].op \in {"create", "patch"}
SkillCreated(q, r) == SkillDone(q, r) /\ q[r].op = "create"
SkillDeleted(q, r) == SkillDone(q, r) /\ q[r].op = "delete"

SkillFields(q, r) == IF q[r].op = "create" THEN {"text", "grants"} ELSE {q[r].field}

SkillStands(q, r, x) ==
  /\ x # None
  /\ \A f \in SkillFields(q, r) : x[f] = r \/ (x[f] \in Requests /\ q[x[f]].began > q[r].began)

SkillRemoved(q, r) ==
  \E d \in Requests : SkillDeleted(q, d) /\ q[d].n = q[r].n /\ q[d].began > q[r].began

\* What a request wrote alone stands, stored and in every copy yet to be written back.
SkillKept ==
  \A r \in Requests : SkillWrote(skillReq, r) /\ D!Alone(r) =>
    /\ SkillStands(skillReq, r, skill[skillReq[r].n]) \/ SkillRemoved(skillReq, r)
    /\ \A s \in Writing(skillReq) : skillReq[s].n = skillReq[r].n =>
         SkillStands(skillReq, r, skillReq[s].copy) \/ SkillRemoved(skillReq, r)

BadgeIsTrue(q, n, x) ==
  x # None => IF x.source = "builtin" THEN D!Shipped(n) ELSE \E r \in Requests : SkillCreated(q, r) /\ q[r].n = n

BadgesHold ==
  /\ \A n \in SkillNames : BadgeIsTrue(skillReq, n, skill[n])
  /\ \A s \in Writing(skillReq) : BadgeIsTrue(skillReq, skillReq[s].n, skillReq[s].copy)

\* The deletion of d comes after r, or they met.
SkillTaken(q, m, r) ==
  \E d \in Requests : /\ SkillDeleted(q, d) /\ q[d].n = q[r].n
                      /\ q[d].began > q[r].began \/ {d, r} \in m

\* A name that was created is free only by a deletion.
FreedByDeletion ==
  \A r \in Requests : SkillCreated(skillReq, r) /\ skill[skillReq[r].n] = None => SkillTaken(skillReq, skillMet, r)

\* A request that has begun to create what another one had created.
CreatesAgain ==
  \A r \in Requests, s \in Begun(skillReq) :
    /\ SkillCreated(skillReq, r) /\ skillReq[s].op = "create" /\ skillReq[r].n = skillReq[s].n
    /\ skillReq[s].began > skillReq[r].began /\ {r, s} \notin skillMet
    => SkillTaken(skillReq, skillMet, r)

\* What brought a deleted skill back.
SkillBack(q, m, d) ==
  \/ q[d].pc = "past" /\ D!Shipped(q[d].n)
  \/ \E r \in Requests : /\ SkillDone(q, r) /\ q[r].op # "delete" /\ q[r].n = q[d].n
                         /\ {r, d} \in m \/ q[r].began > q[d].began

DeletedSkillsStayAway ==
  \A d \in Requests : SkillDeleted(skillReq, d) /\ skill[skillReq[d].n] # None => SkillBack(skillReq, skillMet, d)

SkillInv ==
  /\ SkillTypes /\ InOrder(skillReq, skillMet) /\ SkillKept /\ BadgesHold
  /\ FreedByDeletion /\ CreatesAgain /\ DeletedSkillsStayAway

LEMMA SkillsStart == ASSUME RequestsAssumption, D!SkillInit PROVE SkillInv
<1>1. /\ D!Idle \in SkillRequest /\ D!Idle.pc = "idle" /\ D!Idle.began = 0
      /\ \A r \in Requests : skillReq[r] = D!Idle
  BY DEF D!SkillInit, D!Idle, SkillRequest
<1>2. Begun(skillReq) = {} /\ Writing(skillReq) = {} /\ \A r \in Requests : ~SkillDone(skillReq, r)
  BY <1>1 DEF Begun, Writing, SkillDone
<1>3. SkillTypes
  BY <1>1, <1>2 DEF D!SkillInit, SkillTypes, SkillNames
<1>4. InOrder(skillReq, skillMet)
  BY <1>1, <1>2 DEF InOrder
<1>5. BadgesHold
  BY <1>2 DEF D!SkillInit, BadgesHold, BadgeIsTrue, SkillNames
<1> QED
  BY <1>2, <1>3, <1>4, <1>5 DEF SkillInv, SkillKept, SkillWrote, SkillCreated, SkillDeleted, FreedByDeletion, CreatesAgain,
                                DeletedSkillsStayAway

\* Requests that have begun stay what they are, and those that are done are done.
SkillForward(q, p) ==
  \A r \in Requests :
    q[r].pc # "idle" => /\ p[r].began = q[r].began /\ p[r].n = q[r].n /\ p[r].field = q[r].field /\ p[r].op = q[r].op
                        /\ q[r].pc = "past" => p[r].pc = "past"
                        /\ q[r].pc = "over" => p[r].pc \in {"over", "past"}

LEMMA SkillCarries ==
  ASSUME NEW q, NEW p, NEW m, NEW l, SkillForward(q, p), InOrder(q, m), m \subseteq l, NEW r \in Requests,
         q[r].pc # "idle"
  PROVE  /\ \A x : SkillStands(q, r, x) => SkillStands(p, r, x)
         /\ SkillRemoved(q, r) => SkillRemoved(p, r)
         /\ SkillDone(q, r) => SkillDone(p, r)
         /\ SkillTaken(q, m, r) => SkillTaken(p, l, r)
         /\ SkillBack(q, m, r) => SkillBack(p, l, r)
         /\ p[r].began = q[r].began /\ p[r].n = q[r].n /\ p[r].op = q[r].op
<1>1. \A s \in Requests : q[s].began \in Nat /\ (q[s].pc = "idle" => q[s].began = 0)
  BY DEF InOrder, Begun
<1>2. p[r].began = q[r].began /\ p[r].field = q[r].field /\ p[r].n = q[r].n /\ p[r].op = q[r].op
  BY DEF SkillForward
<1>3. \A s \in Requests : q[s].began > q[r].began => q[s].pc # "idle"
  BY <1>1
<1>4. \A s \in Requests : q[s].began > q[r].began => p[s].began > p[r].began
  BY <1>2, <1>3 DEF SkillForward
<1>5. \A s \in Requests : SkillDone(q, s) => SkillDone(p, s) /\ p[s].op = q[s].op /\ p[s].n = q[s].n
  BY DEF SkillForward, SkillDone
<1>6. \A x : SkillStands(q, r, x) => SkillStands(p, r, x)
  BY <1>2, <1>4 DEF SkillStands, SkillFields
<1>7. SkillRemoved(q, r) => SkillRemoved(p, r)
  BY <1>2, <1>4, <1>5 DEF SkillRemoved, SkillDeleted
<1>8. SkillTaken(q, m, r) => SkillTaken(p, l, r)
  BY <1>2, <1>4, <1>5 DEF SkillTaken, SkillDeleted
<1>9. SkillBack(q, m, r) => SkillBack(p, l, r)
  <2>1. q[r].pc = "past" => p[r].pc = "past"
    BY DEF SkillForward
  <2> QED
    BY <1>2, <1>4, <1>5, <2>1 DEF SkillBack
<1> QED
  BY <1>2, <1>5, <1>6, <1>7, <1>8, <1>9

LEMMA BadgeCarries ==
  ASSUME NEW q, NEW p, SkillForward(q, p), NEW n, NEW x, BadgeIsTrue(q, n, x) PROVE BadgeIsTrue(p, n, x)
<1>1. \A s \in Requests : SkillDone(q, s) => SkillDone(p, s) /\ p[s].op = q[s].op /\ p[s].n = q[s].n
  BY DEF SkillForward, SkillDone
<1> QED
  BY <1>1 DEF BadgeIsTrue, SkillCreated

LEMMA SkillBegins ==
  ASSUME RequestsAssumption, SkillInv, NEW r \in Requests, NEW op \in {"create", "patch", "delete"},
         NEW n \in SkillNames, NEW field \in {"text", "grants"}, IF op = "create" THEN skill[n] = None ELSE skill[n] # None,
         D!Begin(r, op, n, field)
  PROVE  SkillInv'
<1> DEFINE to == [op |-> op, n |-> n, field |-> field, copy |-> skill[n], pc |-> "write", began |-> D!Now]
<1>1. /\ SkillTypes /\ skillReq \in [Requests -> SkillRequest] /\ InOrder(skillReq, skillMet)
      /\ D!Now = Cardinality(Begun(skillReq)) /\ D!Now \in Nat
  <2>1. IsFiniteSet(Begun(skillReq))
    BY FS_Subset DEF Begun, RequestsAssumption
  <2>2. D!Now = Cardinality(Begun(skillReq))
    BY DEF D!Now, Begun, D!Cardinality, Cardinality
  <2> QED
    BY <2>1, <2>2, FS_CardinalityType DEF SkillInv, SkillTypes
<1>2. to \in SkillRequest /\ skill[n] \in SkillDoc \cup {None}
  BY <1>1 DEF SkillTypes, SkillRequest
<1>3. /\ skillReq' = [skillReq EXCEPT ![r] = to] /\ skillReq[r].pc = "idle" /\ skillBoot = {}
      /\ skillMet' = skillMet \cup {{r, s} : s \in Writing(skillReq)}
      /\ UNCHANGED <<skill, skillBoot>>
  BY DEF D!Begin, D!Open, Writing
<1>4. skillReq'[r] = to /\ \A s \in Requests : s # r => skillReq'[s] = skillReq[s]
  BY <1>1, <1>3
<1>5. Joins(skillReq, skillMet, skillReq', skillMet', r)
  BY <1>1, <1>3, <1>4 DEF Joins, Begun
<1>6. InOrder(skillReq', skillMet') /\ \A s \in Begun(skillReq) : skillReq'[r].began > skillReq'[s].began
  BY <1>1, <1>5, OrderBegins DEF RequestsAssumption
<1>7. SkillForward(skillReq, skillReq') /\ skillMet \subseteq skillMet'
  BY <1>3, <1>4 DEF SkillForward
<1>8. \A s \in Requests : /\ SkillDone(skillReq', s) <=> SkillDone(skillReq, s)
                          /\ SkillDone(skillReq, s) => s # r /\ skillReq'[s] = skillReq[s] /\ skillReq[s].pc # "idle"
                                                       /\ s \in Begun(skillReq)
  BY <1>3, <1>4 DEF SkillDone, Begun
<1>9. SkillTypes'
  <2>1. skillReq' \in [Requests -> SkillRequest]
    BY <1>1, <1>2, <1>3
  <2>2. \A s \in Begun(skillReq') : s = r \/ (s \in Begun(skillReq) /\ skillReq'[s] = skillReq[s])
    BY <1>4 DEF Begun
  <2>3. \A s \in Writing(skillReq') : s = r \/ (s \in Writing(skillReq) /\ skillReq'[s] = skillReq[s])
    BY <1>4 DEF Writing
  <2> QED
    BY <1>1, <1>3, <1>4, <2>1, <2>2, <2>3 DEF SkillTypes
<1>10. \A s \in Requests : D!Alone(s)' => D!Alone(s)
  BY <1>3 DEF D!Alone
<1>11. SkillKept'
  <2> SUFFICES ASSUME NEW s \in Requests, SkillWrote(skillReq', s), D!Alone(s)'
               PROVE  /\ SkillStands(skillReq', s, skill[skillReq'[s].n]) \/ SkillRemoved(skillReq', s)
                      /\ \A t \in Writing(skillReq') : skillReq'[t].n = skillReq'[s].n =>
                            SkillStands(skillReq', s, skillReq'[t].copy) \/ SkillRemoved(skillReq', s)
    BY <1>3 DEF SkillKept
  <2>1. s # r /\ SkillWrote(skillReq, s) /\ D!Alone(s) /\ skillReq'[s] = skillReq[s] /\ skillReq[s].pc # "idle"
    BY <1>8, <1>10 DEF SkillWrote
  <2>2. /\ \A x : SkillStands(skillReq, s, x) => SkillStands(skillReq', s, x)
        /\ SkillRemoved(skillReq, s) => SkillRemoved(skillReq', s)
    BY <1>1, <1>7, <2>1, SkillCarries
  <2>3. SkillStands(skillReq', s, skill[skillReq[s].n]) \/ SkillRemoved(skillReq', s)
    BY <2>1, <2>2 DEF SkillInv, SkillKept
  <2>4. ASSUME NEW t \in Writing(skillReq'), skillReq'[t].n = skillReq'[s].n
        PROVE  SkillStands(skillReq', s, skillReq'[t].copy) \/ SkillRemoved(skillReq', s)
    <3>1. CASE t = r
      BY <1>4, <2>1, <2>3, <2>4, <3>1
    <3>2. CASE t # r
      <4>1. t \in Writing(skillReq) /\ skillReq'[t] = skillReq[t]
        BY <1>4, <3>2 DEF Writing
      <4> QED
        BY <2>1, <2>2, <2>4, <4>1 DEF SkillInv, SkillKept
    <3> QED
      BY <3>1, <3>2
  <2> QED
    BY <2>1, <2>3, <2>4
<1>12. BadgesHold'
  <2>1. \A k \in SkillNames : BadgeIsTrue(skillReq', k, skill[k])
    BY <1>7, BadgeCarries DEF SkillInv, BadgesHold
  <2>2. \A s \in Writing(skillReq') : s = r \/ (s \in Writing(skillReq) /\ skillReq'[s] = skillReq[s])
    BY <1>4 DEF Writing
  <2>3. \A s \in Writing(skillReq) : BadgeIsTrue(skillReq', skillReq[s].n, skillReq[s].copy)
    BY <1>7, BadgeCarries DEF SkillInv, BadgesHold
  <2>4. skillReq'[r].n = n /\ skillReq'[r].copy = skill[n]
    BY <1>4
  <2>5. \A s \in Writing(skillReq') : BadgeIsTrue(skillReq', skillReq'[s].n, skillReq'[s].copy)
    BY <2>1, <2>2, <2>3, <2>4
  <2> QED
    BY <1>3, <2>1, <2>5 DEF BadgesHold
<1>13. \A s \in Requests : SkillDone(skillReq, s) =>
          /\ SkillTaken(skillReq, skillMet, s) => SkillTaken(skillReq', skillMet', s)
          /\ SkillBack(skillReq, skillMet, s) => SkillBack(skillReq', skillMet', s)
  BY <1>1, <1>7, <1>8, SkillCarries
<1>14. FreedByDeletion' /\ DeletedSkillsStayAway'
  BY <1>3, <1>8, <1>13 DEF SkillInv, FreedByDeletion, DeletedSkillsStayAway, SkillCreated, SkillDeleted
<1>15. CreatesAgain'
  <2> SUFFICES ASSUME NEW s \in Requests, NEW t \in Begun(skillReq'), SkillCreated(skillReq', s),
                      skillReq'[t].op = "create", skillReq'[s].n = skillReq'[t].n,
                      skillReq'[t].began > skillReq'[s].began, {s, t} \notin skillMet'
               PROVE  SkillTaken(skillReq', skillMet', s)
    BY DEF CreatesAgain
  <2>1. SkillCreated(skillReq, s) /\ SkillDone(skillReq, s) /\ skillReq'[s] = skillReq[s]
    BY <1>8 DEF SkillCreated
  <2>2. CASE t = r
    <3>1. skillReq'[t].op = op /\ skillReq'[t].n = n
      BY <1>4, <2>2
    <3>2. skill[skillReq[s].n] = None
      BY <2>1, <3>1
    <3> QED
      BY <1>13, <2>1, <3>2 DEF SkillInv, FreedByDeletion
  <2>3. CASE t # r
    <3>1. t \in Begun(skillReq) /\ skillReq'[t] = skillReq[t]
      BY <1>4, <2>3 DEF Begun
    <3> QED
      BY <1>7, <1>13, <2>1, <3>1 DEF SkillInv, CreatesAgain
  <2> QED
    BY <2>2, <2>3
<1> QED
  BY <1>6, <1>9, <1>11, <1>12, <1>14, <1>15 DEF SkillInv

\* A name without a document gets the one that ships.
LEMMA SkillLoads ==
  ASSUME RequestsAssumption, SkillInv, NEW d \in skillBoot, D!Load(d) \/ D!LoadFails(d) PROVE SkillInv'
<1>1. /\ SkillTypes /\ UNCHANGED <<skillReq, skillMet>> /\ skillBoot' \subseteq skillBoot /\ d \in DirsDef
  BY DEF SkillInv, SkillTypes, D!Load, D!LoadFails
<1>2. CASE UNCHANGED skill
  BY <1>1, <1>2 DEF SkillInv, SkillTypes, SkillKept, D!Alone, BadgesHold, FreedByDeletion, CreatesAgain,
                    DeletedSkillsStayAway
<1>3. CASE /\ d.loads /\ skill[d.name] = None
           /\ skill' = [skill EXCEPT ![d.name] = [source |-> "builtin", text |-> "disk", grants |-> "disk"]]
  <2> DEFINE new == [source |-> "builtin", text |-> "disk", grants |-> "disk"]
  <2>1. new \in SkillDoc /\ new.source = "builtin" /\ d.name \in SkillNames
    BY <1>1 DEF SkillDoc, DirsDef, SkillNames
  <2>2. /\ skill'[d.name] = new /\ \A n \in SkillNames : n # d.name => skill'[n] = skill[n]
        /\ skill' \in [SkillNames -> SkillDoc \cup {None}]
    BY <1>1, <1>3, <2>1 DEF SkillTypes
  <2> HIDE DEF new
  <2>3. D!Shipped(d.name)
    BY <1>1, <1>3 DEF D!Shipped
  <2>4. SkillTypes'
    BY <1>1, <2>2 DEF SkillTypes
  <2>5. \A r \in Requests : SkillDone(skillReq, r) => skillReq[r].pc = "past" /\ skillReq[r].n \in SkillNames
    BY <1>1 DEF SkillTypes, SkillDone, Begun
  <2>6. SkillKept'
    <3> SUFFICES ASSUME NEW r \in Requests, SkillWrote(skillReq, r), D!Alone(r)
                 PROVE  /\ SkillStands(skillReq, r, skill'[skillReq[r].n]) \/ SkillRemoved(skillReq, r)
                        /\ \A s \in Writing(skillReq) : skillReq[s].n = skillReq[r].n =>
                             SkillStands(skillReq, r, skillReq[s].copy) \/ SkillRemoved(skillReq, r)
      BY <1>1 DEF SkillKept, D!Alone
    <3>1. /\ SkillStands(skillReq, r, skill[skillReq[r].n]) \/ SkillRemoved(skillReq, r)
          /\ \A s \in Writing(skillReq) : skillReq[s].n = skillReq[r].n =>
               SkillStands(skillReq, r, skillReq[s].copy) \/ SkillRemoved(skillReq, r)
      BY DEF SkillInv, SkillKept
    <3>2. SkillStands(skillReq, r, skill[skillReq[r].n]) => skill[skillReq[r].n] # None
      BY DEF SkillStands
    <3>3. skillReq[r].n \in SkillNames
      BY <2>5 DEF SkillWrote
    <3> QED
      BY <1>3, <2>2, <3>1, <3>2, <3>3
  <2>7. BadgesHold'
    <3>1. \A n \in SkillNames : BadgeIsTrue(skillReq, n, skill'[n])
      BY <2>1, <2>2, <2>3 DEF SkillInv, BadgesHold, BadgeIsTrue
    <3> QED
      BY <1>1, <3>1 DEF SkillInv, BadgesHold
  <2>8. FreedByDeletion'
    <3> SUFFICES ASSUME NEW r \in Requests, SkillCreated(skillReq, r), skill'[skillReq[r].n] = None
                 PROVE  SkillTaken(skillReq, skillMet, r)
      BY <1>1 DEF FreedByDeletion
    <3>1. skillReq[r].n \in SkillNames
      BY <2>5 DEF SkillCreated
    <3>2. skill[skillReq[r].n] = None
      BY <1>3, <2>2, <3>1
    <3> QED
      BY <3>2 DEF SkillInv, FreedByDeletion
  <2>9. DeletedSkillsStayAway'
    <3> SUFFICES ASSUME NEW r \in Requests, SkillDeleted(skillReq, r), skill'[skillReq[r].n] # None
                 PROVE  SkillBack(skillReq, skillMet, r)
      BY <1>1 DEF DeletedSkillsStayAway
    <3>1. skillReq[r].n \in SkillNames /\ skillReq[r].pc = "past"
      BY <2>5 DEF SkillDeleted
    <3>2. CASE skillReq[r].n = d.name
      BY <2>3, <3>1, <3>2 DEF SkillBack
    <3>3. CASE skillReq[r].n # d.name
      BY <2>2, <3>1, <3>3 DEF SkillInv, DeletedSkillsStayAway
    <3> QED
      BY <3>2, <3>3
  <2> QED
    BY <1>1, <2>4, <2>6, <2>7, <2>8, <2>9 DEF SkillInv, CreatesAgain
<1> QED
  BY <1>2, <1>3 DEF D!Load, D!LoadFails

LEMMA SkillWritten ==
  ASSUME RequestsAssumption, NoneIsNoSkill, SkillTypes, NEW r \in Requests, skillReq[r].pc = "write"
  PROVE  /\ D!Written(r) \in SkillDoc \cup {None}
         /\ skillReq[r].op = "delete" => D!Written(r) = None
         /\ skillReq[r].op # "delete" =>
              /\ D!Written(r) # None /\ \A f \in SkillFields(skillReq, r) : D!Written(r)[f] = r
              /\ IF skillReq[r].op = "create" THEN D!Written(r).source = "custom"
                 ELSE /\ skillReq[r].copy # None /\ D!Written(r).source = skillReq[r].copy.source
                      /\ \A f \in {"text", "grants"} \ {skillReq[r].field} : D!Written(r)[f] = skillReq[r].copy[f]
<1> DEFINE new == D!Written(r)
           old == skillReq[r].copy
<1>1. skillReq[r] \in SkillRequest /\ r \in Begun(skillReq) /\ r \in Writing(skillReq)
  BY DEF SkillTypes, Begun, Writing
<1>2. /\ skillReq[r].op \in {"create", "patch", "delete"} /\ skillReq[r].field \in {"text", "grants"}
      /\ old \in SkillDoc \cup {None} /\ (skillReq[r].op = "patch" => old # None)
  BY <1>1 DEF SkillTypes, SkillRequest
<1>3. CASE skillReq[r].op = "create"
  <2>1. new = [source |-> "custom", text |-> r, grants |-> r]
    BY <1>3 DEF D!Written
  <2> HIDE DEF new
  <2>2. new \in SkillDoc /\ new.source = "custom" /\ new["text"] = r /\ new["grants"] = r
    BY <2>1 DEF SkillDoc
  <2>3. new # None
    BY <2>2, NoneIsNoSkill DEF SkillDoc
  <2> QED
    BY <1>3, <2>2, <2>3 DEF SkillFields, new
<1>4. CASE skillReq[r].op = "patch"
  <2>1. new = [old EXCEPT ![skillReq[r].field] = r] /\ old \in SkillDoc /\ old # None
    BY <1>2, <1>4 DEF D!Written
  <2> HIDE DEF new, old
  <2>2. /\ new \in SkillDoc /\ new.source = old.source /\ new[skillReq[r].field] = r
        /\ \A f \in {"text", "grants"} \ {skillReq[r].field} : new[f] = old[f]
    <3>1. CASE skillReq[r].field = "text"
      BY <2>1, <3>1 DEF SkillDoc
    <3>2. CASE skillReq[r].field = "grants"
      BY <2>1, <3>2 DEF SkillDoc
    <3> QED
      BY <1>2, <3>1, <3>2
  <2>3. new # None
    BY <2>2, NoneIsNoSkill DEF SkillDoc
  <2> QED
    BY <1>4, <2>1, <2>2, <2>3 DEF SkillFields, new, old
<1>5. CASE skillReq[r].op = "delete"
  BY <1>5 DEF D!Written
<1> QED
  BY <1>2, <1>3, <1>4, <1>5

LEMMA SkillWrites ==
  ASSUME RequestsAssumption, NoneIsNoSkill, SkillInv, NEW r \in Requests, D!Write(r) PROVE SkillInv'
<1> DEFINE n == skillReq[r].n
           new == D!Written(r)
<1>1. /\ SkillTypes /\ skillReq \in [Requests -> SkillRequest] /\ skill \in [SkillNames -> SkillDoc \cup {None}]
      /\ skillReq[r] \in SkillRequest /\ skillReq[r].pc = "write" /\ InOrder(skillReq, skillMet)
  BY DEF SkillInv, SkillTypes, D!Write, D!Open
<1>2. /\ n \in SkillNames /\ skillReq[r].op \in {"create", "patch", "delete"}
      /\ r \in Begun(skillReq) /\ r \in Writing(skillReq) /\ skillBoot = {}
  BY <1>1 DEF SkillTypes, Begun, Writing, SkillRequest
<1>3. /\ skill' = [skill EXCEPT ![n] = new] /\ skillReq' = [skillReq EXCEPT ![r].pc = "over"]
      /\ UNCHANGED <<skillBoot, skillMet>>
  BY DEF D!Write
<1>4. /\ new \in SkillDoc \cup {None}
      /\ skillReq[r].op = "delete" => new = None
      /\ skillReq[r].op # "delete" =>
           /\ new # None /\ \A f \in SkillFields(skillReq, r) : new[f] = r
           /\ IF skillReq[r].op = "create" THEN new.source = "custom"
              ELSE /\ skillReq[r].copy # None /\ new.source = skillReq[r].copy.source
                   /\ \A f \in {"text", "grants"} \ {skillReq[r].field} : new[f] = skillReq[r].copy[f]
  BY <1>1, SkillWritten, Zenon
<1> HIDE DEF new
<1>5. /\ skillReq'[r].pc = "over" /\ skillReq'[r].op = skillReq[r].op /\ skillReq'[r].n = n
      /\ skillReq'[r].field = skillReq[r].field /\ skillReq'[r].began = skillReq[r].began
      /\ skillReq'[r].copy = skillReq[r].copy /\ skillReq'[r] \in SkillRequest
      /\ \A s \in Requests : s # r => skillReq'[s] = skillReq[s]
  BY <1>1, <1>3 DEF SkillRequest
<1>6. /\ skill'[n] = new /\ \A x \in SkillNames : x # n => skill'[x] = skill[x]
      /\ skill' \in [SkillNames -> SkillDoc \cup {None}]
  BY <1>1, <1>2, <1>3, <1>4
<1>7. InOrder(skillReq', skillMet)
  BY <1>1, <1>5, OrderGoesOn
<1>8. SkillForward(skillReq, skillReq')
  BY <1>1, <1>5 DEF SkillForward
<1>9. Writing(skillReq') = Writing(skillReq) \ {r}
      /\ \A s \in Writing(skillReq') : skillReq'[s] = skillReq[s] /\ s \in Requests
  BY <1>5 DEF Writing
<1>10. Begun(skillReq') = Begun(skillReq)
  BY <1>1, <1>5 DEF Begun
<1>11. SkillTypes'
  <2>1. skillReq' \in [Requests -> SkillRequest]
    BY <1>1, <1>3, <1>5
  <2>2. \A s \in Begun(skillReq') : skillReq'[s].n = skillReq[s].n /\ skillReq'[s].op = skillReq[s].op
    BY <1>5, <1>10 DEF Begun
  <2>3. \A s \in Begun(skillReq') : skillReq'[s].n \in SkillNames /\ skillReq'[s].op # "none"
    BY <1>1, <1>10, <2>2 DEF SkillTypes
  <2>4. \A s \in Writing(skillReq') : skillReq'[s].op = "patch" => skillReq'[s].copy # None
    BY <1>1, <1>9 DEF SkillTypes
  <2>5. skillBoot' = {}
    BY <1>2, <1>3
  <2> QED
    BY <1>6, <2>1, <2>3, <2>4, <2>5 DEF SkillTypes
<1>12. \A s \in Requests : s # r => /\ SkillDone(skillReq', s) = SkillDone(skillReq, s) /\ skillReq'[s] = skillReq[s]
                                    /\ SkillDone(skillReq, s) => /\ s \in Begun(skillReq) \ Writing(skillReq)
                                                                 /\ skillReq[s].n \in SkillNames
  <2>1. \A s \in Requests : SkillDone(skillReq, s) => s \in Begun(skillReq) \ Writing(skillReq)
    BY DEF SkillDone, Begun, Writing
  <2> QED
    BY <1>1, <1>5, <2>1 DEF SkillDone, SkillTypes
<1>13. SkillDone(skillReq', r) /\ ~SkillDone(skillReq, r)
  BY <1>1, <1>5 DEF SkillDone
<1>14. \A s \in Begun(skillReq) : /\ \A x : SkillStands(skillReq, s, x) => SkillStands(skillReq', s, x)
                                  /\ SkillRemoved(skillReq, s) => SkillRemoved(skillReq', s)
                                  /\ SkillTaken(skillReq, skillMet, s) => SkillTaken(skillReq', skillMet, s)
                                  /\ SkillBack(skillReq, skillMet, s) => SkillBack(skillReq', skillMet, s)
  BY <1>1, <1>8, SkillCarries DEF Begun
<1>15. \A s \in Begun(skillReq) \ Writing(skillReq) : {s, r} \in skillMet \/ skillReq[r].began > skillReq[s].began
  BY <1>1, <1>2 DEF InOrder
<1>16. \A s \in Requests : D!Alone(s)' <=> D!Alone(s)
  BY <1>3 DEF D!Alone
<1>17. SkillKept'
  <2> SUFFICES ASSUME NEW s \in Requests, SkillWrote(skillReq', s), D!Alone(s)
               PROVE  /\ SkillStands(skillReq', s, skill'[skillReq'[s].n]) \/ SkillRemoved(skillReq', s)
                      /\ \A t \in Writing(skillReq') : skillReq'[t].n = skillReq'[s].n =>
                            SkillStands(skillReq', s, skillReq'[t].copy) \/ SkillRemoved(skillReq', s)
    BY <1>16 DEF SkillKept
  <2>1. CASE s = r
    <3>1. new # None /\ \A f \in SkillFields(skillReq, r) : new[f] = r
      BY <1>4, <1>5, <2>1 DEF SkillWrote
    <3>2. SkillStands(skillReq', s, skill'[skillReq'[s].n])
      BY <1>5, <1>6, <2>1, <3>1 DEF SkillStands, SkillFields
    <3>3. Writing(skillReq') = {}
      BY <1>1, <1>2, <1>9, <2>1 DEF InOrder, D!Alone
    <3> QED
      BY <3>2, <3>3
  <2>2. CASE s # r
    <3>1. /\ SkillWrote(skillReq, s) /\ skillReq'[s] = skillReq[s]
          /\ s \in Begun(skillReq) \ Writing(skillReq) /\ skillReq[s].n \in SkillNames
      BY <1>12, <2>2 DEF SkillWrote
    <3>2. /\ SkillStands(skillReq, s, skill[skillReq[s].n]) \/ SkillRemoved(skillReq, s)
          /\ \A t \in Writing(skillReq) : skillReq[t].n = skillReq[s].n =>
               SkillStands(skillReq, s, skillReq[t].copy) \/ SkillRemoved(skillReq, s)
      BY <3>1 DEF SkillInv, SkillKept
    <3>3. \A t \in Writing(skillReq') : skillReq'[t].n = skillReq'[s].n =>
            SkillStands(skillReq', s, skillReq'[t].copy) \/ SkillRemoved(skillReq', s)
      BY <1>9, <1>14, <3>1, <3>2
    <3>4. SkillStands(skillReq', s, skill'[skillReq'[s].n]) \/ SkillRemoved(skillReq', s)
      <4>1. CASE skillReq[s].n # n
        BY <1>6, <1>14, <3>1, <3>2, <4>1
      <4>2. CASE skillReq[s].n = n
        <5>1. skillReq[r].began > skillReq[s].began
          BY <1>15, <2>2, <3>1 DEF D!Alone
        <5>2. CASE skillReq[r].op = "delete"
          BY <1>5, <1>13, <3>1, <4>2, <5>1, <5>2 DEF SkillRemoved, SkillDeleted
        <5>3. CASE skillReq[r].op = "create"
          <6>1. new # None /\ new["text"] = r /\ new["grants"] = r
            BY <1>4, <5>3 DEF SkillFields
          <6>2. skillReq[s].field \in {"text", "grants"}
            BY <1>1 DEF SkillRequest
          <6>3. \A f \in SkillFields(skillReq', s) : new[f] = r
            BY <3>1, <6>1, <6>2 DEF SkillFields
          <6> QED
            BY <1>5, <1>6, <3>1, <4>2, <5>1, <6>1, <6>3 DEF SkillStands
        <5>4. CASE skillReq[r].op = "patch"
          <6>1. SkillStands(skillReq, s, skillReq[r].copy) \/ SkillRemoved(skillReq', s)
            BY <1>2, <1>14, <3>1, <3>2, <4>2
          <6>2. CASE SkillStands(skillReq, s, skillReq[r].copy)
            <7>1. /\ new # None /\ new[skillReq[r].field] = r
                  /\ \A f \in {"text", "grants"} \ {skillReq[r].field} : new[f] = skillReq[r].copy[f]
              BY <1>4, <5>4 DEF SkillFields
            <7>2. SkillFields(skillReq, s) \subseteq {"text", "grants"} /\ SkillFields(skillReq', s) = SkillFields(skillReq, s)
              <8>1. skillReq[s].field \in {"text", "grants"}
                BY <1>1 DEF SkillRequest
              <8> QED
                BY <3>1, <8>1 DEF SkillFields
            <7>3. SkillStands(skillReq', s, skillReq[r].copy)
              BY <1>14, <3>1, <6>2
            <7>4. \A f \in SkillFields(skillReq', s) :
                    new[f] = s \/ (new[f] \in Requests /\ skillReq'[new[f]].began > skillReq'[s].began)
              <8> SUFFICES ASSUME NEW f \in SkillFields(skillReq', s)
                           PROVE  new[f] = s \/ (new[f] \in Requests /\ skillReq'[new[f]].began > skillReq'[s].began)
                OBVIOUS
              <8>1. CASE f = skillReq[r].field
                BY <1>5, <3>1, <5>1, <7>1, <8>1
              <8>2. CASE f # skillReq[r].field
                BY <7>1, <7>2, <7>3, <8>2 DEF SkillStands
              <8> QED
                BY <8>1, <8>2
            <7> QED
              BY <1>6, <3>1, <4>2, <7>1, <7>4 DEF SkillStands
          <6> QED
            BY <6>1, <6>2
        <5> QED
          BY <1>2, <5>2, <5>3, <5>4
      <4> QED
        BY <4>1, <4>2
    <3> QED
      BY <3>3, <3>4
  <2> QED
    BY <2>1, <2>2
<1>18. BadgesHold'
  <2>1. \A x \in SkillNames : BadgeIsTrue(skillReq', x, skill[x])
    BY <1>8, BadgeCarries DEF SkillInv, BadgesHold
  <2>2. \A s \in Writing(skillReq) : BadgeIsTrue(skillReq', skillReq[s].n, skillReq[s].copy)
    BY <1>8, BadgeCarries DEF SkillInv, BadgesHold
  <2>3. BadgeIsTrue(skillReq', n, new)
    <3>1. CASE skillReq[r].op = "delete"
      BY <1>4, <3>1 DEF BadgeIsTrue
    <3>2. CASE skillReq[r].op = "create"
      <4>1. SkillCreated(skillReq', r) /\ skillReq'[r].n = n
        BY <1>5, <1>13, <3>2 DEF SkillCreated
      <4>2. new.source # "builtin"
        BY <1>4, <3>2
      <4> QED
        BY <4>1, <4>2 DEF BadgeIsTrue
    <3>3. CASE skillReq[r].op = "patch"
      BY <1>2, <1>4, <2>2, <3>3 DEF BadgeIsTrue
    <3> QED
      BY <1>2, <3>1, <3>2, <3>3
  <2>4. \A x \in SkillNames : BadgeIsTrue(skillReq', x, skill'[x])
    BY <1>6, <2>1, <2>3
  <2>5. \A s \in Writing(skillReq') : BadgeIsTrue(skillReq', skillReq'[s].n, skillReq'[s].copy)
    BY <1>9, <2>2
  <2> QED
    BY <2>4, <2>5 DEF BadgesHold
<1>19. FreedByDeletion'
  <2> SUFFICES ASSUME NEW s \in Requests, SkillCreated(skillReq', s), skill'[skillReq'[s].n] = None
               PROVE  SkillTaken(skillReq', skillMet, s)
    BY <1>3 DEF FreedByDeletion
  <2>1. s # r
    BY <1>4, <1>5, <1>6 DEF SkillCreated
  <2>2. /\ SkillCreated(skillReq, s) /\ skillReq'[s] = skillReq[s] /\ skillReq[s].n \in SkillNames
        /\ s \in Begun(skillReq) \ Writing(skillReq)
    BY <1>12, <2>1 DEF SkillCreated
  <2>3. CASE skillReq[s].n # n
    BY <1>6, <1>14, <2>2, <2>3 DEF SkillInv, FreedByDeletion
  <2>4. CASE skillReq[s].n = n
    <3>1. skillReq[r].op = "delete"
      BY <1>4, <1>6, <2>2, <2>4
    <3>2. SkillDeleted(skillReq', r)
      BY <1>5, <1>13, <3>1 DEF SkillDeleted
    <3>3. {r, s} = {s, r}
      OBVIOUS
    <3> QED
      BY <1>5, <1>15, <2>2, <2>4, <3>2, <3>3 DEF SkillTaken
  <2> QED
    BY <2>3, <2>4
<1>20. CreatesAgain'
  <2> SUFFICES ASSUME NEW s \in Requests, NEW t \in Begun(skillReq'), SkillCreated(skillReq', s),
                      skillReq'[t].op = "create", skillReq'[s].n = skillReq'[t].n,
                      skillReq'[t].began > skillReq'[s].began, {s, t} \notin skillMet
               PROVE  SkillTaken(skillReq', skillMet, s)
    BY <1>3 DEF CreatesAgain
  <2>1. /\ t \in Begun(skillReq) /\ t \in Requests /\ skillReq'[t].op = skillReq[t].op /\ skillReq'[t].n = skillReq[t].n
        /\ skillReq'[t].began = skillReq[t].began
    BY <1>5, <1>10 DEF Begun
  <2>2. s # r
    BY <1>1, <1>2, <1>5, <2>1 DEF InOrder
  <2>3. SkillCreated(skillReq, s) /\ skillReq'[s] = skillReq[s] /\ s \in Begun(skillReq)
    BY <1>12, <2>2 DEF SkillCreated
  <2> QED
    BY <1>14, <2>1, <2>3 DEF SkillInv, CreatesAgain
<1>21. DeletedSkillsStayAway'
  <2> SUFFICES ASSUME NEW s \in Requests, SkillDeleted(skillReq', s), skill'[skillReq'[s].n] # None
               PROVE  SkillBack(skillReq', skillMet, s)
    BY <1>3 DEF DeletedSkillsStayAway
  <2>1. s # r
    BY <1>4, <1>5, <1>6 DEF SkillDeleted
  <2>2. /\ SkillDeleted(skillReq, s) /\ skillReq'[s] = skillReq[s] /\ skillReq[s].n \in SkillNames
        /\ s \in Begun(skillReq) \ Writing(skillReq)
    BY <1>12, <2>1 DEF SkillDeleted
  <2>3. CASE skillReq[s].n # n
    BY <1>6, <1>14, <2>2, <2>3 DEF SkillInv, DeletedSkillsStayAway
  <2>4. CASE skillReq[s].n = n
    <3>1. skillReq'[r].op # "delete"
      BY <1>4, <1>5, <1>6, <2>2, <2>4
    <3>2. {r, s} = {s, r}
      OBVIOUS
    <3> QED
      BY <1>5, <1>13, <1>15, <2>2, <2>4, <3>1, <3>2 DEF SkillBack
  <2> QED
    BY <2>3, <2>4
<1> QED
  BY <1>3, <1>7, <1>11, <1>17, <1>18, <1>19, <1>20, <1>21 DEF SkillInv

\* Requests end and the server starts again, while what is stored stays.
LEMMA SkillEnds ==
  ASSUME RequestsAssumption, SkillInv, UNCHANGED <<skill, skillMet>>, skillReq' \in [Requests -> SkillRequest],
         \A r \in Requests :
           /\ skillReq'[r].op = skillReq[r].op /\ skillReq'[r].n = skillReq[r].n
           /\ skillReq'[r].field = skillReq[r].field /\ skillReq'[r].copy = skillReq[r].copy
           /\ skillReq'[r].began = skillReq[r].began
           /\ \/ skillReq'[r].pc = skillReq[r].pc
              \/ skillReq[r].pc = "write" /\ skillReq'[r].pc = "failed"
              \/ skillReq[r].pc = "over" /\ skillReq'[r].pc = "past",
         skillBoot' \subseteq DirsDef,
         skillBoot' # {} => \A r \in Requests : skillReq'[r].pc \notin {"write", "over"}
  PROVE  SkillInv'
<1>1. SkillTypes /\ InOrder(skillReq, skillMet)
  BY DEF SkillInv
<1>2. InOrder(skillReq', skillMet)
  BY <1>1, OrderGoesOn
<1>3. SkillForward(skillReq, skillReq')
  BY DEF SkillForward
<1>4. Begun(skillReq') = Begun(skillReq) /\ Begun(skillReq) \subseteq Requests
      /\ \A s \in Writing(skillReq') : s \in Writing(skillReq) /\ s \in Requests
  BY DEF Begun, Writing
<1>5. SkillTypes'
  BY <1>1, <1>4 DEF SkillTypes
<1>6. \A s \in Requests : /\ SkillDone(skillReq', s) => SkillDone(skillReq, s)
                          /\ SkillDone(skillReq, s) => s \in Begun(skillReq)
  BY DEF SkillDone, Begun
<1>7. \A s \in Begun(skillReq) : /\ \A x : SkillStands(skillReq, s, x) => SkillStands(skillReq', s, x)
                                 /\ SkillRemoved(skillReq, s) => SkillRemoved(skillReq', s)
                                 /\ SkillTaken(skillReq, skillMet, s) => SkillTaken(skillReq', skillMet, s)
                                 /\ SkillBack(skillReq, skillMet, s) => SkillBack(skillReq', skillMet, s)
  BY <1>1, <1>3, SkillCarries DEF Begun
<1>8. SkillKept'
  <2> SUFFICES ASSUME NEW s \in Requests, SkillWrote(skillReq', s), D!Alone(s)'
               PROVE  /\ SkillStands(skillReq', s, skill[skillReq'[s].n]) \/ SkillRemoved(skillReq', s)
                      /\ \A t \in Writing(skillReq') : skillReq'[t].n = skillReq'[s].n =>
                            SkillStands(skillReq', s, skillReq'[t].copy) \/ SkillRemoved(skillReq', s)
    BY DEF SkillKept
  <2>1. SkillWrote(skillReq, s) /\ D!Alone(s) /\ s \in Begun(skillReq)
    BY <1>6 DEF SkillWrote, D!Alone
  <2>2. /\ SkillStands(skillReq, s, skill[skillReq[s].n]) \/ SkillRemoved(skillReq, s)
        /\ \A t \in Writing(skillReq) : skillReq[t].n = skillReq[s].n =>
             SkillStands(skillReq, s, skillReq[t].copy) \/ SkillRemoved(skillReq, s)
    BY <2>1 DEF SkillInv, SkillKept
  <2>3. \A t \in Writing(skillReq') : skillReq'[t].n = skillReq'[s].n =>
          SkillStands(skillReq', s, skillReq'[t].copy) \/ SkillRemoved(skillReq', s)
    BY <1>4, <1>7, <2>1, <2>2
  <2>4. SkillStands(skillReq', s, skill[skillReq'[s].n]) \/ SkillRemoved(skillReq', s)
    BY <1>7, <2>1, <2>2
  <2> QED
    BY <2>3, <2>4
<1>9. BadgesHold'
  <2>1. \A x \in SkillNames : BadgeIsTrue(skillReq', x, skill[x])
    BY <1>3, BadgeCarries DEF SkillInv, BadgesHold
  <2>2. \A s \in Writing(skillReq) : BadgeIsTrue(skillReq', skillReq[s].n, skillReq[s].copy)
    BY <1>3, BadgeCarries DEF SkillInv, BadgesHold
  <2>3. \A s \in Writing(skillReq') : BadgeIsTrue(skillReq', skillReq'[s].n, skillReq'[s].copy)
    BY <1>4, <2>2
  <2> QED
    BY <2>1, <2>3 DEF BadgesHold
<1>10. FreedByDeletion'
  BY <1>6, <1>7 DEF SkillInv, FreedByDeletion, SkillCreated
<1>11. DeletedSkillsStayAway'
  BY <1>6, <1>7 DEF SkillInv, DeletedSkillsStayAway, SkillDeleted
<1>12. CreatesAgain'
  <2> SUFFICES ASSUME NEW s \in Requests, NEW t \in Begun(skillReq'), SkillCreated(skillReq', s),
                      skillReq'[t].op = "create", skillReq'[s].n = skillReq'[t].n,
                      skillReq'[t].began > skillReq'[s].began, {s, t} \notin skillMet
               PROVE  SkillTaken(skillReq', skillMet, s)
    BY DEF CreatesAgain
  <2>1. t \in Begun(skillReq) /\ t \in Requests /\ s \in Begun(skillReq) /\ SkillCreated(skillReq, s)
    BY <1>4, <1>6 DEF SkillCreated
  <2>2. SkillTaken(skillReq, skillMet, s)
    BY <2>1 DEF SkillInv, CreatesAgain
  <2> QED
    BY <1>7, <2>1, <2>2
<1> QED
  BY <1>2, <1>5, <1>8, <1>9, <1>10, <1>11, <1>12 DEF SkillInv

LEMMA SkillsNext ==
  ASSUME RequestsAssumption, NoneIsNoSkill, SkillInv, [D!SkillNext]_skillVars PROVE SkillInv'
<1>1. /\ SkillTypes /\ skillReq \in [Requests -> SkillRequest]
  BY DEF SkillInv, SkillTypes
<1>2. ASSUME NEW r \in Requests, D!BeginCreate(r) \/ D!BeginPatch(r) \/ D!BeginDelete(r) PROVE SkillInv'
  <2>1. CASE D!BeginCreate(r)
    <3>1. PICK n \in SkillNames : skill[n] = None /\ D!Begin(r, "create", n, "text")
      BY <2>1 DEF D!BeginCreate, SkillNames
    <3> QED
      BY <3>1, SkillBegins
  <2>2. CASE D!BeginPatch(r)
    <3>1. PICK n \in SkillNames, field \in {"text", "grants"} : skill[n] # None /\ D!Begin(r, "patch", n, field)
      BY <2>2 DEF D!BeginPatch, SkillNames
    <3> QED
      BY <3>1, SkillBegins
  <2>3. CASE D!BeginDelete(r)
    <3>1. PICK n \in SkillNames : skill[n] # None /\ D!Begin(r, "delete", n, "text")
      BY <2>3 DEF D!BeginDelete, SkillNames
    <3> QED
      BY <3>1, SkillBegins
  <2> QED
    BY <1>2, <2>1, <2>2, <2>3
<1>3. ASSUME NEW r \in Requests, D!WriteFails(r) PROVE SkillInv'
  <2>1. /\ skillReq' = [skillReq EXCEPT ![r].pc = "failed"] /\ skillReq[r].pc = "write" /\ skillReq[r] \in SkillRequest
        /\ UNCHANGED <<skill, skillBoot, skillMet>>
    BY <1>1, <1>3 DEF D!WriteFails, D!Open
  <2>2. skillReq' \in [Requests -> SkillRequest]
    BY <1>1, <2>1 DEF SkillRequest
  <2>3. \A s \in Requests : skillReq'[s] = IF s = r THEN [skillReq[r] EXCEPT !.pc = "failed"] ELSE skillReq[s]
    BY <1>1, <2>1
  <2>4. \A s \in Requests :
          /\ skillReq'[s].op = skillReq[s].op /\ skillReq'[s].n = skillReq[s].n
          /\ skillReq'[s].field = skillReq[s].field /\ skillReq'[s].copy = skillReq[s].copy
          /\ skillReq'[s].began = skillReq[s].began
          /\ skillReq'[s].pc = skillReq[s].pc \/ (skillReq[s].pc = "write" /\ skillReq'[s].pc = "failed")
    BY <2>1, <2>3 DEF SkillRequest
  <2>5. skillBoot = {} /\ skillBoot' \subseteq DirsDef
    BY <1>1, <2>1 DEF SkillTypes
  <2> QED
    BY <2>1, <2>2, <2>4, <2>5, SkillEnds
<1>4. CASE D!Restart
  <2> DEFINE to(r) == [skillReq[r] EXCEPT !.pc = IF D!Open(r) THEN "failed" ELSE IF D!Done(r) THEN "past" ELSE @]
  <2>1. /\ skillReq' = [r \in Requests |-> to(r)] /\ skillBoot' = DirsDef /\ UNCHANGED <<skill, skillMet>>
    BY <1>4 DEF D!Restart
  <2>2. \A s \in Requests :
          /\ skillReq'[s] \in SkillRequest
          /\ skillReq'[s].op = skillReq[s].op /\ skillReq'[s].n = skillReq[s].n
          /\ skillReq'[s].field = skillReq[s].field /\ skillReq'[s].copy = skillReq[s].copy
          /\ skillReq'[s].began = skillReq[s].began
          /\ skillReq'[s].pc = IF skillReq[s].pc = "write" THEN "failed"
                               ELSE IF skillReq[s].pc \in {"over", "past"} THEN "past" ELSE skillReq[s].pc
    <3> SUFFICES ASSUME NEW s \in Requests
                 PROVE  /\ skillReq'[s] \in SkillRequest
                        /\ skillReq'[s].op = skillReq[s].op /\ skillReq'[s].n = skillReq[s].n
                        /\ skillReq'[s].field = skillReq[s].field /\ skillReq'[s].copy = skillReq[s].copy
                        /\ skillReq'[s].began = skillReq[s].began
                        /\ skillReq'[s].pc = IF skillReq[s].pc = "write" THEN "failed"
                                             ELSE IF skillReq[s].pc \in {"over", "past"} THEN "past" ELSE skillReq[s].pc
      OBVIOUS
    <3>1. skillReq'[s] = to(s) /\ skillReq[s] \in SkillRequest
      BY <1>1, <2>1
    <3> QED
      BY <3>1 DEF SkillRequest, D!Open, D!Done
  <2>3. skillReq' \in [Requests -> SkillRequest]
    BY <2>1, <2>2
  <2>4. \A s \in Requests :
          /\ skillReq'[s].op = skillReq[s].op /\ skillReq'[s].n = skillReq[s].n
          /\ skillReq'[s].field = skillReq[s].field /\ skillReq'[s].copy = skillReq[s].copy
          /\ skillReq'[s].began = skillReq[s].began
          /\ \/ skillReq'[s].pc = skillReq[s].pc
             \/ skillReq[s].pc = "write" /\ skillReq'[s].pc = "failed"
             \/ skillReq[s].pc = "over" /\ skillReq'[s].pc = "past"
    BY <2>2
  <2>5. skillBoot' \subseteq DirsDef /\ \A s \in Requests : skillReq'[s].pc \notin {"write", "over"}
    BY <2>1, <2>2
  <2> HIDE DEF to
  <2> QED
    BY <2>1, <2>3, <2>4, <2>5, SkillEnds
<1>5. CASE UNCHANGED skillVars
  <2>1. UNCHANGED <<skill, skillReq, skillBoot, skillMet>>
    BY <1>5 DEF skillVars
  <2> QED
    BY <1>1, <2>1, SkillEnds DEF SkillTypes
<1> QED
  BY <1>2, <1>3, <1>4, <1>5, SkillLoads, SkillWrites DEF D!SkillNext

LEMMA SkillsImply == ASSUME SkillInv PROVE D!SkillsStand
<1>1. SkillTypes /\ \A n \in SkillNames : skill[n] \in SkillDoc \cup {None}
  BY DEF SkillInv, SkillTypes
<1>2. \A r \in Requests : D!Done(r) <=> SkillDone(skillReq, r)
  BY DEF D!Done, SkillDone
<1>3. D!SkillTypeOK
  BY <1>1 DEF SkillTypes, D!SkillTypeOK, SkillDoc, SkillNames
<1>4. D!BadgesAreTrue
  BY <1>2 DEF SkillInv, BadgesHold, BadgeIsTrue, SkillCreated, D!BadgesAreTrue, SkillNames
<1>5. D!SkillEditsStay
  <2> SUFFICES ASSUME NEW r \in Requests, D!Done(r), skillReq[r].op \in {"create", "patch"}, D!Alone(r)
               PROVE  \/ /\ skill[skillReq[r].n] # None
                         /\ \A f \in D!Fields(r) : skill[skillReq[r].n][f] = r \/ D!Later(skill[skillReq[r].n][f], r)
                      \/ \E d \in Requests : D!Deletes(d, skillReq[r].n) /\ D!Later(d, r)
    BY DEF D!SkillEditsStay
  <2>1. SkillStands(skillReq, r, skill[skillReq[r].n]) \/ SkillRemoved(skillReq, r)
    BY <1>2 DEF SkillInv, SkillKept, SkillWrote
  <2> QED
    BY <1>2, <2>1 DEF SkillStands, SkillRemoved, SkillDeleted, SkillFields, D!Fields, D!Later, D!Deletes
<1>6. D!SkillsStayDeleted
  <2> SUFFICES ASSUME NEW n \in SkillNames, NEW d \in Requests, D!Deletes(d, n), skill[n] # None
               PROVE  \/ skillReq[d].pc = "past" /\ D!Shipped(n)
                      \/ \E r \in Requests : /\ D!Done(r) /\ skillReq[r].op # "delete" /\ skillReq[r].n = n
                                             /\ ({r, d} \in skillMet \/ D!Later(r, d))
    BY DEF D!SkillsStayDeleted, SkillNames
  <2>1. skillReq[d].n = n /\ SkillBack(skillReq, skillMet, d)
    BY <1>2 DEF SkillInv, DeletedSkillsStayAway, D!Deletes, SkillDeleted
  <2> QED
    BY <1>2, <2>1 DEF SkillBack, D!Later
<1>7. D!CreatedOnce
  <2> SUFFICES ASSUME NEW r \in Requests, NEW s \in Requests, D!Done(r), D!Done(s), D!Later(s, r), {r, s} \notin skillMet,
                      skillReq[r].op = "create", skillReq[s].op = "create", skillReq[r].n = skillReq[s].n
               PROVE  \E d \in Requests : D!Deletes(d, skillReq[r].n) /\ (D!Later(d, r) \/ {d, r} \in skillMet)
    BY DEF D!CreatedOnce
  <2>1. s \in Begun(skillReq) /\ SkillCreated(skillReq, r)
    BY <1>2 DEF D!Done, Begun, SkillCreated
  <2>2. SkillTaken(skillReq, skillMet, r)
    BY <2>1 DEF SkillInv, CreatesAgain, D!Later
  <2> QED
    BY <1>2, <2>2 DEF SkillTaken, SkillDeleted, D!Deletes, D!Later
<1> QED
  BY <1>3, <1>4, <1>5, <1>6, <1>7 DEF D!SkillsStand

-----------------------------------------------------------------------------
(* The tool catalog.                                                       *)

Writer == Requests \cup {"seed"}

ToolRequest ==
  [op : {"none", "create", "delete", "config", "on", "off"}, t : Ids \cup {None}, of : {"f", "mcp", None},
   copy : ToolRecord \cup {None}, pc : {"idle", "write", "over", "failed"}, began : Nat]

Binding ==
  [t : Ids, of : {"f", "mcp"}, by : Writer \cup {None}, to : Writer \cup {None}, after : SUBSET Requests,
   pc : {"read", "bound"}]

Updates == {"config", "on", "off"}

ToolTypes ==
  /\ tool \in [Ids -> ToolRecord \cup {None, Unused}] /\ toolReq \in [Requests -> ToolRequest]
  /\ toolBoot = None \/ toolBoot \subseteq {"f"}
  /\ \A r \in Begun(toolReq) :
       toolReq[r].t \in Ids /\ tool[toolReq[r].t] # Unused /\ toolReq[r].op # "none"
  /\ \A r \in Writing(toolReq) :
       /\ toolReq[r].op \in Updates /\ toolReq[r].copy # None
       /\ toolReq[r].op = "config" => toolReq[r].of # None
  /\ toolBoot # {} => Writing(toolReq) = {}

BindTypes == bind \in [Agents -> Binding \cup {None}] /\ toolset \in [Ids -> Writer \cup {None}]

IsStored(x) == x \notin {None, Unused}

ToolDone(q, r) == q[r].pc = "over"

\* The request that created a record came first of all that are about it.
CreatedFirst ==
  \A w, r \in Begun(toolReq) : toolReq[w].op = "create" /\ toolReq[r].t = toolReq[w].t /\ r # w =>
    toolReq[r].began > toolReq[w].began

\* A record is as the request left it that switched it last.
SwitchIsTrue(q, t, x) ==
  x.switch \in Requests => /\ ToolDone(q, x.switch) /\ q[x.switch].t = t
                           /\ q[x.switch].op \in {"create", "on", "off"}
                           /\ x.on = (q[x.switch].op # "off")

SwitchesHold ==
  /\ \A t \in Ids : IsStored(tool[t]) => SwitchIsTrue(toolReq, t, tool[t])
  /\ \A s \in Writing(toolReq) : SwitchIsTrue(toolReq, toolReq[s].t, toolReq[s].copy)

ToolStands(q, r, x) ==
  LET w == IF q[r].op = "config" THEN x.by ELSE x.switch
  IN w = r \/ (w \in Requests /\ q[w].began > q[r].began)

ToolRemoved(q, r) ==
  \E d \in Requests : ToolDone(q, d) /\ q[d].op = "delete" /\ q[d].t = q[r].t /\ q[d].began > q[r].began

ToolKept ==
  \A r \in Requests : ToolDone(toolReq, r) /\ toolReq[r].op \in Updates /\ F!Alone(r) =>
    /\ IF IsStored(tool[toolReq[r].t]) THEN ToolStands(toolReq, r, tool[toolReq[r].t]) ELSE ToolRemoved(toolReq, r)
    /\ \A s \in Writing(toolReq) : toolReq[s].t = toolReq[r].t => ToolStands(toolReq, r, toolReq[s].copy)

\* An update that met the deletion of d brought the record back.
ToolBack(q, m, d) ==
  \E r \in Requests : ToolDone(q, r) /\ q[r].op \notin {"create", "delete"} /\ q[r].t = q[d].t /\ {r, d} \in m

ToolsGone ==
  \A d \in Requests : ToolDone(toolReq, d) /\ toolReq[d].op = "delete" =>
    /\ IsStored(tool[toolReq[d].t]) => ToolBack(toolReq, toolMet, d)
    /\ \A s \in Writing(toolReq) : toolReq[s].t = toolReq[d].t => {s, d} \in toolMet \/ ToolBack(toolReq, toolMet, d)

\* The record t is, or may be written back, as the start seeded it for f.
IsSeeded(x, f) == IsStored(x) /\ x.of = f /\ x.by = "seed"
SeedAt(t, f) == IsSeeded(tool[t], f) \/ \E s \in Writing(toolReq) : toolReq[s].t = t /\ IsSeeded(toolReq[s].copy, f)

SeedsHold ==
  /\ \A f \in {"f"}, t, u \in Ids : SeedAt(t, f) /\ SeedAt(u, f) => t = u
  /\ toolBoot # None => \A f \in toolBoot, t \in Ids : IsStored(tool[t]) => tool[t].of # f

CatalogInv ==
  /\ ToolTypes /\ InOrder(toolReq, toolMet) /\ CreatedFirst /\ SwitchesHold /\ ToolKept /\ ToolsGone /\ SeedsHold

\* What an agent is bound to: what a request took away before, another one has
\* brought back before; and an MCP tool is bound to the one toolset there is.
BindingHolds(b) ==
  /\ \A r \in b.after :
       /\ ToolDone(toolReq, r)
       /\ toolReq[r].t = b.t /\ toolReq[r].op \in {"off", "delete"} /\ F!Alone(r) =>
            \E s \in b.after : toolReq[s].began > toolReq[r].began /\ toolReq[s].t = toolReq[r].t /\ toolReq[s].op = "on"
  /\ b.pc = "read" => b.by # None
  /\ b.pc = "bound" /\ b.of = "mcp" => b.to = toolset[b.t] /\ b.to # None

BindingsHold == \A a \in Agents : bind[a] # None => BindingHolds(bind[a])

ToolInv == CatalogInv /\ BindTypes /\ BindingsHold

LEMMA ToolsStart == ASSUME RequestsAssumption, NoneIsNoTool, F!ToolInit PROVE ToolInv
<1>1. /\ F!Idle \in ToolRequest /\ F!Idle.pc = "idle" /\ F!Idle.began = 0
      /\ \A r \in Requests : toolReq[r] = F!Idle
  BY DEF F!ToolInit, F!Idle, ToolRequest
<1>2. Begun(toolReq) = {} /\ Writing(toolReq) = {} /\ \A r \in Requests : ~ToolDone(toolReq, r)
  BY <1>1 DEF Begun, Writing, ToolDone
<1>3. \A t \in Ids : tool[t] = Unused
  BY DEF F!ToolInit
<1>4. ToolTypes
  BY <1>1, <1>2 DEF F!ToolInit, ToolTypes
<1>5. InOrder(toolReq, toolMet)
  BY <1>1, <1>2 DEF InOrder
<1>6. SeedsHold
  BY <1>2, <1>3 DEF F!ToolInit, SeedsHold, SeedAt, IsSeeded, IsStored
<1>7. BindTypes /\ BindingsHold
  BY DEF F!ToolInit, BindTypes, BindingsHold
<1> QED
  BY <1>2, <1>3, <1>4, <1>5, <1>6, <1>7
     DEF ToolInv, CatalogInv, CreatedFirst, SwitchesHold, IsStored, ToolKept, ToolsGone

\* Requests that have begun stay what they are, and those that are over are over.
ToolForward(q, p) ==
  \A r \in Requests :
    q[r].pc # "idle" => /\ p[r].began = q[r].began /\ p[r].t = q[r].t /\ p[r].op = q[r].op
                        /\ q[r].pc = "over" => p[r].pc = "over"

LEMMA ToolCarries ==
  ASSUME NEW q, NEW p, NEW m, NEW l, ToolForward(q, p), InOrder(q, m), m \subseteq l, NEW r \in Requests,
         q[r].pc # "idle"
  PROVE  /\ \A x : ToolStands(q, r, x) => ToolStands(p, r, x)
         /\ ToolRemoved(q, r) => ToolRemoved(p, r)
         /\ ToolBack(q, m, r) => ToolBack(p, l, r)
         /\ p[r].began = q[r].began /\ p[r].t = q[r].t /\ p[r].op = q[r].op
<1>1. \A s \in Requests : q[s].began \in Nat /\ (q[s].pc = "idle" => q[s].began = 0)
  BY DEF InOrder, Begun
<1>2. p[r].began = q[r].began /\ p[r].t = q[r].t /\ p[r].op = q[r].op
  BY DEF ToolForward
<1>3. \A s \in Requests : q[s].began > q[r].began => q[s].pc # "idle"
  BY <1>1
<1>4. \A s \in Requests : q[s].began > q[r].began => p[s].began > p[r].began
  BY <1>2, <1>3 DEF ToolForward
<1>5. \A s \in Requests : ToolDone(q, s) => ToolDone(p, s) /\ p[s].op = q[s].op /\ p[s].t = q[s].t
  BY DEF ToolForward, ToolDone
<1>6. \A x : ToolStands(q, r, x) => ToolStands(p, r, x)
  BY <1>2, <1>4 DEF ToolStands
<1>7. ToolRemoved(q, r) => ToolRemoved(p, r)
  BY <1>2, <1>4, <1>5 DEF ToolRemoved
<1>8. ToolBack(q, m, r) => ToolBack(p, l, r)
  BY <1>2, <1>5 DEF ToolBack
<1> QED
  BY <1>2, <1>6, <1>7, <1>8

LEMMA SwitchCarries ==
  ASSUME NEW q, NEW p, ToolForward(q, p), NEW t, NEW x, SwitchIsTrue(q, t, x) PROVE SwitchIsTrue(p, t, x)
<1>1. \A s \in Requests : ToolDone(q, s) => ToolDone(p, s) /\ p[s].op = q[s].op /\ p[s].t = q[s].t
  BY DEF ToolForward, ToolDone
<1> QED
  BY <1>1 DEF SwitchIsTrue

\* Bindings hold on while requests begin and end.
LEMMA BindingsCarry ==
  ASSUME ToolInv, ToolForward(toolReq, toolReq'), toolMet \subseteq toolMet', UNCHANGED <<bind, toolset>>
  PROVE  BindTypes' /\ BindingsHold'
<1>1. BindTypes'
  BY DEF ToolInv, BindTypes
<1>2. \A r \in Requests : F!Alone(r)' => F!Alone(r)
  BY DEF F!Alone
<1>3. \A s \in Requests : ToolDone(toolReq, s) =>
        /\ ToolDone(toolReq', s) /\ toolReq'[s].op = toolReq[s].op /\ toolReq'[s].t = toolReq[s].t
        /\ toolReq'[s].began = toolReq[s].began
  BY DEF ToolForward, ToolDone
<1>4. ASSUME NEW a \in Agents, bind[a] # None PROVE BindingHolds(bind[a])'
  <2>1. BindingHolds(bind[a]) /\ bind[a].after \subseteq Requests /\ bind'[a] = bind[a]
    BY <1>4 DEF ToolInv, BindTypes, BindingsHold, Binding
  <2>2. \A r \in bind[a].after : ToolDone(toolReq, r) /\ r \in Requests
    BY <2>1 DEF BindingHolds
  <2>3. ASSUME NEW r \in bind[a].after, toolReq'[r].t = bind[a].t, toolReq'[r].op \in {"off", "delete"}, F!Alone(r)'
        PROVE  \E s \in bind[a].after :
                 toolReq'[s].began > toolReq'[r].began /\ toolReq'[s].t = toolReq'[r].t /\ toolReq'[s].op = "on"
    <3>1. /\ toolReq'[r].t = toolReq[r].t /\ toolReq'[r].op = toolReq[r].op /\ toolReq'[r].began = toolReq[r].began
          /\ F!Alone(r)
      BY <1>2, <1>3, <2>2, <2>3
    <3>2. PICK s \in bind[a].after :
            toolReq[s].began > toolReq[r].began /\ toolReq[s].t = toolReq[r].t /\ toolReq[s].op = "on"
      BY <2>1, <2>3, <3>1 DEF BindingHolds
    <3> QED
      BY <1>3, <2>2, <3>1, <3>2
  <2>4. \A r \in bind[a].after : ToolDone(toolReq', r)
    BY <1>3, <2>2
  <2> QED
    BY <2>1, <2>3, <2>4 DEF BindingHolds
<1> QED
  BY <1>1, <1>4 DEF BindingsHold

\* A request begins; a creation or a deletion is over with that.
LEMMA ToolBegins ==
  ASSUME RequestsAssumption, NoneIsNoTool, ToolInv, NEW r \in Requests, NEW op, NEW t \in Ids, NEW of, NEW pc, NEW x,
         F!Begins(r, op, t, of, pc), tool' = [tool EXCEPT ![t] = x],
         \/ /\ op \in Updates /\ pc = "write" /\ IsStored(tool[t]) /\ x = tool[t]
            /\ of \in {"f", "mcp", None} /\ (op = "config" => of # None)
         \/ op = "delete" /\ pc = "over" /\ IsStored(tool[t]) /\ x = None /\ of = None
         \/ op = "create" /\ pc = "over" /\ tool[t] = Unused /\ of \in {"f", "mcp"} /\ x = F!Record(of, r)
  PROVE  ToolInv'
<1> DEFINE to == [op |-> op, t |-> t, of |-> of, pc |-> pc, began |-> F!Now,
                  copy |-> IF pc = "write" THEN tool[t] ELSE None]
<1>1. /\ CatalogInv /\ ToolTypes /\ toolReq \in [Requests -> ToolRequest] /\ InOrder(toolReq, toolMet)
      /\ tool \in [Ids -> ToolRecord \cup {None, Unused}] /\ tool[t] \in ToolRecord \cup {None, Unused}
      /\ F!Now = Cardinality(Begun(toolReq)) /\ F!Now \in Nat
  <2>1. IsFiniteSet(Begun(toolReq))
    BY FS_Subset DEF Begun, RequestsAssumption
  <2>2. F!Now = Cardinality(Begun(toolReq))
    BY DEF F!Now, Begun, F!Cardinality, Cardinality
  <2> QED
    BY <2>1, <2>2, FS_CardinalityType DEF ToolInv, CatalogInv, ToolTypes
<1>2. to \in ToolRequest /\ x \in ToolRecord \cup {None, Unused} /\ x # Unused
      /\ (pc = "write" => tool[t] \in ToolRecord /\ tool[t] # None /\ op \in Updates)
      /\ op # "none" /\ pc \in {"write", "over"} /\ (op = "config" => of # None)
  <2>1. ASSUME op = "create" PROVE x \in ToolRecord
    <3>1. of \in {"f", "mcp"} /\ x = F!Record(of, r)
      BY <2>1 DEF Updates
    <3>2. x = [of |-> of, by |-> r, on |-> TRUE, switch |-> r]
      BY <3>1 DEF F!Record
    <3> HIDE DEF to
    <3> QED
      BY <3>1, <3>2 DEF ToolRecord
  <2>2. pc = "write" => tool[t] \in ToolRecord /\ tool[t] # None
    BY <1>1 DEF IsStored
  <2>3. op \in {"create", "delete", "config", "on", "off"} /\ pc \in {"write", "over"} /\ of \in {"f", "mcp", None}
    BY DEF Updates
  <2>4. x \in ToolRecord \cup {None, Unused} /\ x # Unused
    BY <1>1, <2>1, <2>2, NoneIsNoTool
  <2>5. to \in ToolRequest
    BY <1>1, <2>2, <2>3 DEF ToolRequest
  <2>6. pc = "write" => op \in Updates
    OBVIOUS
  <2> QED
    BY <2>2, <2>3, <2>4, <2>5, <2>6
<1>3. /\ toolReq' = [toolReq EXCEPT ![r] = to] /\ toolReq[r].pc = "idle" /\ toolBoot = {}
      /\ toolMet' = toolMet \cup {{r, s} : s \in Writing(toolReq)}
      /\ UNCHANGED <<toolBoot, toolset, bind>>
  BY DEF F!Begins, F!Open, Writing
<1>4. /\ toolReq'[r].op = op /\ toolReq'[r].t = t /\ toolReq'[r].pc = pc /\ toolReq'[r].of = of
      /\ toolReq'[r].began = F!Now /\ (pc = "write" => toolReq'[r].copy = tool[t])
      /\ \A s \in Requests : s # r => toolReq'[s] = toolReq[s]
  BY <1>1, <1>3
<1>5. /\ tool'[t] = x /\ \A u \in Ids : u # t => tool'[u] = tool[u]
      /\ tool' \in [Ids -> ToolRecord \cup {None, Unused}]
  BY <1>1, <1>2
<1> HIDE DEF to
<1>6. Joins(toolReq, toolMet, toolReq', toolMet', r)
  BY <1>1, <1>2, <1>3, <1>4 DEF Joins, Begun
<1>7. InOrder(toolReq', toolMet') /\ \A s \in Begun(toolReq) : toolReq'[r].began > toolReq'[s].began
  BY <1>1, <1>6, OrderBegins DEF RequestsAssumption
<1>8. ToolForward(toolReq, toolReq') /\ toolMet \subseteq toolMet'
  BY <1>3, <1>4 DEF ToolForward
<1>9. /\ \A s \in Begun(toolReq') : s = r \/ (s \in Begun(toolReq) /\ s # r /\ toolReq'[s] = toolReq[s])
      /\ \A s \in Writing(toolReq') : \/ s = r /\ pc = "write"
                                      \/ s \in Writing(toolReq) /\ s # r /\ toolReq'[s] = toolReq[s]
      /\ \A s \in Requests : ToolDone(toolReq', s) =>
           \/ s = r /\ pc = "over"
           \/ s # r /\ ToolDone(toolReq, s) /\ toolReq'[s] = toolReq[s] /\ s \in Begun(toolReq)
  BY <1>3, <1>4 DEF Begun, Writing, ToolDone
<1>10. \A s \in Begun(toolReq) : toolReq[s].t \in Ids /\ tool[toolReq[s].t] # Unused /\ toolReq[s].op # "none"
  BY <1>1 DEF ToolTypes
<1>11. \A s \in Requests : F!Alone(s)' => F!Alone(s)
  BY <1>3 DEF F!Alone
<1>12. \A s \in Begun(toolReq) : /\ \A y : ToolStands(toolReq, s, y) => ToolStands(toolReq', s, y)
                                 /\ ToolRemoved(toolReq, s) => ToolRemoved(toolReq', s)
                                 /\ ToolBack(toolReq, toolMet, s) => ToolBack(toolReq', toolMet', s)
  BY <1>1, <1>8, ToolCarries DEF Begun
<1>13. ToolTypes'
  <2>1. toolReq' \in [Requests -> ToolRequest]
    BY <1>1, <1>2, <1>3
  <2>2. \A s \in Begun(toolReq') : toolReq'[s].t \in Ids /\ tool'[toolReq'[s].t] # Unused /\ toolReq'[s].op # "none"
    BY <1>2, <1>4, <1>5, <1>9, <1>10
  <2>3. \A s \in Writing(toolReq') : /\ toolReq'[s].op \in Updates /\ toolReq'[s].copy # None
                                     /\ toolReq'[s].op = "config" => toolReq'[s].of # None
    BY <1>1, <1>2, <1>4, <1>9 DEF ToolTypes
  <2>4. toolBoot' = {}
    BY <1>3
  <2> QED
    BY <1>5, <2>1, <2>2, <2>3, <2>4 DEF ToolTypes
<1>14. CreatedFirst'
  <2> SUFFICES ASSUME NEW w \in Begun(toolReq'), NEW s \in Begun(toolReq'), toolReq'[w].op = "create",
                      toolReq'[s].t = toolReq'[w].t, s # w
               PROVE  toolReq'[s].began > toolReq'[w].began
    BY DEF CreatedFirst
  <2>1. CASE s = r
    BY <1>7, <1>9, <2>1
  <2>2. CASE w = r
    BY <1>4, <1>9, <1>10, <2>2 DEF IsStored, Updates
  <2>3. CASE s # r /\ w # r
    BY <1>1, <1>9, <2>3 DEF CatalogInv, CreatedFirst
  <2> QED
    BY <2>1, <2>2, <2>3
<1>15. SwitchesHold'
  <2>1. \A u \in Ids : IsStored(tool[u]) => SwitchIsTrue(toolReq', u, tool[u])
    BY <1>1, <1>8, SwitchCarries DEF CatalogInv, SwitchesHold
  <2>2. \A s \in Writing(toolReq) : SwitchIsTrue(toolReq', toolReq[s].t, toolReq[s].copy)
    BY <1>1, <1>8, SwitchCarries DEF CatalogInv, SwitchesHold
  <2>3. IsStored(x) => SwitchIsTrue(toolReq', t, x)
    <3>1. CASE op = "create" /\ pc = "over" /\ x = F!Record(of, r)
      <4>1. x.switch = r /\ x.on = TRUE
        BY <3>1 DEF F!Record
      <4> QED
        BY <1>4, <3>1, <4>1 DEF SwitchIsTrue, ToolDone
    <3> QED
      BY <2>1, <3>1 DEF IsStored, Updates
  <2>4. \A u \in Ids : IsStored(tool'[u]) => SwitchIsTrue(toolReq', u, tool'[u])
    BY <1>5, <2>1, <2>3
  <2>5. \A s \in Writing(toolReq') : SwitchIsTrue(toolReq', toolReq'[s].t, toolReq'[s].copy)
    BY <1>1, <1>2, <1>4, <1>9, <2>1, <2>2, NoneIsNoTool DEF IsStored
  <2> QED
    BY <2>4, <2>5 DEF SwitchesHold
<1>16. ToolKept'
  <2> SUFFICES ASSUME NEW s \in Requests, ToolDone(toolReq', s), toolReq'[s].op \in Updates, F!Alone(s)'
               PROVE  /\ IF IsStored(tool'[toolReq'[s].t]) THEN ToolStands(toolReq', s, tool'[toolReq'[s].t])
                         ELSE ToolRemoved(toolReq', s)
                      /\ \A q \in Writing(toolReq') : toolReq'[q].t = toolReq'[s].t =>
                           ToolStands(toolReq', s, toolReq'[q].copy)
    BY DEF ToolKept
  <2>1. s # r /\ ToolDone(toolReq, s) /\ toolReq'[s] = toolReq[s] /\ s \in Begun(toolReq)
    BY <1>2, <1>4, <1>9 DEF Updates
  <2>2. /\ IF IsStored(tool[toolReq[s].t]) THEN ToolStands(toolReq', s, tool[toolReq[s].t])
           ELSE ToolRemoved(toolReq', s)
        /\ \A q \in Writing(toolReq) : toolReq[q].t = toolReq[s].t => ToolStands(toolReq', s, toolReq[q].copy)
    BY <1>1, <1>11, <1>12, <2>1 DEF CatalogInv, ToolKept
  <2>3. toolReq[s].t \in Ids /\ tool[toolReq[s].t] # Unused
    BY <1>10, <2>1
  <2>4. IF IsStored(tool'[toolReq'[s].t]) THEN ToolStands(toolReq', s, tool'[toolReq'[s].t])
        ELSE ToolRemoved(toolReq', s)
    <3>1. CASE toolReq[s].t # t \/ x = tool[t]
      BY <1>5, <2>1, <2>2, <2>3, <3>1
    <3>2. CASE toolReq[s].t = t /\ op = "delete" /\ pc = "over" /\ x = None
      BY <1>4, <1>5, <1>7, <2>1, <3>2 DEF IsStored, ToolRemoved, ToolDone
    <3> QED
      BY <2>3, <3>1, <3>2
  <2>5. \A q \in Writing(toolReq') : toolReq'[q].t = toolReq'[s].t => ToolStands(toolReq', s, toolReq'[q].copy)
    BY <1>2, <1>4, <1>9, <2>1, <2>2, NoneIsNoTool DEF IsStored
  <2> QED
    BY <2>4, <2>5
<1>17. ToolsGone'
  <2> SUFFICES ASSUME NEW d \in Requests, ToolDone(toolReq', d), toolReq'[d].op = "delete"
               PROVE  /\ IsStored(tool'[toolReq'[d].t]) => ToolBack(toolReq', toolMet', d)
                      /\ \A s \in Writing(toolReq') : toolReq'[s].t = toolReq'[d].t =>
                           {s, d} \in toolMet' \/ ToolBack(toolReq', toolMet', d)
    BY DEF ToolsGone
  <2>1. CASE d = r
    <3>1. pc = "over" /\ op = "delete" /\ x = None
      BY <1>4, <2>1 DEF ToolDone, Updates
    <3>2. \A s \in Writing(toolReq') : s \in Writing(toolReq) /\ {s, r} = {r, s}
      BY <1>9, <3>1
    <3> QED
      BY <1>3, <1>4, <1>5, <2>1, <3>1, <3>2 DEF IsStored
  <2>2. CASE d # r
    <3>1. ToolDone(toolReq, d) /\ toolReq'[d] = toolReq[d] /\ d \in Begun(toolReq)
      BY <1>9, <2>2
    <3>2. /\ IsStored(tool[toolReq[d].t]) => ToolBack(toolReq', toolMet', d)
          /\ \A s \in Writing(toolReq) : toolReq[s].t = toolReq[d].t =>
               {s, d} \in toolMet' \/ ToolBack(toolReq', toolMet', d)
      BY <1>1, <1>8, <1>12, <3>1 DEF CatalogInv, ToolsGone
    <3>3. toolReq[d].t \in Ids /\ tool[toolReq[d].t] # Unused
      BY <1>10, <3>1
    <3>4. IsStored(tool'[toolReq'[d].t]) => ToolBack(toolReq', toolMet', d)
      BY <1>5, <3>1, <3>2, <3>3 DEF IsStored
    <3>5. \A s \in Writing(toolReq') : toolReq'[s].t = toolReq'[d].t =>
               {s, d} \in toolMet' \/ ToolBack(toolReq', toolMet', d)
      BY <1>2, <1>4, <1>9, <3>1, <3>2, NoneIsNoTool DEF IsStored
    <3> QED
      BY <3>4, <3>5
  <2> QED
    BY <2>1, <2>2
<1>18. SeedsHold'
  <2>1. \A f \in {"f"}, u \in Ids : SeedAt(u, f)' => SeedAt(u, f)
    <3> SUFFICES ASSUME NEW f \in {"f"}, NEW u \in Ids, SeedAt(u, f)' PROVE SeedAt(u, f)
      OBVIOUS
    <3>1. CASE IsSeeded(tool'[u], f)
      <4>1. CASE u = t /\ op = "create" /\ x = F!Record(of, r)
        <5>1. x.by = r
          BY <4>1 DEF F!Record
        <5> QED
          BY <1>5, <3>1, <4>1, <5>1 DEF IsSeeded, RequestsAssumption
      <4> QED
        BY <1>5, <3>1, <4>1 DEF IsSeeded, SeedAt, IsStored
    <3>2. CASE \E s \in Writing(toolReq') : toolReq'[s].t = u /\ IsSeeded(toolReq'[s].copy, f)
      BY <1>4, <1>9, <3>2 DEF SeedAt
    <3> QED
      BY <3>1, <3>2 DEF SeedAt
  <2> QED
    BY <1>1, <1>3, <2>1 DEF CatalogInv, SeedsHold
<1>19. BindTypes' /\ BindingsHold'
  BY <1>3, <1>8, BindingsCarry
<1> QED
  BY <1>7, <1>13, <1>14, <1>15, <1>16, <1>17, <1>18, <1>19 DEF ToolInv, CatalogInv

\* A request writes the record that it read and changed.
LEMMA ToolUpdates ==
  ASSUME RequestsAssumption, NoneIsNoTool, ToolInv, NEW r \in Requests, F!Update(r) PROVE ToolInv'
<1> DEFINE t == toolReq[r].t
           x == F!Updated(r)
<1>1. /\ CatalogInv /\ ToolTypes /\ toolReq \in [Requests -> ToolRequest] /\ InOrder(toolReq, toolMet)
      /\ tool \in [Ids -> ToolRecord \cup {None, Unused}]
  BY DEF ToolInv, CatalogInv, ToolTypes
<1>2. r \in Writing(toolReq) /\ r \in Begun(toolReq) /\ toolReq[r].pc = "write" /\ toolReq[r] \in ToolRequest
  BY <1>1 DEF F!Update, F!Open, Writing, Begun
<1>3. /\ t \in Ids /\ toolReq[r].op \in Updates /\ toolReq[r].copy \in ToolRecord /\ IsStored(toolReq[r].copy)
      /\ toolReq[r].op = "config" => toolReq[r].of \in {"f", "mcp"}
  BY <1>1, <1>2, NoneIsNoTool DEF ToolTypes, ToolRequest, IsStored
<1>4. x \in ToolRecord /\ IsStored(x)
  <2>1. x \in ToolRecord
    BY <1>3 DEF F!Updated, ToolRecord
  <2> QED
    BY <2>1, NoneIsNoTool DEF IsStored
<1>5. /\ toolReq[r].op = "config" => /\ x.by = r
                                     /\ x.switch = toolReq[r].copy.switch /\ x.on = toolReq[r].copy.on
      /\ toolReq[r].op # "config" => /\ x.switch = r /\ x.on = (toolReq[r].op = "on")
                                     /\ x.by = toolReq[r].copy.by /\ x.of = toolReq[r].copy.of
  BY <1>3 DEF F!Updated, ToolRecord
<1>6. /\ tool' = [tool EXCEPT ![t] = x] /\ toolReq' = [toolReq EXCEPT ![r].pc = "over", ![r].copy = None]
      /\ UNCHANGED <<toolBoot, toolset, bind, toolMet>>
  BY DEF F!Update
<1> HIDE DEF x
<1>7. /\ tool'[t] = x /\ \A u \in Ids : u # t => tool'[u] = tool[u]
      /\ tool' \in [Ids -> ToolRecord \cup {None, Unused}]
  BY <1>1, <1>3, <1>4, <1>6
<1>8. /\ toolReq' \in [Requests -> ToolRequest]
      /\ toolReq'[r].pc = "over" /\ toolReq'[r].op = toolReq[r].op /\ toolReq'[r].t = t
      /\ toolReq'[r].of = toolReq[r].of /\ toolReq'[r].began = toolReq[r].began
      /\ \A s \in Requests : s # r => toolReq'[s] = toolReq[s]
  BY <1>1, <1>2, <1>6 DEF ToolRequest
<1> HIDE DEF t
<1>9. InOrder(toolReq', toolMet')
  <2>1. \A s \in Requests : /\ toolReq'[s].began = toolReq[s].began /\ (toolReq'[s].pc = "idle" <=> toolReq[s].pc = "idle")
                            /\ toolReq'[s].pc = "write" => toolReq[s].pc = "write"
    BY <1>2, <1>8
  <2>2. InOrder(toolReq', toolMet)
    BY <1>1, <2>1, OrderGoesOn
  <2> QED
    BY <1>6, <2>2
<1>10. ToolForward(toolReq, toolReq')
  BY <1>2, <1>8 DEF ToolForward, t
<1>11. /\ Begun(toolReq') = Begun(toolReq) /\ Begun(toolReq) \subseteq Requests
       /\ \A s \in Writing(toolReq') : s \in Writing(toolReq) /\ s # r /\ toolReq'[s] = toolReq[s] /\ s \in Requests
       /\ \A s \in Requests : ToolDone(toolReq', s) =>
            s = r \/ (s # r /\ ToolDone(toolReq, s) /\ toolReq'[s] = toolReq[s]
                      /\ s \in Begun(toolReq) \ Writing(toolReq))
  BY <1>2, <1>8 DEF Begun, Writing, ToolDone
<1>12. \A s \in Begun(toolReq) : /\ \A y : ToolStands(toolReq, s, y) => ToolStands(toolReq', s, y)
                                 /\ ToolRemoved(toolReq, s) => ToolRemoved(toolReq', s)
                                 /\ ToolBack(toolReq, toolMet, s) => ToolBack(toolReq', toolMet', s)
                                 /\ toolReq'[s].began = toolReq[s].began /\ toolReq'[s].t = toolReq[s].t
                                 /\ toolReq'[s].op = toolReq[s].op
  <2>1. toolMet' = toolMet /\ toolMet \subseteq toolMet'
    BY <1>6
  <2> QED
    BY <1>1, <1>10, <2>1, ToolCarries DEF Begun
<1>13. \A s \in Begun(toolReq) : toolReq[s].t \in Ids /\ tool[toolReq[s].t] # Unused /\ toolReq[s].op # "none"
  BY <1>1 DEF ToolTypes
<1>14. toolBoot = {}
  BY <1>1, <1>2 DEF ToolTypes
<1>15. ToolTypes'
  <2>1. \A s \in Begun(toolReq') : toolReq'[s].t \in Ids /\ tool'[toolReq'[s].t] # Unused /\ toolReq'[s].op # "none"
    BY <1>4, <1>7, <1>11, <1>12, <1>13 DEF IsStored
  <2>2. \A s \in Writing(toolReq') : /\ toolReq'[s].op \in Updates /\ toolReq'[s].copy # None
                                     /\ toolReq'[s].op = "config" => toolReq'[s].of # None
    BY <1>1, <1>11 DEF ToolTypes
  <2> QED
    BY <1>6, <1>7, <1>8, <1>14, <2>1, <2>2 DEF ToolTypes
<1>16. CreatedFirst'
  BY <1>1, <1>11, <1>12 DEF CatalogInv, CreatedFirst
<1>17. SwitchesHold'
  <2>1. /\ \A u \in Ids : IsStored(tool[u]) => SwitchIsTrue(toolReq', u, tool[u])
        /\ \A s \in Writing(toolReq) : SwitchIsTrue(toolReq', toolReq[s].t, toolReq[s].copy)
    BY <1>1, <1>10, SwitchCarries DEF CatalogInv, SwitchesHold
  <2>2. SwitchIsTrue(toolReq', t, x)
    <3>1. CASE toolReq[r].op = "config"
      <4>1. SwitchIsTrue(toolReq', t, toolReq[r].copy)
        BY <1>2, <2>1 DEF t
      <4> QED
        BY <1>5, <3>1, <4>1 DEF SwitchIsTrue
    <3>2. CASE toolReq[r].op # "config"
      <4>1. toolReq[r].op \in {"on", "off"} /\ x.switch = r /\ x.on = (toolReq[r].op # "off")
        BY <1>3, <1>5, <3>2 DEF Updates
      <4> QED
        BY <1>8, <4>1 DEF SwitchIsTrue, ToolDone
    <3> QED
      BY <3>1, <3>2
  <2>3. \A u \in Ids : IsStored(tool'[u]) => SwitchIsTrue(toolReq', u, tool'[u])
    BY <1>7, <2>1, <2>2
  <2>4. \A s \in Writing(toolReq') : SwitchIsTrue(toolReq', toolReq'[s].t, toolReq'[s].copy)
    BY <1>11, <2>1
  <2> QED
    BY <2>3, <2>4 DEF SwitchesHold
<1>18. ToolKept'
  <2> SUFFICES ASSUME NEW s \in Requests, ToolDone(toolReq', s), toolReq'[s].op \in Updates, F!Alone(s)'
               PROVE  /\ IF IsStored(tool'[toolReq'[s].t]) THEN ToolStands(toolReq', s, tool'[toolReq'[s].t])
                         ELSE ToolRemoved(toolReq', s)
                      /\ \A q \in Writing(toolReq') : toolReq'[q].t = toolReq'[s].t =>
                           ToolStands(toolReq', s, toolReq'[q].copy)
    BY DEF ToolKept
  <2>1. F!Alone(s) /\ \A q \in Requests : {s, q} \notin toolMet \/ q = s
    BY <1>6 DEF F!Alone
  <2>2. CASE s = r
    <3>1. ToolStands(toolReq', r, x)
      BY <1>5, <1>8 DEF ToolStands
    <3>2. \A q \in Writing(toolReq') : {r, q} \in toolMet
      BY <1>1, <1>2, <1>11 DEF InOrder
    <3> QED
      BY <1>4, <1>7, <1>8, <1>11, <2>1, <2>2, <3>1, <3>2
  <2>3. CASE s # r
    <3>1. /\ ToolDone(toolReq, s) /\ toolReq'[s] = toolReq[s] /\ s \in Begun(toolReq) \ Writing(toolReq)
          /\ toolReq[s].t \in Ids
      BY <1>11, <1>13, <2>3
    <3>2. /\ IF IsStored(tool[toolReq[s].t]) THEN ToolStands(toolReq', s, tool[toolReq[s].t])
             ELSE ToolRemoved(toolReq', s)
          /\ \A q \in Writing(toolReq) : toolReq[q].t = toolReq[s].t => ToolStands(toolReq', s, toolReq[q].copy)
      BY <1>1, <1>12, <2>1, <3>1 DEF CatalogInv, ToolKept
    <3>3. \A q \in Writing(toolReq') : toolReq'[q].t = toolReq'[s].t => ToolStands(toolReq', s, toolReq'[q].copy)
      BY <1>11, <3>1, <3>2
    <3>4. toolReq'[r].began > toolReq'[s].began
      BY <1>1, <1>2, <1>8, <2>1, <2>3, <3>1 DEF InOrder
    <3>5. ASSUME toolReq[s].t = t PROVE ToolStands(toolReq', s, x)
      <4>1. ToolStands(toolReq', s, toolReq[r].copy)
        BY <1>2, <3>2, <3>5 DEF t
      <4> QED
        BY <1>5, <3>4, <4>1 DEF ToolStands
    <3> QED
      BY <1>4, <1>7, <3>1, <3>2, <3>3, <3>5
  <2> QED
    BY <2>2, <2>3
<1>19. ToolsGone'
  <2> SUFFICES ASSUME NEW d \in Requests, ToolDone(toolReq', d), toolReq'[d].op = "delete"
               PROVE  /\ IsStored(tool'[toolReq'[d].t]) => ToolBack(toolReq', toolMet', d)
                      /\ \A s \in Writing(toolReq') : toolReq'[s].t = toolReq'[d].t =>
                           {s, d} \in toolMet' \/ ToolBack(toolReq', toolMet', d)
    BY DEF ToolsGone
  <2>1. /\ d # r /\ ToolDone(toolReq, d) /\ toolReq'[d] = toolReq[d] /\ d \in Begun(toolReq) /\ toolReq[d].t \in Ids
    BY <1>3, <1>8, <1>11, <1>13 DEF Updates
  <2>2. /\ IsStored(tool[toolReq[d].t]) => ToolBack(toolReq', toolMet', d)
        /\ \A s \in Writing(toolReq) : toolReq[s].t = toolReq[d].t => {s, d} \in toolMet' \/ ToolBack(toolReq', toolMet', d)
    BY <1>1, <1>6, <1>12, <2>1 DEF CatalogInv, ToolsGone
  <2>3. ASSUME toolReq[d].t = t, {r, d} \in toolMet' PROVE ToolBack(toolReq', toolMet', d)
    BY <1>3, <1>8, <2>1, <2>3 DEF ToolBack, ToolDone, Updates
  <2>4. toolReq[d].t = t => ToolBack(toolReq', toolMet', d)
    BY <1>2, <2>2, <2>3 DEF t
  <2> QED
    BY <1>7, <1>11, <2>1, <2>2, <2>4
<1>20. SeedsHold'
  <2>1. \A f \in {"f"}, u \in Ids : SeedAt(u, f)' => SeedAt(u, f)
    <3> SUFFICES ASSUME NEW f \in {"f"}, NEW u \in Ids, SeedAt(u, f)' PROVE SeedAt(u, f)
      OBVIOUS
    <3>1. ASSUME IsSeeded(x, f) PROVE SeedAt(t, f)
      <4>1. IsSeeded(toolReq[r].copy, f)
        BY <1>3, <1>5, <3>1 DEF IsSeeded, RequestsAssumption
      <4> QED
        BY <1>2, <4>1 DEF SeedAt, t
    <3>2. CASE IsSeeded(tool'[u], f)
      BY <1>7, <3>1, <3>2 DEF SeedAt
    <3>3. CASE \E s \in Writing(toolReq') : toolReq'[s].t = u /\ IsSeeded(toolReq'[s].copy, f)
      BY <1>11, <3>3 DEF SeedAt
    <3> QED
      BY <3>2, <3>3 DEF SeedAt
  <2> QED
    BY <1>1, <1>6, <1>14, <2>1 DEF CatalogInv, SeedsHold
<1>21. BindTypes' /\ BindingsHold'
  BY <1>6, <1>10, BindingsCarry
<1> QED
  BY <1>9, <1>15, <1>16, <1>17, <1>18, <1>19, <1>20, <1>21 DEF ToolInv, CatalogInv

\* Updates end without a write, while what is stored stays.
ToolFailed(x) == [x EXCEPT !.pc = "failed", !.copy = None]

LEMMA ToolEnds ==
  ASSUME RequestsAssumption, CatalogInv, UNCHANGED <<tool, toolMet>>,
         toolReq' = [r \in Requests |-> toolReq'[r]],
         \A r \in Requests :
           toolReq'[r] = toolReq[r] \/ (toolReq[r].pc = "write" /\ toolReq'[r] = ToolFailed(toolReq[r])),
         toolBoot' = None \/ toolBoot' \subseteq {"f"},
         toolBoot' # {} => Writing(toolReq') = {},
         toolBoot' # None => \A f \in toolBoot', t \in Ids : IsStored(tool[t]) => tool[t].of # f
  PROVE  CatalogInv' /\ ToolForward(toolReq, toolReq')
<1>1. ToolTypes /\ toolReq \in [Requests -> ToolRequest] /\ InOrder(toolReq, toolMet)
  BY DEF CatalogInv, ToolTypes
<1>2. \A r \in Requests :
        /\ toolReq'[r] \in ToolRequest
        /\ toolReq'[r].op = toolReq[r].op /\ toolReq'[r].t = toolReq[r].t /\ toolReq'[r].of = toolReq[r].of
        /\ toolReq'[r].began = toolReq[r].began
        /\ \/ toolReq'[r] = toolReq[r]
           \/ toolReq[r].pc = "write" /\ toolReq'[r].pc = "failed"
  <2> SUFFICES ASSUME NEW r \in Requests
               PROVE  /\ toolReq'[r] \in ToolRequest
                      /\ toolReq'[r].op = toolReq[r].op /\ toolReq'[r].t = toolReq[r].t /\ toolReq'[r].of = toolReq[r].of
                      /\ toolReq'[r].began = toolReq[r].began
                      /\ \/ toolReq'[r] = toolReq[r]
                         \/ toolReq[r].pc = "write" /\ toolReq'[r].pc = "failed"
    OBVIOUS
  <2>1. toolReq[r] \in ToolRequest
    BY <1>1
  <2>2. ToolFailed(toolReq[r]) \in ToolRequest
    BY <2>1 DEF ToolRequest, ToolFailed
  <2> QED
    BY <2>1, <2>2 DEF ToolRequest, ToolFailed
<1>3. toolReq' \in [Requests -> ToolRequest]
  BY <1>2
<1>4. InOrder(toolReq', toolMet)
  <2>1. \A s \in Requests : /\ toolReq'[s].began = toolReq[s].began /\ (toolReq'[s].pc = "idle" <=> toolReq[s].pc = "idle")
                            /\ toolReq'[s].pc = "write" => toolReq[s].pc = "write"
    BY <1>2
  <2> QED
    BY <1>1, <2>1, OrderGoesOn
<1>5. ToolForward(toolReq, toolReq')
  BY <1>2 DEF ToolForward
<1>6. /\ Begun(toolReq') = Begun(toolReq) /\ Begun(toolReq) \subseteq Requests
      /\ \A s \in Writing(toolReq') : s \in Writing(toolReq) /\ toolReq'[s] = toolReq[s]
      /\ \A s \in Requests : ToolDone(toolReq', s) =>
           ToolDone(toolReq, s) /\ toolReq'[s] = toolReq[s] /\ s \in Begun(toolReq)
  BY <1>2 DEF Begun, Writing, ToolDone
<1>7. \A s \in Begun(toolReq) : /\ \A y : ToolStands(toolReq, s, y) => ToolStands(toolReq', s, y)
                                /\ ToolRemoved(toolReq, s) => ToolRemoved(toolReq', s)
                                /\ ToolBack(toolReq, toolMet, s) => ToolBack(toolReq', toolMet, s)
                                /\ toolReq'[s].began = toolReq[s].began /\ toolReq'[s].t = toolReq[s].t
                                /\ toolReq'[s].op = toolReq[s].op
  BY <1>1, <1>5, ToolCarries DEF Begun
<1>8. ToolTypes'
  BY <1>1, <1>3, <1>6, <1>7 DEF ToolTypes
<1>9. CreatedFirst'
  BY <1>6, <1>7 DEF CatalogInv, CreatedFirst
<1>10. SwitchesHold'
  <2>1. /\ \A u \in Ids : IsStored(tool[u]) => SwitchIsTrue(toolReq', u, tool[u])
        /\ \A s \in Writing(toolReq) : SwitchIsTrue(toolReq', toolReq[s].t, toolReq[s].copy)
    BY <1>5, SwitchCarries DEF CatalogInv, SwitchesHold
  <2> QED
    BY <1>6, <2>1 DEF SwitchesHold
<1>11. ToolKept'
  <2>1. \A s \in Requests : F!Alone(s)' => F!Alone(s)
    BY DEF F!Alone
  <2> QED
    BY <1>6, <1>7, <2>1 DEF CatalogInv, ToolKept
<1>12. ToolsGone'
  BY <1>6, <1>7 DEF CatalogInv, ToolsGone
<1>13. SeedsHold'
  <2>1. \A f \in {"f"}, u \in Ids : SeedAt(u, f)' => SeedAt(u, f)
    BY <1>6 DEF SeedAt
  <2> QED
    BY <2>1 DEF CatalogInv, SeedsHold
<1> QED
  BY <1>4, <1>5, <1>8, <1>9, <1>10, <1>11, <1>12, <1>13 DEF CatalogInv

\* The start seeds the function f, of which nothing is stored.
LEMMA ToolSeeds ==
  ASSUME RequestsAssumption, NoneIsNoTool, ToolInv, toolBoot # None, NEW f \in toolBoot, F!Seed(f) PROVE ToolInv'
<1>1. PICK t \in Ids : tool[t] = Unused /\ tool' = [tool EXCEPT ![t] = F!Record(f, "seed")]
  BY DEF F!Seed, F!Free
<1>2. /\ CatalogInv /\ ToolTypes /\ tool \in [Ids -> ToolRecord \cup {None, Unused}]
      /\ UNCHANGED <<toolReq, toolset, bind, toolMet>> /\ toolBoot' = {} /\ f = "f"
  BY DEF ToolInv, CatalogInv, ToolTypes, F!Seed
<1>3. Writing(toolReq) = {} /\ \A u \in Ids : IsStored(tool[u]) => tool[u].of # f
  BY <1>2 DEF CatalogInv, ToolTypes, SeedsHold
<1>4. F!Record(f, "seed") \in ToolRecord /\ F!Record(f, "seed").switch = "seed" /\ F!Record(f, "seed") # Unused
  <2>1. F!Record(f, "seed") = [of |-> "f", by |-> "seed", on |-> TRUE, switch |-> "seed"]
    BY <1>2 DEF F!Record
  <2>2. \A x : x = [of |-> "f", by |-> "seed", on |-> TRUE, switch |-> "seed"] => x \in ToolRecord
    BY DEF ToolRecord
  <2> QED
    BY <2>1, <2>2, NoneIsNoTool
<1>5. /\ tool'[t] = F!Record(f, "seed") /\ \A u \in Ids : u # t => tool'[u] = tool[u]
      /\ tool' \in [Ids -> ToolRecord \cup {None, Unused}]
  BY <1>1, <1>2, <1>4
<1>6. \A s \in Requests : s \in Begun(toolReq) \/ ToolDone(toolReq, s) => toolReq[s].t \in Ids /\ toolReq[s].t # t
  BY <1>1, <1>2 DEF ToolTypes, Begun, ToolDone
<1>7. ToolTypes'
  <2>1. \A s \in Begun(toolReq) : tool'[toolReq[s].t] # Unused
    BY <1>1, <1>2, <1>5, <1>6 DEF ToolTypes, Begun
  <2> QED
    BY <1>2, <1>5, <2>1 DEF ToolTypes
<1>8. SwitchesHold'
  <2>1. SwitchIsTrue(toolReq, t, tool'[t])
    BY <1>4, <1>5 DEF SwitchIsTrue, RequestsAssumption
  <2> QED
    BY <1>2, <1>3, <1>5, <2>1 DEF CatalogInv, SwitchesHold
<1>9. ToolKept' /\ ToolsGone'
  <2>1. \A s \in Requests : F!Alone(s)' => F!Alone(s)
    BY <1>2 DEF F!Alone
  <2> QED
    BY <1>2, <1>5, <1>6, <2>1 DEF CatalogInv, ToolKept, ToolsGone
<1>10. SeedsHold'
  <2>1. \A u \in Ids : SeedAt(u, "f")' => u = t
    BY <1>2, <1>3, <1>5 DEF SeedAt, IsSeeded
  <2> QED
    BY <1>2, <2>1 DEF SeedsHold
<1>11. BindTypes' /\ BindingsHold'
  <2>1. ToolForward(toolReq, toolReq') /\ toolMet \subseteq toolMet'
    BY <1>2 DEF ToolForward
  <2> QED
    BY <1>2, <2>1, BindingsCarry
<1> QED
  BY <1>2, <1>7, <1>8, <1>9, <1>10, <1>11 DEF ToolInv, CatalogInv, CreatedFirst

\* Bindings alone change.
LEMMA CatalogStays ==
  ASSUME RequestsAssumption, CatalogInv, UNCHANGED <<tool, toolReq, toolBoot, toolMet>>
  PROVE  CatalogInv' /\ \A r \in Requests : F!Alone(r)' <=> F!Alone(r)
<1>1. ToolTypes /\ toolReq' = [r \in Requests |-> toolReq'[r]] /\ Writing(toolReq') = Writing(toolReq)
  BY DEF CatalogInv, ToolTypes
<1>2. \A r \in Requests : toolReq'[r] = toolReq[r]
  OBVIOUS
<1>3. /\ toolBoot' = None \/ toolBoot' \subseteq {"f"}
      /\ toolBoot' # {} => Writing(toolReq') = {}
      /\ toolBoot' # None => \A f \in toolBoot', t \in Ids : IsStored(tool[t]) => tool[t].of # f
  BY <1>1 DEF CatalogInv, ToolTypes, SeedsHold
<1>4. \A r \in Requests : F!Alone(r)' <=> F!Alone(r)
  BY DEF F!Alone
<1> QED
  BY <1>1, <1>2, <1>3, <1>4, ToolEnds

LEMMA BindingStays ==
  ASSUME CatalogInv, UNCHANGED <<toolReq, toolMet>>, NEW b, b.after \subseteq Requests, BindingHolds(b),
         b.pc = "bound" /\ b.of = "mcp" => b.to = toolset'[b.t] /\ b.to # None
  PROVE  BindingHolds(b)'
<1>1. \A r \in Requests : F!Alone(r)' <=> F!Alone(r)
  BY DEF F!Alone
<1> QED
  BY <1>1 DEF BindingHolds, ToolDone

\* An agent is bound to a record that is switched on: what took it away was undone.
LEMMA ToolLooks ==
  ASSUME RequestsAssumption, NoneIsNoTool, ToolInv, NEW a \in Agents, F!Look(a) PROVE ToolInv'
<1>1. PICK t \in Ids : F!Usable(t) /\ bind' = [bind EXCEPT ![a] = F!Found(t)]
  BY DEF F!Look
<1>2. /\ CatalogInv /\ ToolTypes /\ InOrder(toolReq, toolMet) /\ bind \in [Agents -> Binding \cup {None}]
      /\ IsStored(tool[t]) /\ tool[t].on /\ tool[t] \in ToolRecord
      /\ UNCHANGED <<tool, toolReq, toolBoot, toolset, toolMet>>
  BY <1>1 DEF ToolInv, CatalogInv, ToolTypes, BindTypes, F!Look, F!Usable, F!Stored, IsStored
<1> DEFINE b == F!Found(t)
<1>3. /\ b.t = t /\ b.of = tool[t].of /\ b.by = tool[t].by /\ b.to = None /\ b.after = {r \in Requests : F!Done(r)}
      /\ b.pc = IF tool[t].of = "mcp" THEN "read" ELSE "bound"
  BY DEF F!Found
<1>4. b \in Binding
  <2>1. /\ tool[t].of \in {"f", "mcp"} /\ tool[t].by \in Writer /\ {r \in Requests : F!Done(r)} \in SUBSET Requests
        /\ (IF tool[t].of = "mcp" THEN "read" ELSE "bound") \in {"read", "bound"}
    BY <1>2 DEF ToolRecord, Writer
  <2> QED
    BY <2>1 DEF F!Found, Binding
<1>5. \A r \in b.after : r \in Requests /\ ToolDone(toolReq, r) /\ r \in Begun(toolReq)
  BY <1>3 DEF F!Done, ToolDone, Begun
<1>6. tool[t].by # None
  BY <1>2, NoneIsNoTool DEF ToolRecord, RequestsAssumption
<1> HIDE DEF b
<1>7. ASSUME NEW r \in b.after, toolReq[r].t = t, toolReq[r].op \in {"off", "delete"}, F!Alone(r)
      PROVE  \E s \in b.after : toolReq[s].began > toolReq[r].began /\ toolReq[s].t = toolReq[r].t /\ toolReq[s].op = "on"
  <2>1. ToolDone(toolReq, r) /\ r \in Requests /\ r \in Begun(toolReq)
    BY <1>5, <1>7
  <2>2. CASE toolReq[r].op = "off"
    <3>1. tool[t].switch = r \/ (tool[t].switch \in Requests /\ toolReq[tool[t].switch].began > toolReq[r].began)
      BY <1>2, <1>7, <2>1, <2>2 DEF CatalogInv, ToolKept, ToolStands, Updates
    <3>2. tool[t].switch \in Requests => /\ ToolDone(toolReq, tool[t].switch) /\ toolReq[tool[t].switch].t = t
                                         /\ toolReq[tool[t].switch].op \in {"create", "on", "off"}
                                         /\ tool[t].on = (toolReq[tool[t].switch].op # "off")
      BY <1>2 DEF CatalogInv, SwitchesHold, SwitchIsTrue
    <3> DEFINE w == tool[t].switch
    <3>3. /\ w \in Requests /\ w # r /\ toolReq[w].began > toolReq[r].began /\ ToolDone(toolReq, w)
          /\ toolReq[w].t = t /\ toolReq[w].op \in {"create", "on"}
      BY <1>2, <2>1, <2>2, <3>1, <3>2
    <3>4. w \in b.after /\ w \in Begun(toolReq)
      BY <1>3, <3>3 DEF F!Done, ToolDone, Begun
    <3> HIDE DEF w
    <3>5. toolReq[w].began \in Nat /\ toolReq[r].began \in Nat
      BY <1>2, <2>1, <3>3 DEF InOrder
    <3>6. toolReq[w].op # "create"
      BY <1>2, <1>7, <2>1, <3>3, <3>4, <3>5 DEF CatalogInv, CreatedFirst
    <3> QED
      BY <1>7, <3>3, <3>4, <3>6
  <2>3. CASE toolReq[r].op = "delete"
    <3>1. ToolBack(toolReq, toolMet, r)
      BY <1>2, <1>7, <2>1, <2>3 DEF CatalogInv, ToolsGone
    <3>2. PICK s \in Requests : toolReq[s].op \notin {"create", "delete"} /\ {s, r} \in toolMet
      BY <3>1 DEF ToolBack
    <3>3. {r, s} \in toolMet /\ s # r
      BY <2>3, <3>2
    <3> QED
      BY <1>7, <3>3 DEF F!Alone
  <2> QED
    BY <1>7, <2>2, <2>3
<1>8. BindingHolds(b)'
  <2>1. \A r \in Requests : F!Alone(r)' <=> F!Alone(r)
    BY <1>2 DEF F!Alone
  <2>2. b.pc = "read" => b.by # None
    BY <1>3, <1>6
  <2>3. ~(b.pc = "bound" /\ b.of = "mcp")
    BY <1>3
  <2>4. \A r \in b.after : r \in Requests /\ ToolDone(toolReq', r)
    BY <1>2, <1>5
  <2>5. \A r \in b.after : toolReq'[r].t = b.t /\ toolReq'[r].op \in {"off", "delete"} /\ F!Alone(r)' =>
          \E s \in b.after : toolReq'[s].began > toolReq'[r].began /\ toolReq'[s].t = toolReq'[r].t
                             /\ toolReq'[s].op = "on"
    BY <1>2, <1>3, <1>5, <1>7, <2>1
  <2>6. b' = b
    BY <1>2 DEF b, F!Found, F!Done
  <2> QED
    BY <2>2, <2>3, <2>4, <2>5, <2>6 DEF BindingHolds
<1>9. CatalogInv'
  BY <1>2, CatalogStays
<1>10. BindTypes'
  BY <1>1, <1>2, <1>4 DEF ToolInv, BindTypes, b
<1>11. ASSUME NEW c \in Agents, bind'[c] # None PROVE BindingHolds(bind[c])'
  <2>1. CASE c = a
    <3>1. bind'[c] = b
      BY <1>1, <1>2, <2>1 DEF b
    <3>2. b' = b
      BY <1>2 DEF b, F!Found, F!Done
    <3> QED
      BY <1>8, <3>1, <3>2 DEF BindingHolds
  <2>2. CASE c # a
    <3>1. bind'[c] = bind[c] /\ bind[c] \in Binding
      BY <1>1, <1>2, <1>11, <2>2
    <3>2. bind[c].after \subseteq Requests /\ BindingHolds(bind[c])
      BY <1>11, <3>1 DEF ToolInv, BindingsHold, Binding
    <3>3. \A x : x.after \subseteq Requests /\ BindingHolds(x) => BindingHolds(x)'
      BY <1>2, BindingStays DEF BindingHolds
    <3> QED
      BY <3>1, <3>2, <3>3 DEF BindingHolds
  <2> QED
    BY <2>1, <2>2
<1>12. BindingsHold'
  BY <1>11 DEF BindingsHold
<1> QED
  BY <1>9, <1>10, <1>12 DEF ToolInv

\* The toolset of a server is built once, and an agent that cannot have it goes
\* without.
LEMMA ToolFetches ==
  ASSUME RequestsAssumption, NoneIsNoTool, ToolInv, NEW a \in Agents, F!Fetch(a) \/ F!FetchFails(a) PROVE ToolInv'
<1>1. /\ CatalogInv /\ bind \in [Agents -> Binding \cup {None}] /\ toolset \in [Ids -> Writer \cup {None}]
      /\ bind[a] # None /\ bind[a].pc = "read" /\ bind[a] \in Binding
      /\ UNCHANGED <<tool, toolReq, toolBoot, toolMet>>
  BY DEF ToolInv, BindTypes, F!Fetch, F!FetchFails
<1>2. CatalogInv'
  BY <1>1, CatalogStays
<1>3. BindingHolds(bind[a]) /\ bind[a].by # None /\ bind[a].by \in Writer /\ bind[a].t \in Ids
  BY <1>1, NoneIsNoTool DEF ToolInv, BindingsHold, BindingHolds, Binding, Writer
<1>4. None \notin Writer
  BY NoneIsNoTool DEF RequestsAssumption, Writer
<1>5. CASE F!FetchFails(a)
  <2>1. bind' = [bind EXCEPT ![a] = None] /\ UNCHANGED toolset
    BY <1>5 DEF F!FetchFails
  <2>2. BindTypes'
    BY <1>1, <2>1 DEF BindTypes
  <2>3. ASSUME NEW c \in Agents, bind'[c] # None PROVE BindingHolds(bind[c])'
    <3>1. bind'[c] = bind[c] /\ bind[c] \in Binding
      BY <1>1, <2>1, <2>3
    <3>2. bind[c].after \subseteq Requests /\ BindingHolds(bind[c])
      BY <2>3, <3>1 DEF ToolInv, BindingsHold, Binding
    <3>3. \A x : x.after \subseteq Requests /\ BindingHolds(x) => BindingHolds(x)'
      BY <1>1, <2>1, BindingStays DEF BindingHolds
    <3> QED
      BY <3>1, <3>2, <3>3 DEF BindingHolds
  <2>4. BindingsHold'
    BY <2>3 DEF BindingsHold
  <2> QED
    BY <1>2, <2>2, <2>4 DEF ToolInv
<1>6. CASE F!Fetch(a)
  <2> DEFINE ts == F!Toolset(bind[a])
             t == bind[a].t
             b == [bind[a] EXCEPT !.pc = "bound", !.to = ts, !.by = None]
  <2>1. toolset' = [toolset EXCEPT ![t] = ts]
    BY <1>6 DEF F!Fetch
  <2>2. bind' = [bind EXCEPT ![a].pc = "bound", ![a].to = ts, ![a].by = None]
    BY <1>6 DEF F!Fetch
  <2>3. ts \in Writer /\ ts # None /\ (toolset[t] # None => ts = toolset[t])
    BY <1>1, <1>3, <1>4 DEF F!Toolset
  <2> HIDE DEF ts
  <2>4. bind'[a] = b /\ \A c \in Agents : c # a => bind'[c] = bind[c]
    BY <1>1, <2>2
  <2>5. /\ b \in Binding /\ b.t = bind[a].t /\ b.of = bind[a].of /\ b.after = bind[a].after
        /\ b.pc = "bound" /\ b.to = ts
    BY <1>1, <2>3 DEF Binding
  <2> HIDE DEF b
  <2>6. toolset'[t] = ts /\ \A u \in Ids : u # t => toolset'[u] = toolset[u]
    BY <1>1, <1>3, <2>1
  <2> HIDE DEF t
  <2>7. bind' \in [Agents -> Binding \cup {None}]
    BY <1>1, <2>2, <2>4, <2>5
  <2>8. BindTypes'
    BY <1>1, <1>3, <2>1, <2>3, <2>7 DEF BindTypes
  <2>9. \A r \in Requests : F!Alone(r)' <=> F!Alone(r)
    BY <1>1 DEF F!Alone
  <2>10. BindingHolds(bind[a])'
    <3>1. \A r \in b.after : r \in Requests
      BY <2>5 DEF Binding
    <3>2. \A r \in b.after :
            /\ ToolDone(toolReq', r)
            /\ toolReq'[r].t = b.t /\ toolReq'[r].op \in {"off", "delete"} /\ F!Alone(r)' =>
                 \E s \in b.after : toolReq'[s].began > toolReq'[r].began /\ toolReq'[s].t = toolReq'[r].t
                                    /\ toolReq'[s].op = "on"
      BY <1>1, <1>3, <2>5, <2>9, <3>1 DEF BindingHolds
    <3>3. b.to = toolset'[b.t] /\ b.to # None
      BY <2>3, <2>5, <2>6 DEF t
    <3> QED
      BY <2>4, <2>5, <3>2, <3>3 DEF BindingHolds
  <2>11. ASSUME NEW c \in Agents, bind'[c] # None, c # a PROVE BindingHolds(bind[c])'
    <3>1. bind'[c] = bind[c] /\ bind[c] \in Binding
      BY <1>1, <2>4, <2>11
    <3>2. bind[c].after \subseteq Requests /\ BindingHolds(bind[c]) /\ bind[c].t \in Ids
      BY <2>11, <3>1 DEF ToolInv, BindingsHold, Binding
    <3>3. bind[c].pc = "bound" /\ bind[c].of = "mcp" => bind[c].to = toolset'[bind[c].t] /\ bind[c].to # None
      BY <2>3, <2>6, <3>2 DEF BindingHolds
    <3>4. \A x : x.after \subseteq Requests /\ BindingHolds(x)
                 /\ (x.pc = "bound" /\ x.of = "mcp" => x.to = toolset'[x.t] /\ x.to # None) => BindingHolds(x)'
      BY <1>1, BindingStays
    <3> QED
      BY <3>1, <3>2, <3>3, <3>4 DEF BindingHolds
  <2>12. BindingsHold'
    BY <2>10, <2>11 DEF BindingsHold
  <2> QED
    BY <1>2, <2>8, <2>12 DEF ToolInv
<1> QED
  BY <1>5, <1>6

LEMMA ToolsNext ==
  ASSUME RequestsAssumption, NoneIsNoTool, ToolInv, [F!ToolNext]_toolVars PROVE ToolInv'
<1>1. /\ CatalogInv /\ ToolTypes /\ toolReq \in [Requests -> ToolRequest]
      /\ tool \in [Ids -> ToolRecord \cup {None, Unused}]
  BY DEF ToolInv, CatalogInv, ToolTypes
<1>2. ASSUME NEW r \in Requests, F!Create(r) PROVE ToolInv'
  <2>1. PICK t \in F!Free, of \in {"f"} \cup {"mcp"} :
          F!Begins(r, "create", t, of, "over") /\ tool' = [tool EXCEPT ![t] = F!Record(of, r)]
    BY <1>2 DEF F!Create
  <2>2. t \in Ids /\ tool[t] = Unused /\ of \in {"f", "mcp"}
    BY <2>1 DEF F!Free
  <2> QED
    BY <2>1, <2>2, ToolBegins
<1>3. ASSUME NEW r \in Requests, F!Delete(r) PROVE ToolInv'
  <2>1. PICK t \in Ids : F!Stored(t) /\ F!Begins(r, "delete", t, None, "over") /\ tool' = [tool EXCEPT ![t] = None]
    BY <1>3 DEF F!Delete
  <2>2. IsStored(tool[t])
    BY <2>1 DEF F!Stored, IsStored
  <2> QED
    BY <2>1, <2>2, ToolBegins
<1>4. ASSUME NEW r \in Requests, F!BeginUpdate(r) PROVE ToolInv'
  <2>1. PICK t \in Ids :
          /\ F!Stored(t) /\ UNCHANGED tool
          /\ \/ \E of \in {"f"} \cup {"mcp"} : F!Begins(r, "config", t, of, "write")
             \/ \E op \in {"on", "off"} : F!Begins(r, op, t, None, "write")
    BY <1>4 DEF F!BeginUpdate
  <2>2. IsStored(tool[t]) /\ tool' = [tool EXCEPT ![t] = tool[t]]
    BY <1>1, <2>1 DEF F!Stored, IsStored
  <2>3. ASSUME NEW of \in {"f"} \cup {"mcp"}, F!Begins(r, "config", t, of, "write") PROVE ToolInv'
    <3>1. "config" \in Updates /\ of \in {"f", "mcp", None} /\ of # None
      BY <2>3, NoneIsNoTool DEF Updates
    <3> QED
      BY <2>2, <2>3, <3>1, ToolBegins
  <2>4. ASSUME NEW op \in {"on", "off"}, F!Begins(r, op, t, None, "write") PROVE ToolInv'
    <3>1. op \in Updates /\ op # "config"
      BY <2>4 DEF Updates
    <3> QED
      BY <2>2, <2>4, <3>1, ToolBegins
  <2> QED
    BY <2>1, <2>3, <2>4
<1>5. ASSUME NEW r \in Requests, F!UpdateFails(r) PROVE ToolInv'
  <2>1. /\ toolReq[r].pc = "write" /\ toolReq' = [toolReq EXCEPT ![r].pc = "failed", ![r].copy = None]
        /\ UNCHANGED <<tool, toolBoot, toolset, bind, toolMet>>
    BY <1>5 DEF F!UpdateFails, F!Open
  <2>2. \A s \in Requests : toolReq'[s] = IF s = r THEN ToolFailed(toolReq[r]) ELSE toolReq[s]
    BY <1>1, <2>1 DEF ToolFailed
  <2>3. toolReq' = [s \in Requests |-> toolReq'[s]]
    BY <1>1, <2>1
  <2>4. toolBoot = {}
    BY <1>1, <2>1 DEF ToolTypes, Writing
  <2>5. CatalogInv' /\ ToolForward(toolReq, toolReq')
    BY <1>1, <2>1, <2>2, <2>3, <2>4, ToolEnds
  <2>6. toolMet \subseteq toolMet'
    BY <2>1
  <2> QED
    BY <2>1, <2>5, <2>6, BindingsCarry DEF ToolInv
<1>6. CASE F!ListTools
  <2>1. Writing(toolReq) = {} /\ toolBoot = None
    BY <1>1, <1>6, NoneIsNoTool DEF F!ListTools, ToolTypes
  <2>2. /\ toolBoot' \subseteq {"f"} /\ \A f \in toolBoot', t \in Ids : IsStored(tool[t]) => tool[t].of # f
        /\ UNCHANGED <<tool, toolReq, toolset, bind, toolMet>>
    BY <1>6 DEF F!ListTools, F!Missing, F!Stored, IsStored
  <2>3. toolReq' = [s \in Requests |-> toolReq'[s]] /\ Writing(toolReq') = {} /\ toolMet \subseteq toolMet'
    BY <1>1, <2>1, <2>2
  <2>4. \A s \in Requests : toolReq'[s] = toolReq[s]
    BY <2>2
  <2>5. CatalogInv' /\ ToolForward(toolReq, toolReq')
    BY <1>1, <2>2, <2>3, <2>4, ToolEnds
  <2> QED
    BY <2>2, <2>3, <2>5, BindingsCarry DEF ToolInv
<1>7. ASSUME toolBoot # None, NEW f \in toolBoot, F!SeedFails(f) PROVE ToolInv'
  <2>1. Writing(toolReq) = {} /\ toolBoot \subseteq {"f"}
    BY <1>1, <1>7 DEF ToolTypes
  <2>2. /\ toolBoot' \subseteq toolBoot /\ \A g \in toolBoot', t \in Ids : IsStored(tool[t]) => tool[t].of # g
        /\ UNCHANGED <<tool, toolReq, toolset, bind, toolMet>>
    BY <1>1, <1>7, <2>1 DEF F!SeedFails, CatalogInv, SeedsHold
  <2>3. toolReq' = [s \in Requests |-> toolReq'[s]] /\ Writing(toolReq') = {} /\ toolMet \subseteq toolMet'
    BY <1>1, <2>1, <2>2
  <2>4. \A s \in Requests : toolReq'[s] = toolReq[s]
    BY <2>2
  <2>5. CatalogInv' /\ ToolForward(toolReq, toolReq')
    BY <1>1, <2>1, <2>2, <2>3, <2>4, ToolEnds
  <2> QED
    BY <2>2, <2>3, <2>5, BindingsCarry DEF ToolInv
<1>8. CASE F!Restart
  <2>1. /\ toolReq' = [r \in Requests |-> IF F!Open(r) THEN ToolFailed(toolReq[r]) ELSE toolReq[r]]
        /\ toolBoot' = None /\ toolset' = [t \in Ids |-> None] /\ bind' = [a \in Agents |-> None]
        /\ UNCHANGED <<tool, toolMet>>
    BY <1>8 DEF F!Restart, ToolFailed
  <2>2. \A s \in Requests : toolReq'[s] = IF toolReq[s].pc = "write" THEN ToolFailed(toolReq[s]) ELSE toolReq[s]
    BY <2>1 DEF F!Open
  <2>3. \A s \in Requests : toolReq'[s].pc # "write"
    <3> SUFFICES ASSUME NEW s \in Requests PROVE toolReq'[s].pc # "write"
      OBVIOUS
    <3>1. toolReq[s] \in ToolRequest
      BY <1>1
    <3> QED
      BY <2>2, <3>1 DEF ToolFailed, ToolRequest
  <2>4. toolReq' = [s \in Requests |-> toolReq'[s]]
    BY <2>1
  <2>5. CatalogInv'
    BY <1>1, <2>1, <2>2, <2>3, <2>4, ToolEnds DEF Writing
  <2>6. BindTypes' /\ BindingsHold'
    BY <2>1 DEF BindTypes, BindingsHold
  <2> QED
    BY <2>5, <2>6 DEF ToolInv
<1>9. CASE UNCHANGED toolVars
  <2>1. UNCHANGED <<tool, toolReq, toolBoot, toolset, bind, toolMet>>
    BY <1>9 DEF toolVars
  <2>2. ToolForward(toolReq, toolReq') /\ toolMet \subseteq toolMet'
    BY <2>1 DEF ToolForward
  <2>3. CatalogInv'
    BY <1>1, <2>1, CatalogStays
  <2> QED
    BY <2>1, <2>2, <2>3, BindingsCarry DEF ToolInv
<1> QED
  BY <1>2, <1>3, <1>4, <1>5, <1>6, <1>7, <1>8, <1>9, ToolSeeds, ToolUpdates, ToolLooks, ToolFetches DEF F!ToolNext

LEMMA ToolsImply == ASSUME RequestsAssumption, ToolInv PROVE F!ToolsStand
<1>1. /\ CatalogInv /\ BindingsHold /\ ToolTypes /\ bind \in [Agents -> Binding \cup {None}]
      /\ \A r \in Requests : F!Done(r) <=> ToolDone(toolReq, r)
      /\ \A t \in Ids : F!Stored(t) <=> IsStored(tool[t])
  BY DEF ToolInv, CatalogInv, BindTypes, F!Done, ToolDone, F!Stored, IsStored
<1>2. F!SeededOnce
  <2> SUFFICES ASSUME NEW f \in {"f"}
               PROVE  F!Cardinality({t \in Ids : F!Stored(t) /\ tool[t].of = f /\ tool[t].by = "seed"}) <= 1
    BY DEF F!SeededOnce
  <2> DEFINE seeded == {t \in Ids : F!Stored(t) /\ tool[t].of = f /\ tool[t].by = "seed"}
  <2>1. \A t, u \in seeded : t = u
    BY <1>1 DEF CatalogInv, SeedsHold, SeedAt, IsSeeded
  <2>2. F!Cardinality(seeded) = Cardinality(seeded)
    BY DEF F!Cardinality, Cardinality
  <2> HIDE DEF seeded
  <2>3. Cardinality(seeded) <= 1
    <3>1. CASE seeded = {}
      BY <3>1, FS_EmptySet
    <3>2. CASE seeded # {}
      <4>1. PICK t \in seeded : TRUE
        BY <3>2
      <4>2. seeded = {t}
        BY <2>1, <4>1
      <4>3. Cardinality({t}) = 1
        BY FS_Singleton
      <4>4. Cardinality(seeded) = 1
        BY <4>2, <4>3
      <4> QED
        BY <4>4
    <3> QED
      BY <3>1, <3>2
  <2> QED
    BY <2>2, <2>3 DEF seeded
<1>3. F!ToolEditsStay
  <2> SUFFICES ASSUME NEW r \in Requests, F!Done(r), toolReq[r].op \in {"config", "on", "off"}, F!Alone(r)
               PROVE  LET t == toolReq[r].t
                          w == IF toolReq[r].op = "config" THEN tool[t].by ELSE tool[t].switch
                      IN IF F!Stored(t) THEN w = r \/ F!Later(w, r)
                         ELSE \E d \in Requests : F!Done(d) /\ toolReq[d].op = "delete" /\ toolReq[d].t = t /\ F!Later(d, r)
    BY DEF F!ToolEditsStay
  <2>1. IF IsStored(tool[toolReq[r].t]) THEN ToolStands(toolReq, r, tool[toolReq[r].t]) ELSE ToolRemoved(toolReq, r)
    BY <1>1 DEF CatalogInv, ToolKept, Updates
  <2>2. toolReq[r].t \in Ids
    BY <1>1 DEF ToolTypes, Begun, F!Done
  <2> QED
    BY <1>1, <2>1, <2>2 DEF ToolStands, ToolRemoved, F!Later
<1>4. F!DeletedToolsStayGone
  <2> SUFFICES ASSUME NEW d \in Requests, F!Done(d), toolReq[d].op = "delete", F!Stored(toolReq[d].t)
               PROVE  \E r \in Requests : /\ F!Done(r) /\ toolReq[r].op \notin {"create", "delete"}
                                          /\ toolReq[r].t = toolReq[d].t /\ {r, d} \in toolMet
    BY DEF F!DeletedToolsStayGone
  <2>1. ToolBack(toolReq, toolMet, d)
    BY <1>1 DEF CatalogInv, ToolsGone, F!Stored, IsStored
  <2> QED
    BY <1>1, <2>1 DEF ToolBack
<1>5. F!DisabledStayUnbound
  <2> SUFFICES ASSUME NEW a \in Agents, bind[a] # None, NEW r \in bind[a].after, bind[a].pc = "bound",
                      toolReq[r].t = bind[a].t, toolReq[r].op \in {"off", "delete"}, F!Alone(r)
               PROVE  \E s \in bind[a].after : F!Later(s, r) /\ toolReq[s].t = toolReq[r].t /\ toolReq[s].op = "on"
    BY DEF F!DisabledStayUnbound
  <2>1. BindingHolds(bind[a]) /\ bind[a].after \subseteq Requests
    BY <1>1 DEF BindingsHold, Binding
  <2> QED
    BY <2>1 DEF BindingHolds, F!Later
<1>6. F!OneToolsetPerServer
  BY <1>1 DEF F!OneToolsetPerServer, BindingsHold, BindingHolds
<1> QED
  BY <1>2, <1>3, <1>4, <1>5, <1>6 DEF F!ToolsStand

\* The skills' shelf and the tool catalog stand, however requests, starts and deaths
\* of the server follow each other (skill and tool routes, seed_builtin_skills,
\* seed_builtin_tools, resolve_catalog_tools, McpClientManager.get_toolset): an edit
\* that met no other stays, what was deleted is back only if a request that met the
\* deletion brought it, badges are true, functions are seeded once, agents are not
\* given what was switched off, and share the toolset of a server.
THEOREM ShelvesAlwaysStand == Spec => []ShelvesStand
<1>1. Init => SkillInv /\ ToolInv
  BY RequestsAssumption, NoneIsNoSkill, NoneIsNoTool, SkillsStart, ToolsStart DEF Init
<1>2. [Next]_allVars => [D!SkillNext]_skillVars /\ [F!ToolNext]_toolVars
  BY DEF Next, allVars, shelfVars, skillVars, toolVars
<1>3. SkillInv /\ ToolInv /\ [Next]_allVars => SkillInv' /\ ToolInv'
  BY <1>2, RequestsAssumption, NoneIsNoSkill, NoneIsNoTool, SkillsNext, ToolsNext
<1>4. SkillInv /\ ToolInv => ShelvesStand
  BY RequestsAssumption, SkillsImply, ToolsImply DEF ShelvesStand
<1> QED
  BY <1>1, <1>3, <1>4, PTL DEF Spec, allVars

-----------------------------------------------------------------------------
(* The cost lookup.                                                        *)

Looking ==
  [pc : {"rest", "clear", "list", "fill", "again", "read", "unknown", "told"}, n : Names \cup {None},
   todo : [Names -> L!Rates \cup {None}], known : BOOLEAN, crossed : BOOLEAN, failed : BOOLEAN,
   cost : L!Rates \cup {None}, left : Nat]

CostTypes ==
  /\ catalog \in [Names -> L!Rates \cup {None}] /\ cache \in [Names -> L!Rates \cup {None}]
  /\ thread \in [Threads -> Looking] /\ edits \in Nat
  /\ \A t \in Threads : /\ thread[t].todo # L!Empty => thread[t].pc = "fill"
                        /\ thread[t].pc = "told" => thread[t].cost # None
                        /\ thread[t].pc # "rest" => thread[t].n \in Names

\* A refresh next to a lookup has crossed it.
RefreshesCross ==
  \A t, u \in Threads : t # u /\ thread[t].pc # "rest" /\ L!Refreshing(u) => thread[t].crossed

\* A rate that is known, and neither failed nor was crossed, is on its way.
RateIsComing(t) ==
  /\ catalog[thread[t].n] # None
  /\ thread[t].failed \/ thread[t].crossed
       \/ /\ thread[t].pc = "fill" => cache[thread[t].n] # None \/ thread[t].todo[thread[t].n] # None
          /\ thread[t].pc \in {"again", "read"} => cache[thread[t].n] # None
          /\ thread[t].pc # "unknown"

KnownRatesCome == \A t \in Threads : thread[t].pc # "rest" /\ thread[t].known => RateIsComing(t)

CostInv == CostTypes /\ RefreshesCross /\ KnownRatesCome

LEMMA CostsStart == ASSUME CostAssumption, L!CostInit PROVE CostInv
<1>1. /\ L!Empty \in [Names -> L!Rates \cup {None}] /\ 1 \in L!Rates
  BY CostAssumption DEF L!Empty, L!Rates
<1>2. L!Rest \in Looking /\ L!Rest.pc = "rest" /\ L!Rest.todo = L!Empty
  BY <1>1, CostAssumption DEF L!Rest, Looking
<1>3. \A t \in Threads : thread[t] = L!Rest
  BY DEF L!CostInit
<1>4. catalog \in [Names -> L!Rates \cup {None}]
  BY <1>1 DEF L!CostInit
<1>5. CostTypes
  BY <1>1, <1>2, <1>3, <1>4 DEF L!CostInit, CostTypes
<1> QED
  BY <1>2, <1>3, <1>5 DEF CostInv, RefreshesCross, KnownRatesCome, L!Refreshing

\* t goes on as r, and the others' lookups are crossed if it begins to refresh.
LEMMA CostGoes ==
  ASSUME CostInv, NEW t \in Threads, NEW r \in Looking, L!Goto(t, r), UNCHANGED <<catalog, edits>>,
         cache' \in [Names -> L!Rates \cup {None}],
         r.todo # L!Empty => r.pc = "fill",
         r.pc = "told" => r.cost # None,
         r.pc # "rest" => r.n \in Names,
         r.pc \in {"clear", "list", "fill"} => L!Refreshing(t) \/ r.pc = "clear",
         r.pc # "rest" => r.crossed \/ IF thread[t].pc = "rest" THEN \A u \in L!Others(t) : ~L!Refreshing(u)
                                       ELSE ~thread[t].crossed,
         \/ \A n \in Names : cache[n] # None => cache'[n] # None
         \/ L!Refreshing(t),
         r.pc # "rest" /\ r.known =>
           /\ catalog[r.n] # None
           /\ r.failed \/ r.crossed
                \/ /\ r.pc = "fill" => cache'[r.n] # None \/ r.todo[r.n] # None
                   /\ r.pc \in {"again", "read"} => cache'[r.n] # None
                   /\ r.pc # "unknown"
  PROVE  CostInv'
<1>1. CostTypes /\ thread \in [Threads -> Looking]
  BY DEF CostInv, CostTypes
<1>2. /\ thread'[t] = r
      /\ \A u \in Threads : u # t =>
           \/ thread'[u] = thread[u] /\ (r.pc = "clear" => thread[u].pc = "rest")
           \/ thread'[u] = [thread[u] EXCEPT !.crossed = TRUE] /\ thread[u].pc # "rest"
  BY <1>1 DEF L!Goto
<1>3. \A u \in Threads : u # t =>
        /\ thread'[u] \in Looking /\ thread'[u].pc = thread[u].pc /\ thread'[u].n = thread[u].n
        /\ thread'[u].todo = thread[u].todo /\ thread'[u].cost = thread[u].cost
        /\ thread'[u].known = thread[u].known /\ thread'[u].failed = thread[u].failed
        /\ thread[u].crossed => thread'[u].crossed
        /\ r.pc = "clear" /\ thread[u].pc # "rest" => thread'[u].crossed
  <2> SUFFICES ASSUME NEW u \in Threads, u # t
               PROVE  /\ thread'[u] \in Looking /\ thread'[u].pc = thread[u].pc /\ thread'[u].n = thread[u].n
                      /\ thread'[u].todo = thread[u].todo /\ thread'[u].cost = thread[u].cost
                      /\ thread'[u].known = thread[u].known /\ thread'[u].failed = thread[u].failed
                      /\ thread[u].crossed => thread'[u].crossed
                      /\ r.pc = "clear" /\ thread[u].pc # "rest" => thread'[u].crossed
    OBVIOUS
  <2>1. thread[u] \in Looking
    BY <1>1
  <2>2. CASE thread'[u] = thread[u] /\ (r.pc = "clear" => thread[u].pc = "rest")
    BY <2>1, <2>2
  <2>3. CASE thread'[u] = [thread[u] EXCEPT !.crossed = TRUE] /\ thread[u].pc # "rest"
    BY <2>1, <2>3 DEF Looking
  <2> QED
    BY <1>2, <2>2, <2>3
<1>4. CostTypes'
  <2>1. thread' \in [Threads -> Looking]
    BY <1>2, <1>3 DEF L!Goto
  <2>2. \A u \in Threads : /\ thread'[u].todo # L!Empty => thread'[u].pc = "fill"
                           /\ thread'[u].pc = "told" => thread'[u].cost # None
                           /\ thread'[u].pc # "rest" => thread'[u].n \in Names
    BY <1>1, <1>2, <1>3 DEF CostTypes
  <2> QED
    BY <1>1, <2>1, <2>2 DEF CostTypes, L!Empty
<1>5. RefreshesCross'
  <2> SUFFICES ASSUME NEW u \in Threads, NEW v \in Threads, u # v, thread'[u].pc # "rest", L!Refreshing(v)'
               PROVE  thread'[u].crossed
    BY DEF RefreshesCross
  <2>1. thread'[v].pc \in {"clear", "list", "fill"}
    BY DEF L!Refreshing
  <2>2. CASE u = t
    <3>1. L!Refreshing(v) /\ v \in L!Others(t)
      BY <1>3, <2>1, <2>2 DEF L!Refreshing, L!Others
    <3> QED
      BY <1>2, <2>2, <3>1 DEF CostInv, RefreshesCross
  <2>3. CASE v = t
    BY <1>2, <1>3, <2>1, <2>3 DEF CostInv, RefreshesCross
  <2>4. CASE u # t /\ v # t
    BY <1>3, <2>1, <2>4 DEF CostInv, RefreshesCross, L!Refreshing
  <2> QED
    BY <2>2, <2>3, <2>4
<1>6. KnownRatesCome'
  <2> SUFFICES ASSUME NEW u \in Threads, thread'[u].pc # "rest", thread'[u].known PROVE RateIsComing(u)'
    BY DEF KnownRatesCome
  <2>1. CASE u = t
    BY <1>2, <2>1 DEF RateIsComing
  <2>2. CASE u # t
    <3>1. RateIsComing(u) /\ thread[u].n \in Names
      BY <1>1, <1>3, <2>2 DEF CostInv, KnownRatesCome, CostTypes
    <3>2. CASE \A n \in Names : cache[n] # None => cache'[n] # None
      BY <1>3, <2>2, <3>1, <3>2 DEF RateIsComing
    <3>3. CASE L!Refreshing(t)
      <4>1. thread'[u].crossed
        BY <1>3, <2>2, <3>3 DEF CostInv, RefreshesCross
      <4> QED
        BY <1>3, <2>2, <3>1, <4>1 DEF RateIsComing
    <3> QED
      BY <3>2, <3>3
  <2> QED
    BY <2>1, <2>2
<1> QED
  BY <1>4, <1>5, <1>6 DEF CostInv

LEMMA CostsNext == ASSUME CostAssumption, CostInv, [L!CostNext]_costVars PROVE CostInv'
<1>1. /\ CostTypes /\ thread \in [Threads -> Looking]
      /\ catalog \in [Names -> L!Rates \cup {None}] /\ cache \in [Names -> L!Rates \cup {None}]
      /\ L!Empty \in [Names -> L!Rates \cup {None}]
  BY DEF CostInv, CostTypes, L!Empty
<1>2. L!Rest \in Looking
  BY <1>1, CostAssumption DEF L!Rest, Looking
<1>3. ASSUME NEW t \in Threads, NEW n \in Names, L!Lookup(t, n) PROVE CostInv'
  <2> DEFINE r == [L!Rest EXCEPT !.pc = IF cache[n] = None THEN "clear" ELSE "again", !.n = n,
                                 !.known = catalog[n] # None, !.left = thread[t].left - 1,
                                 !.crossed = \E u \in L!Others(t) : L!Refreshing(u)]
  <2>1. thread[t].pc = "rest" /\ L!Goto(t, r) /\ UNCHANGED <<catalog, cache, edits>> /\ thread[t].left - 1 \in Nat
    BY <1>1, <1>3 DEF L!Lookup, Looking
  <2>2. /\ r \in Looking /\ r.pc = (IF cache[n] = None THEN "clear" ELSE "again") /\ r.n = n /\ r.todo = L!Empty
        /\ r.known = (catalog[n] # None) /\ r.crossed = (\E u \in L!Others(t) : L!Refreshing(u))
    BY <1>1, <1>2, <2>1 DEF Looking, L!Rest
  <2> HIDE DEF r
  <2> QED
    BY <1>1, <2>1, <2>2, CostGoes
<1>4. ASSUME NEW t \in Threads, L!Clear(t) PROVE CostInv'
  <2> DEFINE r == [thread[t] EXCEPT !.pc = "list"]
  <2>1. thread[t].pc = "clear" /\ L!Goto(t, r) /\ cache' = L!Empty /\ UNCHANGED <<catalog, edits>>
    BY <1>4 DEF L!Clear
  <2>2. /\ r \in Looking /\ r.pc = "list" /\ r.n = thread[t].n /\ r.todo = thread[t].todo /\ r.known = thread[t].known
        /\ r.crossed = thread[t].crossed /\ r.failed = thread[t].failed
    BY <1>1 DEF Looking
  <2> HIDE DEF r
  <2>3. thread[t].todo = L!Empty /\ thread[t].n \in Names /\ L!Refreshing(t)
    BY <1>1, <2>1 DEF CostTypes, L!Refreshing
  <2>4. r.known => catalog[r.n] # None
    BY <2>1, <2>2 DEF CostInv, KnownRatesCome, RateIsComing
  <2>5. r.crossed \/ ~thread[t].crossed
    BY <2>2
  <2> QED
    BY <1>1, <2>1, <2>2, <2>3, <2>4, <2>5, CostGoes
<1>5. ASSUME NEW t \in Threads, L!List(t) PROVE CostInv'
  <2>1. thread[t].pc = "list" /\ UNCHANGED <<catalog, cache, edits>>
    BY <1>5 DEF L!List
  <2>2. PICK r : /\ L!Goto(t, r)
                 /\ \/ r = [thread[t] EXCEPT !.pc = "again", !.failed = TRUE]
                    \/ r = [thread[t] EXCEPT !.pc = "fill", !.todo = catalog]
    BY <1>5 DEF L!List
  <2>3. thread[t].todo = L!Empty /\ thread[t].n \in Names /\ L!Refreshing(t)
    BY <1>1, <2>1 DEF CostTypes, L!Refreshing
  <2>4. /\ r \in Looking /\ r.n = thread[t].n /\ r.known = thread[t].known /\ r.crossed = thread[t].crossed
        /\ \/ r.pc = "again" /\ r.failed /\ r.todo = L!Empty
           \/ r.pc = "fill" /\ r.failed = thread[t].failed /\ r.todo = catalog
    BY <1>1, <2>2, <2>3 DEF Looking
  <2>5. r.known => catalog[r.n] # None
    BY <2>1, <2>4 DEF CostInv, KnownRatesCome, RateIsComing
  <2>6. r.crossed \/ ~thread[t].crossed
    BY <2>4
  <2> QED
    BY <1>1, <2>1, <2>2, <2>3, <2>4, <2>5, <2>6, CostGoes
<1>6. ASSUME NEW t \in Threads, L!Fill(t) PROVE CostInv'
  <2>1. thread[t].pc = "fill" /\ UNCHANGED <<catalog, edits>>
    BY <1>6 DEF L!Fill
  <2>2. thread[t].n \in Names /\ L!Refreshing(t) /\ (thread[t].known => RateIsComing(t))
    BY <1>1, <2>1 DEF CostInv, CostTypes, KnownRatesCome, L!Refreshing
  <2>3. CASE \E n \in Names :
               /\ thread[t].todo[n] # None
               /\ cache' = [cache EXCEPT ![n] = IF @ = None THEN thread[t].todo[n] ELSE @]
               /\ L!Goto(t, [thread[t] EXCEPT !.todo[n] = None])
    <3>1. PICK n \in Names :
               /\ thread[t].todo[n] # None
               /\ cache' = [cache EXCEPT ![n] = IF @ = None THEN thread[t].todo[n] ELSE @]
               /\ L!Goto(t, [thread[t] EXCEPT !.todo[n] = None])
      BY <2>3
    <3> DEFINE r == [thread[t] EXCEPT !.todo[n] = None]
    <3>2. /\ r \in Looking /\ r.pc = "fill" /\ r.n = thread[t].n /\ r.known = thread[t].known
          /\ r.crossed = thread[t].crossed /\ r.failed = thread[t].failed
          /\ r.todo = [thread[t].todo EXCEPT ![n] = None] /\ thread[t].todo \in [Names -> L!Rates \cup {None}]
      BY <1>1, <2>1 DEF Looking
    <3>3. L!Goto(t, r)
      BY <3>1
    <3> HIDE DEF r
    <3>4. /\ cache' \in [Names -> L!Rates \cup {None}] /\ cache'[n] # None
          /\ \A x \in Names : cache[x] # None => cache'[x] # None
      BY <1>1, <3>1, <3>2
    <3>5. r.known => /\ catalog[r.n] # None
                     /\ r.failed \/ r.crossed \/ cache'[r.n] # None \/ r.todo[r.n] # None
      BY <2>1, <2>2, <3>2, <3>4 DEF RateIsComing
    <3>6. r.crossed \/ ~thread[t].crossed
      BY <3>2
    <3> QED
      BY <2>1, <2>2, <3>2, <3>3, <3>4, <3>5, <3>6, CostGoes
  <2>4. CASE /\ thread[t].todo = L!Empty /\ UNCHANGED cache
             /\ L!Goto(t, [thread[t] EXCEPT !.pc = "again"])
    <3> DEFINE r == [thread[t] EXCEPT !.pc = "again"]
    <3>1. /\ r \in Looking /\ r.pc = "again" /\ r.n = thread[t].n /\ r.known = thread[t].known
          /\ r.crossed = thread[t].crossed /\ r.failed = thread[t].failed /\ r.todo = L!Empty
      BY <1>1, <2>4 DEF Looking
    <3>2. L!Goto(t, r) /\ UNCHANGED cache
      BY <2>4
    <3> HIDE DEF r
    <3>3. L!Empty[thread[t].n] = None
      BY <2>2 DEF L!Empty
    <3>4. r.known => /\ catalog[r.n] # None
                     /\ r.failed \/ r.crossed \/ cache'[r.n] # None
      BY <2>1, <2>2, <2>4, <3>1, <3>2, <3>3 DEF RateIsComing
    <3>5. r.crossed \/ ~thread[t].crossed
      BY <3>1
    <3> QED
      BY <1>1, <2>1, <2>2, <3>1, <3>2, <3>4, <3>5, CostGoes
  <2> QED
    BY <1>6, <2>3, <2>4 DEF L!Fill
<1>7. ASSUME NEW t \in Threads, L!LookAgain(t) PROVE CostInv'
  <2> DEFINE r == [thread[t] EXCEPT !.pc = IF cache[thread[t].n] = None THEN "unknown" ELSE "read"]
  <2>1. thread[t].pc = "again" /\ L!Goto(t, r) /\ UNCHANGED <<catalog, cache, edits>>
    BY <1>7 DEF L!LookAgain
  <2>2. /\ r \in Looking /\ r.pc = (IF cache[thread[t].n] = None THEN "unknown" ELSE "read")
        /\ r.n = thread[t].n /\ r.todo = thread[t].todo /\ r.known = thread[t].known
        /\ r.crossed = thread[t].crossed /\ r.failed = thread[t].failed
    BY <1>1 DEF Looking
  <2> HIDE DEF r
  <2>3. thread[t].todo = L!Empty /\ thread[t].n \in Names /\ (thread[t].known => RateIsComing(t))
    BY <1>1, <2>1 DEF CostInv, CostTypes, KnownRatesCome
  <2>4. r.known => /\ catalog[r.n] # None
                   /\ r.failed \/ r.crossed \/ (cache[r.n] # None /\ r.pc = "read")
    BY <2>1, <2>2, <2>3 DEF RateIsComing
  <2>5. r.crossed \/ ~thread[t].crossed
    BY <2>2
  <2> QED
    BY <1>1, <2>1, <2>2, <2>3, <2>4, <2>5, CostGoes
<1>8. ASSUME NEW t \in Threads, L!Read(t) PROVE CostInv'
  <2> DEFINE rate == cache[thread[t].n]
             r == [thread[t] EXCEPT !.pc = IF rate = None THEN "unknown" ELSE "told", !.cost = rate]
  <2>1. thread[t].pc = "read" /\ L!Goto(t, r) /\ UNCHANGED <<catalog, cache, edits>>
    BY <1>8 DEF L!Read
  <2>2. thread[t].todo = L!Empty /\ thread[t].n \in Names /\ (thread[t].known => RateIsComing(t))
    BY <1>1, <2>1 DEF CostInv, CostTypes, KnownRatesCome
  <2>3. /\ r \in Looking /\ r.pc = (IF cache[thread[t].n] = None THEN "unknown" ELSE "told")
        /\ r.n = thread[t].n /\ r.todo = thread[t].todo /\ r.known = thread[t].known
        /\ r.crossed = thread[t].crossed /\ r.failed = thread[t].failed /\ r.cost = cache[thread[t].n]
    BY <1>1, <2>2 DEF Looking
  <2> HIDE DEF r
  <2>4. r.known => /\ catalog[r.n] # None
                   /\ r.failed \/ r.crossed \/ (cache[r.n] # None /\ r.pc = "told")
    BY <2>1, <2>2, <2>3 DEF RateIsComing
  <2>5. r.crossed \/ ~thread[t].crossed
    BY <2>3
  <2> QED
    BY <1>1, <2>1, <2>2, <2>3, <2>4, <2>5, CostGoes
<1>9. ASSUME NEW t \in Threads, L!Return(t) PROVE CostInv'
  <2> DEFINE r == [L!Rest EXCEPT !.left = thread[t].left]
  <2>1. L!Goto(t, r) /\ UNCHANGED <<catalog, cache, edits>>
    BY <1>9 DEF L!Return
  <2>2. r \in Looking /\ r.pc = "rest" /\ r.todo = L!Empty
    BY <1>1, <1>2 DEF L!Rest, Looking
  <2> HIDE DEF r
  <2> QED
    BY <1>1, <2>1, <2>2, CostGoes
<1>10. ASSUME NEW n \in Names, L!Edit(n) PROVE CostInv'
  <2>1. edits + 2 \in L!Rates /\ edits' \in Nat /\ UNCHANGED cache
    BY <1>1, <1>10, CostAssumption DEF L!Edit, L!Rates, CostTypes
  <2>2. PICK rate \in {None, edits + 2} : catalog' = [catalog EXCEPT ![n] = rate]
    BY <1>10 DEF L!Edit
  <2>3. catalog' \in [Names -> L!Rates \cup {None}] /\ \A x \in Names : x # n => catalog'[x] = catalog[x]
    BY <1>1, <2>1, <2>2
  <2>4. \A t \in Threads :
          thread'[t] = IF thread[t].n = n THEN [thread[t] EXCEPT !.known = FALSE] ELSE thread[t]
    BY <1>10 DEF L!Edit
  <2>5. \A t \in Threads :
          /\ thread'[t] \in Looking /\ thread'[t].pc = thread[t].pc /\ thread'[t].n = thread[t].n
          /\ thread'[t].todo = thread[t].todo /\ thread'[t].cost = thread[t].cost
          /\ thread'[t].crossed = thread[t].crossed /\ thread'[t].failed = thread[t].failed
          /\ thread'[t].known => thread[t].known /\ thread[t].n # n
    BY <1>1, <2>4 DEF Looking
  <2>6. thread' \in [Threads -> Looking]
    BY <1>10, <2>5 DEF L!Edit
  <2>7. CostTypes'
    BY <1>1, <2>1, <2>3, <2>5, <2>6 DEF CostTypes, L!Empty
  <2>8. RefreshesCross'
    BY <2>5 DEF CostInv, RefreshesCross, L!Refreshing
  <2>9. KnownRatesCome'
    BY <1>1, <2>1, <2>3, <2>5 DEF CostInv, KnownRatesCome, RateIsComing, CostTypes
  <2> QED
    BY <2>7, <2>8, <2>9 DEF CostInv
<1>11. CASE UNCHANGED costVars
  BY <1>11 DEF costVars, CostInv, CostTypes, RefreshesCross, KnownRatesCome, RateIsComing, L!Refreshing
<1> QED
  BY <1>3, <1>4, <1>5, <1>6, <1>7, <1>8, <1>9, <1>10, <1>11 DEF L!CostNext

LEMMA CostsImply == ASSUME CostInv PROVE L!CostsAreFound
<1>1. L!CostTypeOK
  BY DEF CostInv, CostTypes, Looking, L!CostTypeOK
<1>2. L!UnknownNeedsARace
  BY DEF CostInv, KnownRatesCome, RateIsComing, L!UnknownNeedsARace
<1> QED
  BY <1>1, <1>2 DEF L!CostsAreFound

-----------------------------------------------------------------------------
(* The model catalog.                                                      *)

CatTodo == (SUBSET Ids) \cup (SUBSET Names) \cup (SUBSET (Ids \X K!ModelDoc))

CatCall ==
  [pc : {"idle", "over", "editProvider", "list", "cascade", "check", "write", "edit", "seedProvider", "seedModels",
         "sync", "next", "price"},
   op : {"none", "newProvider", "editProvider", "deleteProvider", "createModels", "edit", "deleteModel", "seed", "sync"},
   p : Users \cup {None}, m : Ids \cup {None}, field : {"rate", "note", None},
   copy : K!ProviderDoc \cup K!ModelDoc \cup {None}
            \cup [fresh : K!ModelDoc \cup {None, Unused}, listed : K!ModelDoc],
   todo : CatTodo, at : Nat]

\* What a call carries along at each place.
CatCarries(x) ==
  /\ x.pc = "idle" <=> x.op = "none"
  /\ x.pc = "editProvider" => x.op = "editProvider" /\ x.p \in Users /\ x.copy \in K!ProviderDoc
  /\ x.op = "deleteProvider" => x.pc \in {"list", "cascade", "over"}
  /\ x.pc \in {"list", "cascade"} => x.op = "deleteProvider" /\ x.p \in Users
  /\ x.pc = "cascade" => x.todo \subseteq Ids
  /\ x.pc \in {"check", "write"} => x.op \in {"createModels", "seed"} /\ x.p \in Users /\ x.todo \subseteq Names
  /\ x.pc = "write" => x.todo # {}
  /\ x.pc = "edit" => x.op = "edit"
  /\ x.op = "edit" => x.pc \in {"edit", "over"} /\ x.m \in Ids /\ x.field \in {"rate", "note"} /\ x.copy \in K!ModelDoc
  /\ x.pc \in {"seedProvider", "seedModels"} => x.op = "seed"
  /\ x.pc = "seedModels" => x.p \in Users
  /\ x.op = "seed" => x.pc \in {"seedProvider", "seedModels", "check", "write", "over"}
  /\ x.op = "sync" => x.pc \in {"sync", "next", "price", "over"}
  /\ x.pc \in {"sync", "next", "price"} => x.op = "sync"
  /\ x.pc \in {"next", "price"} => x.todo \subseteq Ids \X K!ModelDoc
  /\ x.pc = "price" => /\ x.m \in Ids
                       /\ x.copy \in [fresh : K!ModelDoc, listed : K!ModelDoc]

CatCallTypes ==
  /\ catCall \in [Requests -> CatCall]
  /\ \A c \in Requests : /\ catCall[c].pc = "idle" => catCall[c] = K!Idle
                         /\ CatCarries(catCall[c])

CatTypes ==
  /\ prov \in [Users -> K!ProviderDoc \cup {None, Unused}] /\ model \in [Ids -> K!ModelDoc \cup {None, Unused}]
  /\ CatCallTypes

Kept(docs) == {d \in DOMAIN docs : docs[d] \notin {None, Unused}}

CatBegun(q) == {c \in Requests : q[c].pc # "idle"}
CatBusy(q) == {c \in Requests : q[c].pc \notin {"idle", "over"}}

\* Calls are numbered as they begin, and two have met unless one was over before.
CatInOrder(q, m) ==
  /\ \A c \in Requests : q[c].at \in Nat /\ (c \in CatBegun(q) => q[c].at <= Cardinality(CatBegun(q)))
  /\ \A c, d \in CatBusy(q) : c # d => {c, d} \in m
  /\ \A d \in CatBusy(q), c \in CatBegun(q) : c # d => {c, d} \in m \/ q[d].at > q[c].at

\* The documents that are stored or that a call has read to write them back, with the
\* calls that will then have written them.
CatHeld(q, docs) ==
  {[m |-> m, doc |-> docs[m], by |-> docs[m].by] : m \in Kept(docs)}
  \cup {[m |-> q[e].m, doc |-> q[e].copy, by |-> q[e].copy.by \cup {e}] : e \in {e \in Requests : q[e].pc = "edit"}}
  \cup {[m |-> q[s].m, doc |-> q[s].copy.fresh, by |-> q[s].copy.fresh.by \cup {s}] :
          s \in {s \in Requests : q[s].pc = "price"}}

\* The rates that a sync has listed and has yet to merge.
CatListed(q) ==
  {[m |-> todo[1], rate |-> todo[2].rate] :
      todo \in UNION {q[s].todo : s \in {s \in Requests : q[s].pc \in {"next", "price"}}}}
  \cup {[m |-> q[s].m, rate |-> q[s].copy.listed.rate] : s \in {s \in Requests : q[s].pc = "price"}}

WritersBegan == \A h \in CatHeld(catCall, model) : h.by \subseteq CatBegun(catCall)

\* The provider p is there, or a call of B met its deletion.
Explained(q, m, docs, p, B) ==
  p \in Kept(docs) \/ \E d \in Requests : q[d].op = "deleteProvider" /\ q[d].p = p /\ \E b \in B : {b, d} \in m

HeldExplained == \A h \in CatHeld(catCall, model) : Explained(catCall, catMet, prov, h.doc.prov, h.by)

WritesExplained ==
  \A c \in Requests : catCall[c].pc = "write" => Explained(catCall, catMet, prov, catCall[c].p, {c})

\* What a deletion does not remove with its provider was written by a call it met.
CascadesReach ==
  \A d \in Requests : catCall[d].pc = "cascade" =>
    \A m \in Kept(model) : model[m].prov = catCall[d].p =>
      m \in catCall[d].todo \/ \E b \in model[m].by : {b, d} \in catMet

EditsFound == \A c \in Requests : catCall[c].op = "edit" => model[catCall[c].m] # Unused

CatAlone(m, c) == \A d \in Requests : {c, d} \notin m \/ c = d

\* The writer w of a field is the edit c or came after it.
SinceEdit(q, w, c) == w \in Requests /\ q[w].at >= q[c].at

EditsHold ==
  \A c \in Requests : (catCall[c].op = "edit" /\ catCall[c].pc = "over" /\ CatAlone(catMet, c)) =>
    /\ \A h \in CatHeld(catCall, model) : h.m = catCall[c].m => SinceEdit(catCall, h.doc[catCall[c].field], c)
    /\ \A l \in CatListed(catCall) : (l.m = catCall[c].m /\ catCall[c].field = "rate") => SinceEdit(catCall, l.rate, c)

\* The model m is still to come in the sync s.
ToSync(q, s, m) ==
  \/ q[s].pc \in {"next", "price"} /\ \E todo \in q[s].todo : todo[1] = m
  \/ q[s].pc = "price" /\ q[s].m = m

SyncsReach ==
  \A s \in Requests : (catCall[s].op = "sync" /\ catCall[s].pc # "sync") =>
    \A m \in Kept(model) : \/ model[m].price = "synced" \/ ToSync(catCall, s, m)
                           \/ \E w \in model[m].by : {s, w} \in catMet \/ catCall[w].at > catCall[s].at

Together(q, m) == \E c, d \in Requests : c # d /\ {c, d} \in m /\ q[c].op = "seed"

SystemHeld(q, docs) ==
  {p \in Kept(docs) : docs[p].system} \cup {q[e].p : e \in {e \in Requests : q[e].pc = "editProvider" /\ q[e].copy.system}}

SeededBy(q, B) == \E c \in B : q[c].op = "seed"

OneSystem ==
  /\ \A p, r \in SystemHeld(catCall, prov) : p = r
  /\ \A c \in Requests : catCall[c].pc = "seedProvider" => SystemHeld(catCall, prov) = {}

NoSeedTwice ==
  /\ \A h, g \in CatHeld(catCall, model) :
       (SeededBy(catCall, h.by) /\ SeededBy(catCall, g.by) /\ h.m # g.m)
         => h.doc.name # g.doc.name \/ h.doc.prov # g.doc.prov
  /\ \A c \in Requests : (catCall[c].op = "seed" /\ catCall[c].pc \in {"check", "write"}) =>
       \A h \in CatHeld(catCall, model) : h.doc.prov = catCall[c].p => h.doc.name \notin catCall[c].todo

SeedsHeldOnce == Together(catCall, catMet) \/ (OneSystem /\ NoSeedTwice)

CatInv ==
  /\ CatTypes /\ CatInOrder(catCall, catMet) /\ WritersBegan
  /\ HeldExplained /\ WritesExplained /\ CascadesReach
  /\ EditsFound /\ EditsHold /\ SyncsReach /\ SeedsHeldOnce

-----------------------------------------------------------------------------
(* What a step of the call c does.                                         *)

CatGoesOn(c) ==
  /\ \A d \in Requests : d # c => catCall'[d] = catCall[d]
  /\ catCall[c].pc # "over" /\ catCall'[c].pc # "idle"
  /\ IF catCall[c].pc = "idle"
     THEN /\ catCall'[c].at = Cardinality(CatBegun(catCall)) + 1
          /\ catMet' = catMet \cup {{c, d} : d \in CatBusy(catCall)}
     ELSE /\ catCall'[c].at = catCall[c].at /\ catCall'[c].op = catCall[c].op /\ catMet' = catMet
          /\ catCall[c].op = "deleteProvider" => catCall'[c].p = catCall[c].p
          /\ catCall[c].op = "edit" => catCall'[c].m = catCall[c].m /\ catCall'[c].field = catCall[c].field

CatProviders(c) ==
  \/ prov' = prov
  \/ /\ model' = model
     /\ \E p \in Users, x \in K!ProviderDoc :
          /\ prov' = [prov EXCEPT ![p] = x]
          /\ \/ ~x.system
             \/ catCall[c].pc = "editProvider" /\ p = catCall[c].p /\ x.system = catCall[c].copy.system
             \/ catCall[c].pc = "seedProvider"
  \/ /\ model' = model /\ catCall[c].pc = "cascade" /\ catCall[c].todo = {} /\ catCall'[c].pc = "over"
     /\ prov' = [prov EXCEPT ![catCall[c].p] = None]

\* A document is stored: a new one, a copy with a field set, or one with new prices.
CatWrites(c, m, x) ==
  /\ prov' = prov /\ model' = [model EXCEPT ![m] = x] /\ c \in x.by
  /\ \/ /\ catCall[c].pc = "write" /\ model[m] = Unused /\ x.by = {c}
        /\ x.prov = catCall[c].p /\ x.name \in catCall[c].todo
        /\ catCall'[c].pc = "check" /\ catCall'[c].p = catCall[c].p
        /\ catCall'[c].todo = catCall[c].todo \ {x.name}
     \/ /\ catCall[c].pc = "edit" /\ m = catCall[c].m /\ catCall'[c].pc = "over"
        /\ x.prov = catCall[c].copy.prov /\ x.name = catCall[c].copy.name /\ x.by = catCall[c].copy.by \cup {c}
        /\ x.rate = IF catCall[c].field = "rate" THEN c ELSE catCall[c].copy.rate
        /\ x.note = IF catCall[c].field = "note" THEN c ELSE catCall[c].copy.note
     \/ /\ catCall[c].pc = "price" /\ m = catCall[c].m /\ catCall'[c].pc = "next"
        /\ catCall'[c].todo = catCall[c].todo
        /\ x.prov = catCall[c].copy.fresh.prov /\ x.name = catCall[c].copy.fresh.name
        /\ x.by = catCall[c].copy.fresh.by \cup {c} /\ x.price = "synced"
        /\ x.rate = catCall[c].copy.listed.rate /\ x.note = catCall[c].copy.fresh.note

CatModels(c) ==
  \/ model' = model
  \/ prov' = prov /\ \E m \in Ids : model' = [model EXCEPT ![m] = None] /\ catCall'[c].pc \in {"over", "cascade"}
  \/ \E m \in Ids, x \in K!ModelDoc : CatWrites(c, m, x)

\* Where the call gets to, and what it has read on the way.
CatReaches(c) ==
  /\ catCall'[c].pc = "edit" =>
       /\ catCall[c].pc = "idle" /\ model' = model
       /\ catCall'[c].m \in Kept(model) /\ catCall'[c].copy = model[catCall'[c].m]
  /\ catCall'[c].pc = "editProvider" =>
       /\ catCall[c].pc = "idle" /\ prov' = prov
       /\ catCall'[c].p \in Kept(prov) /\ catCall'[c].copy = prov[catCall'[c].p]
  /\ catCall'[c].pc = "price" =>
       /\ catCall[c].pc = "next" /\ model' = model
       /\ \E todo \in catCall[c].todo :
            /\ catCall'[c].m = todo[1] /\ catCall'[c].copy = [fresh |-> model[todo[1]], listed |-> todo[2]]
            /\ todo[1] \in Kept(model) /\ catCall'[c].todo = catCall[c].todo \ {todo}
  /\ catCall'[c].pc = "next" =>
       \/ /\ catCall[c].pc = "sync" /\ model' = model
          /\ catCall'[c].todo = {<<m, model[m]>> : m \in {m \in Kept(model) : model[m].price = "old"}}
       \/ /\ catCall[c].pc = "next" /\ model' = model
          /\ \E todo \in catCall[c].todo :
               todo[1] \notin Kept(model) /\ catCall'[c].todo = catCall[c].todo \ {todo}
       \/ catCall[c].pc = "price" /\ \E m \in Ids, x \in K!ModelDoc : CatWrites(c, m, x)
  /\ (catCall'[c].pc = "over" /\ catCall'[c].op = "sync") =>
       catCall[c].pc = "next" /\ catCall[c].todo = {} /\ model' = model
  /\ (catCall'[c].pc = "over" /\ catCall'[c].op = "edit") =>
       catCall[c].pc = "edit" /\ \E m \in Ids, x \in K!ModelDoc : CatWrites(c, m, x)
  /\ catCall'[c].pc = "cascade" =>
       /\ catCall'[c].p = catCall[c].p
       /\ \/ /\ catCall[c].pc = "list" /\ model' = model
             /\ catCall'[c].todo = {m \in Kept(model) : model[m].prov = catCall[c].p}
          \/ /\ catCall[c].pc = "cascade"
             /\ \E m \in catCall[c].todo : /\ model' = [model EXCEPT ![m] = None]
                                           /\ catCall'[c].todo = catCall[c].todo \ {m}
  /\ catCall'[c].pc = "write" =>
       /\ catCall[c].pc = "check" /\ prov' = prov /\ model' = model
       /\ catCall'[c].p = catCall[c].p /\ catCall'[c].todo = catCall[c].todo /\ catCall[c].p \in Kept(prov)
  /\ (catCall'[c].pc = "check" /\ catCall'[c].op = "seed") =>
       \/ /\ catCall[c].pc = "seedModels" /\ model' = model
          /\ \A m \in Kept(model) : model[m].prov = catCall'[c].p => model[m].name \notin catCall'[c].todo
       \/ catCall[c].pc = "write" /\ \E m \in Ids, x \in K!ModelDoc : CatWrites(c, m, x)
  /\ catCall'[c].pc = "seedProvider" =>
       catCall[c].pc = "idle" /\ prov' = prov /\ \A p \in Kept(prov) : ~prov[p].system

CatMove(c) == CatTypes' /\ CatGoesOn(c) /\ CatProviders(c) /\ CatModels(c) /\ CatReaches(c)

LEMMA CatBegins ==
  ASSUME RequestsAssumption, CatCallTypes, NEW c \in Requests, NEW r \in CatCall, K!Begin(c, r), CatCarries(r), r.pc # "idle"
  PROVE  /\ CatCallTypes' /\ CatGoesOn(c) /\ catCall[c].pc = "idle"
         /\ catCall'[c].pc = r.pc /\ catCall'[c].op = r.op /\ catCall'[c].p = r.p /\ catCall'[c].m = r.m
         /\ catCall'[c].copy = r.copy /\ catCall'[c].todo = r.todo
<1>1. K!Begun = Cardinality(CatBegun(catCall))
  BY DEF K!Begun, CatBegun, K!Cardinality, Cardinality
<1>2. Cardinality(CatBegun(catCall)) \in Nat
  BY FS_Subset, FS_CardinalityType DEF CatBegun, RequestsAssumption
<1> DEFINE n == Cardinality(CatBegun(catCall)) + 1
           x == [r EXCEPT !.at = n]
<1>3. catCall[c].pc = "idle" /\ catCall' = [catCall EXCEPT ![c] = x]
      /\ catMet' = catMet \cup {{c, d} : d \in {d \in Requests : K!Busy(d)}}
  BY <1>1 DEF K!Begin
<1>4. {d \in Requests : K!Busy(d)} = CatBusy(catCall)
  BY DEF K!Busy, CatBusy
<1>5. n \in Nat
  BY <1>2
<1> HIDE DEF n
<1>6. /\ x \in CatCall /\ x.pc = r.pc /\ x.op = r.op /\ x.p = r.p /\ x.m = r.m /\ x.field = r.field
      /\ x.copy = r.copy /\ x.todo = r.todo /\ x.at = n
  BY <1>5 DEF CatCall
<1> HIDE DEF x
<1>7. catCall'[c] = x /\ \A d \in Requests : d # c => catCall'[d] = catCall[d]
  BY <1>3 DEF CatCallTypes
<1>8. CatCarries(x)
  BY <1>6 DEF CatCarries
<1>9. CatCallTypes'
  <2>1. catCall' \in [Requests -> CatCall]
    BY <1>3, <1>6 DEF CatCallTypes
  <2>2. \A d \in Requests : (catCall'[d].pc = "idle" => catCall'[d] = K!Idle) /\ CatCarries(catCall'[d])
    BY <1>6, <1>7, <1>8 DEF CatCallTypes
  <2> QED
    BY <2>1, <2>2 DEF CatCallTypes, CatCarries, K!Idle
<1>10. CatGoesOn(c)
  BY <1>3, <1>4, <1>6, <1>7 DEF CatGoesOn, n
<1> QED
  BY <1>3, <1>6, <1>7, <1>9, <1>10

LEMMA CatGoes ==
  ASSUME CatCallTypes, NEW c \in Requests, NEW r \in CatCall, catCall' = [catCall EXCEPT ![c] = r], UNCHANGED catMet,
         catCall[c].pc \notin {"idle", "over"}, CatCarries(r), r.pc # "idle", r.at = catCall[c].at,
         r.op = catCall[c].op,
         r.op = "deleteProvider" => r.p = catCall[c].p,
         r.op = "edit" => r.m = catCall[c].m /\ r.field = catCall[c].field
  PROVE  CatCallTypes' /\ CatGoesOn(c) /\ catCall'[c] = r
<1>1. catCall'[c] = r /\ \A d \in Requests : d # c => catCall'[d] = catCall[d]
  BY DEF CatCallTypes
<1>2. CatCallTypes'
  <2>1. catCall' \in [Requests -> CatCall]
    BY DEF CatCallTypes
  <2>2. \A d \in Requests : (catCall'[d].pc = "idle" => catCall'[d] = K!Idle) /\ CatCarries(catCall'[d])
    BY <1>1 DEF CatCallTypes
  <2> QED
    BY <2>1, <2>2 DEF CatCallTypes, CatCarries, K!Idle
<1>3. CatGoesOn(c)
  BY <1>1 DEF CatGoesOn
<1> QED
  BY <1>1, <1>2, <1>3

LEMMA CatMoves ==
  ASSUME RequestsAssumption, CatalogAssumption, CatTypes, K!CatalogNext
  PROVE  \E c \in Requests : CatMove(c)
<1>0. \A t : t \subseteq Ids \/ t \subseteq Names \/ t \subseteq (Ids \X K!ModelDoc) <=> t \in CatTodo
  BY DEF CatTodo
<1>1. /\ CatCallTypes /\ catCall \in [Requests -> CatCall] /\ \A c \in Requests : CatCarries(catCall[c])
      /\ prov \in [Users -> K!ProviderDoc \cup {None, Unused}]
      /\ model \in [Ids -> K!ModelDoc \cup {None, Unused}]
      /\ K!There(prov) = Kept(prov) /\ K!There(model) = Kept(model)
      /\ Kept(prov) \subseteq Users /\ Kept(model) \subseteq Ids
      /\ \A p \in Kept(prov) : prov[p] \in K!ProviderDoc
      /\ \A m \in Kept(model) : model[m] \in K!ModelDoc
  BY DEF CatTypes, CatCallTypes, K!There, Kept
<1>2. /\ \A x \in K!ProviderDoc : x.system \in BOOLEAN
      /\ \A k \in Requests \cup {None}, b \in BOOLEAN : [system |-> b, key |-> k] \in K!ProviderDoc
  BY DEF K!ProviderDoc, K!Edits
<1> SUFFICES ASSUME NEW c \in Requests,
                    \/ \E p \in Users : \/ K!CreateProvider(c, p) \/ K!EditProvider(c, p) \/ K!DeleteProvider(c, p)
                                        \/ \E names \in SUBSET Names \ {{}} : K!CreateModels(c, p, names)
                    \/ \E m \in Ids : \/ K!DeleteModel(c, m)
                                      \/ \E field \in {"rate", "note"} : K!EditModel(c, m, field)
                    \/ K!SaveProvider(c) \/ K!ListModelsOf(c) \/ K!Cascade(c)
                    \/ K!CheckProvider(c) \/ K!WriteModel(c) \/ K!SaveModel(c)
                    \/ K!Seed(c) \/ K!SeedProvider(c) \/ K!SeedModels(c)
                    \/ K!Sync(c) \/ K!ListModels(c) \/ K!NextUpdate(c) \/ K!WritePrice(c)
             PROVE  CatMove(c)
  BY DEF K!CatalogNext
<1> DEFINE x == catCall[c]
<1>3. x \in CatCall /\ CatCarries(x)
  BY <1>1
<1>4. ASSUME NEW p \in Users, K!CreateProvider(c, p) PROVE CatMove(c)
  <2> DEFINE r == [K!Idle EXCEPT !.pc = "over", !.op = "newProvider", !.p = p]
             y == [system |-> FALSE, key |-> c]
  <2>1. r \in CatCall /\ CatCarries(r) /\ r.pc = "over" /\ r.op = "newProvider"
    BY <1>0 DEF K!Idle, CatCall, CatCarries, CatTodo
  <2>2. K!Begin(c, r) /\ prov' = [prov EXCEPT ![p] = y] /\ model' = model
    BY <1>4 DEF K!CreateProvider
  <2>3. y \in K!ProviderDoc /\ ~y.system
    BY <1>2
  <2> HIDE DEF r, y
  <2>4. CatCallTypes' /\ CatGoesOn(c) /\ catCall'[c].pc = "over" /\ catCall'[c].op = "newProvider"
    BY <1>1, <2>1, <2>2, CatBegins
  <2>5. CatTypes'
    BY <1>1, <2>2, <2>3, <2>4 DEF CatTypes
  <2> QED
    BY <2>2, <2>3, <2>4, <2>5 DEF CatMove, CatProviders, CatModels, CatReaches
<1>5. ASSUME NEW p \in Users, K!EditProvider(c, p) PROVE CatMove(c)
  <2> DEFINE r == [K!Idle EXCEPT !.pc = "editProvider", !.op = "editProvider", !.p = p, !.copy = prov[p]]
  <2>1. p \in Kept(prov) /\ prov[p] \in K!ProviderDoc
    BY <1>1, <1>5 DEF K!EditProvider
  <2>2. /\ r \in CatCall /\ CatCarries(r) /\ r.pc = "editProvider" /\ r.op = "editProvider"
        /\ r.p = p /\ r.copy = prov[p]
    BY <1>0, <2>1 DEF K!Idle, CatCall, CatCarries, CatTodo
  <2>3. K!Begin(c, r) /\ prov' = prov /\ model' = model
    BY <1>5 DEF K!EditProvider
  <2> HIDE DEF r
  <2>4. /\ CatCallTypes' /\ CatGoesOn(c) /\ catCall[c].pc = "idle"
        /\ catCall'[c].pc = "editProvider" /\ catCall'[c].op = "editProvider"
        /\ catCall'[c].p = p /\ catCall'[c].copy = prov[p]
    BY <1>1, <2>2, <2>3, CatBegins
  <2>5. CatTypes'
    BY <1>1, <2>3, <2>4 DEF CatTypes
  <2> QED
    BY <2>1, <2>3, <2>4, <2>5 DEF CatMove, CatProviders, CatModels, CatReaches
<1>6. ASSUME NEW p \in Users, K!DeleteProvider(c, p) PROVE CatMove(c)
  <2> DEFINE r == [K!Idle EXCEPT !.pc = "list", !.op = "deleteProvider", !.p = p]
  <2>1. r \in CatCall /\ CatCarries(r) /\ r.pc = "list" /\ r.op = "deleteProvider"
    BY <1>0 DEF K!Idle, CatCall, CatCarries, CatTodo
  <2>2. K!Begin(c, r) /\ prov' = prov /\ model' = model
    BY <1>6 DEF K!DeleteProvider
  <2> HIDE DEF r
  <2>3. CatCallTypes' /\ CatGoesOn(c) /\ catCall'[c].pc = "list"
    BY <1>1, <2>1, <2>2, CatBegins
  <2>4. CatTypes'
    BY <1>1, <2>2, <2>3 DEF CatTypes
  <2> QED
    BY <2>2, <2>3, <2>4 DEF CatMove, CatProviders, CatModels, CatReaches
<1>7. ASSUME NEW p \in Users, NEW names \in SUBSET Names, K!CreateModels(c, p, names) PROVE CatMove(c)
  <2> DEFINE r == [K!Idle EXCEPT !.pc = "check", !.op = "createModels", !.p = p, !.todo = names]
  <2>0. names \subseteq Names /\ names \in CatTodo
    BY <1>0
  <2>1. r \in CatCall /\ CatCarries(r) /\ r.pc = "check" /\ r.op = "createModels"
    BY <2>0 DEF K!Idle, CatCall, CatCarries, CatTodo
  <2>2. K!Begin(c, r) /\ prov' = prov /\ model' = model
    BY <1>7 DEF K!CreateModels
  <2> HIDE DEF r
  <2>3. CatCallTypes' /\ CatGoesOn(c) /\ catCall'[c].pc = "check" /\ catCall'[c].op = "createModels"
    BY <1>1, <2>1, <2>2, CatBegins
  <2>4. CatTypes'
    BY <1>1, <2>2, <2>3 DEF CatTypes
  <2> QED
    BY <2>2, <2>3, <2>4 DEF CatMove, CatProviders, CatModels, CatReaches
<1>8. ASSUME NEW m \in Ids, K!DeleteModel(c, m) PROVE CatMove(c)
  <2> DEFINE r == [K!Idle EXCEPT !.pc = "over", !.op = "deleteModel", !.m = m]
  <2>1. r \in CatCall /\ CatCarries(r) /\ r.pc = "over" /\ r.op = "deleteModel"
    BY <1>0 DEF K!Idle, CatCall, CatCarries, CatTodo
  <2>2. K!Begin(c, r) /\ model' = [model EXCEPT ![m] = None] /\ prov' = prov
    BY <1>8 DEF K!DeleteModel
  <2> HIDE DEF r
  <2>3. CatCallTypes' /\ CatGoesOn(c) /\ catCall'[c].pc = "over" /\ catCall'[c].op = "deleteModel"
    BY <1>1, <2>1, <2>2, CatBegins
  <2>4. CatTypes'
    BY <1>1, <2>2, <2>3 DEF CatTypes
  <2> QED
    BY <2>2, <2>3, <2>4 DEF CatMove, CatProviders, CatModels, CatReaches
<1>9. ASSUME NEW m \in Ids, NEW field \in {"rate", "note"}, K!EditModel(c, m, field) PROVE CatMove(c)
  <2> DEFINE r == [K!Idle EXCEPT !.pc = "edit", !.op = "edit", !.m = m, !.field = field, !.copy = model[m]]
  <2>1. m \in Kept(model) /\ model[m] \in K!ModelDoc
    BY <1>1, <1>9 DEF K!EditModel
  <2>2. r \in CatCall /\ CatCarries(r) /\ r.pc = "edit" /\ r.op = "edit" /\ r.m = m /\ r.copy = model[m]
    BY <1>0, <2>1 DEF K!Idle, CatCall, CatCarries, CatTodo
  <2>3. K!Begin(c, r) /\ prov' = prov /\ model' = model
    BY <1>9 DEF K!EditModel
  <2> HIDE DEF r
  <2>4. /\ CatCallTypes' /\ CatGoesOn(c) /\ catCall[c].pc = "idle"
        /\ catCall'[c].pc = "edit" /\ catCall'[c].m = m /\ catCall'[c].copy = model[m]
    BY <1>1, <2>2, <2>3, CatBegins
  <2>5. CatTypes'
    BY <1>1, <2>3, <2>4 DEF CatTypes
  <2> QED
    BY <2>1, <2>3, <2>4, <2>5 DEF CatMove, CatProviders, CatModels, CatReaches
<1>10. CASE K!SaveProvider(c)
  <2> DEFINE r == [x EXCEPT !.pc = "over"]
             y == [x.copy EXCEPT !.key = c]
  <2>1. x.pc = "editProvider" /\ x.op = "editProvider" /\ x.p \in Users /\ x.copy \in K!ProviderDoc
    BY <1>3, <1>10 DEF K!SaveProvider, CatCarries
  <2>2. /\ r \in CatCall /\ r.pc = "over" /\ r.op = x.op /\ r.at = x.at
        /\ y \in K!ProviderDoc /\ y.system = x.copy.system
    BY <1>3, <2>1 DEF CatCall, K!ProviderDoc, K!Edits
  <2>3. /\ catCall' = [catCall EXCEPT ![c] = r] /\ UNCHANGED catMet
        /\ prov' = [prov EXCEPT ![x.p] = y] /\ model' = model
    BY <1>10 DEF K!SaveProvider, K!Goto
  <2> HIDE DEF r, y
  <2>4. CatCarries(r)
    BY <2>1, <2>2 DEF CatCarries
  <2>5. CatCallTypes' /\ CatGoesOn(c) /\ catCall'[c] = r
    BY <1>1, <2>1, <2>2, <2>3, <2>4, CatGoes
  <2>6. CatTypes'
    BY <1>1, <2>1, <2>2, <2>3, <2>5 DEF CatTypes
  <2> QED
    BY <2>1, <2>2, <2>3, <2>5, <2>6 DEF CatMove, CatProviders, CatModels, CatReaches
<1>11. CASE K!ListModelsOf(c)
  <2> DEFINE r == [x EXCEPT !.pc = "cascade", !.todo = {m \in Kept(model) : model[m].prov = x.p}]
  <2>1. x.pc = "list" /\ x.op = "deleteProvider" /\ x.p \in Users
    BY <1>3, <1>11 DEF K!ListModelsOf, CatCarries
  <2>2. /\ r \in CatCall /\ r.pc = "cascade" /\ r.op = x.op /\ r.at = x.at /\ r.p = x.p
        /\ r.todo = {m \in Kept(model) : model[m].prov = x.p}
    BY <1>0, <1>1, <1>3, <2>1 DEF CatCall
  <2>3. catCall' = [catCall EXCEPT ![c] = r] /\ UNCHANGED <<catMet, prov, model>>
    BY <1>1, <1>11 DEF K!ListModelsOf
  <2> HIDE DEF r
  <2>4. CatCarries(r)
    BY <1>1, <2>1, <2>2 DEF CatCarries
  <2>5. CatCallTypes' /\ CatGoesOn(c) /\ catCall'[c] = r
    BY <1>1, <2>1, <2>2, <2>3, <2>4, CatGoes
  <2>6. CatTypes'
    BY <1>1, <2>3, <2>5 DEF CatTypes
  <2> QED
    BY <2>1, <2>2, <2>3, <2>5, <2>6 DEF CatMove, CatProviders, CatModels, CatReaches
<1>12. CASE K!Cascade(c)
  <2>1. x.pc = "cascade" /\ x.op = "deleteProvider" /\ x.p \in Users /\ x.todo \subseteq Ids
    BY <1>3, <1>12 DEF K!Cascade, CatCarries
  <2>2. ASSUME NEW m \in x.todo, model' = [model EXCEPT ![m] = None],
               catCall' = [catCall EXCEPT ![c].todo = @ \ {m}], UNCHANGED <<prov, catMet>>
        PROVE  CatMove(c)
    <3> DEFINE r == [x EXCEPT !.todo = @ \ {m}]
    <3>1. r \in CatCall /\ r.pc = "cascade" /\ r.op = x.op /\ r.at = x.at /\ r.p = x.p /\ r.todo = x.todo \ {m}
      BY <1>0, <1>3, <2>1 DEF CatCall
    <3>2. catCall' = [catCall EXCEPT ![c] = r]
      BY <2>2
    <3> HIDE DEF r
    <3>3. CatCarries(r)
      BY <2>1, <3>1 DEF CatCarries
    <3>4. CatCallTypes' /\ CatGoesOn(c) /\ catCall'[c] = r
      BY <1>1, <2>1, <2>2, <3>1, <3>2, <3>3, CatGoes
    <3>5. CatTypes'
      BY <1>1, <2>2, <3>4 DEF CatTypes
    <3>6. CatReaches(c)
      BY <2>1, <2>2, <3>1, <3>4 DEF CatReaches
    <3>7. CatModels(c)
      BY <2>1, <2>2, <3>1, <3>4 DEF CatModels
    <3> QED
      BY <2>2, <3>4, <3>5, <3>6, <3>7 DEF CatMove, CatProviders
  <2>3. ASSUME x.todo = {}, prov' = [prov EXCEPT ![x.p] = None], UNCHANGED model, K!Goto(c, "over") PROVE CatMove(c)
    <3> DEFINE r == [x EXCEPT !.pc = "over"]
    <3>1. r \in CatCall /\ r.pc = "over" /\ r.op = x.op /\ r.at = x.at /\ r.p = x.p
      BY <1>3, <2>1 DEF CatCall
    <3>2. catCall' = [catCall EXCEPT ![c] = r] /\ UNCHANGED catMet
      BY <2>3 DEF K!Goto
    <3> HIDE DEF r
    <3>3. CatCarries(r)
      BY <2>1, <3>1 DEF CatCarries
    <3>4. CatCallTypes' /\ CatGoesOn(c) /\ catCall'[c] = r
      BY <1>1, <2>1, <3>1, <3>2, <3>3, CatGoes
    <3>5. CatTypes'
      BY <1>1, <2>1, <2>3, <3>4 DEF CatTypes
    <3> QED
      BY <2>1, <2>3, <3>1, <3>4, <3>5 DEF CatMove, CatProviders, CatModels, CatReaches
  <2> QED
    BY <1>12, <2>2, <2>3 DEF K!Cascade
<1>13. CASE K!CheckProvider(c)
  <2> DEFINE r == [x EXCEPT !.pc = IF x.p \in Kept(prov) /\ x.todo # {} THEN "write" ELSE "over"]
  <2>1. x.pc = "check" /\ x.op \in {"createModels", "seed"} /\ x.p \in Users /\ x.todo \subseteq Names
    BY <1>3, <1>13 DEF K!CheckProvider, CatCarries
  <2>2. /\ r \in CatCall /\ r.pc = (IF x.p \in Kept(prov) /\ x.todo # {} THEN "write" ELSE "over")
        /\ r.op = x.op /\ r.at = x.at /\ r.p = x.p /\ r.todo = x.todo
    BY <1>3, <2>1 DEF CatCall
  <2>3. catCall' = [catCall EXCEPT ![c] = r] /\ UNCHANGED <<catMet, prov, model>>
    BY <1>1, <1>13 DEF K!CheckProvider, K!Goto
  <2> HIDE DEF r
  <2>4. CatCarries(r)
    BY <2>1, <2>2 DEF CatCarries
  <2>5. CatCallTypes' /\ CatGoesOn(c) /\ catCall'[c] = r
    BY <1>1, <2>1, <2>2, <2>3, <2>4, CatGoes
  <2>6. CatTypes'
    BY <1>1, <2>3, <2>5 DEF CatTypes
  <2> QED
    BY <2>1, <2>2, <2>3, <2>5, <2>6 DEF CatMove, CatProviders, CatModels, CatReaches
<1>14. CASE K!WriteModel(c)
  <2>1. x.pc = "write" /\ x.op \in {"createModels", "seed"} /\ x.p \in Users /\ x.todo \subseteq Names
    BY <1>3, <1>14 DEF K!WriteModel, CatCarries
  <2>2. PICK m \in Ids, name \in x.todo :
          /\ model[m] = Unused /\ model' = [model EXCEPT ![m] = K!NewModel(c, x.p, name)]
          /\ catCall' = [catCall EXCEPT ![c].pc = "check", ![c].todo = @ \ {name}]
    BY <1>14 DEF K!WriteModel
  <2> DEFINE r == [x EXCEPT !.pc = "check", !.todo = @ \ {name}]
             y == K!NewModel(c, x.p, name)
  <2>3. x.todo \ {name} \in CatTodo
    BY <1>0, <2>1
  <2>3a. r \in CatCall /\ r.pc = "check" /\ r.op = x.op /\ r.at = x.at /\ r.p = x.p /\ r.todo = x.todo \ {name}
    BY <1>3, <2>3 DEF CatCall
  <2>3b. y \in K!ModelDoc /\ y.prov = x.p /\ y.name = name /\ y.by = {c}
    BY <2>1 DEF K!NewModel, K!ModelDoc, K!Edits
  <2>4. /\ catCall' = [catCall EXCEPT ![c] = r] /\ UNCHANGED <<catMet, prov>> /\ model' = [model EXCEPT ![m] = y]
    BY <1>14, <2>2 DEF K!WriteModel
  <2> HIDE DEF r, y
  <2>5. CatCarries(r)
    BY <2>1, <2>3a, <2>3b DEF CatCarries
  <2>6. CatCallTypes' /\ CatGoesOn(c) /\ catCall'[c] = r
    BY <1>1, <2>1, <2>3a, <2>3b, <2>4, <2>5, CatGoes
  <2>7. CatTypes'
    BY <1>1, <2>3a, <2>3b, <2>4, <2>6 DEF CatTypes
  <2>8. CatWrites(c, m, y)
    BY <2>1, <2>2, <2>3a, <2>3b, <2>4, <2>6 DEF CatWrites
  <2>9. CatModels(c) /\ \E n \in Ids, z \in K!ModelDoc : CatWrites(c, n, z)
    BY <2>3a, <2>3b, <2>8 DEF CatModels
  <2> QED
    BY <2>1, <2>3a, <2>3b, <2>4, <2>6, <2>7, <2>9 DEF CatMove, CatProviders, CatReaches
<1>15. CASE K!SaveModel(c)
  <2> DEFINE r == [x EXCEPT !.pc = "over"]
             y == K!Edited(c)
  <2>1. /\ x.pc = "edit" /\ x.op = "edit" /\ x.m \in Ids /\ x.field \in {"rate", "note"} /\ x.copy \in K!ModelDoc
    BY <1>3, <1>15 DEF K!SaveModel, CatCarries
  <2>2. /\ r \in CatCall /\ r.pc = "over" /\ r.op = x.op /\ r.at = x.at /\ r.m = x.m /\ r.field = x.field
        /\ r.copy = x.copy
    BY <1>3, <2>1 DEF CatCall
  <2>3. /\ y \in K!ModelDoc /\ y.prov = x.copy.prov /\ y.name = x.copy.name /\ y.by = x.copy.by \cup {c}
        /\ y.rate = (IF x.field = "rate" THEN c ELSE x.copy.rate)
        /\ y.note = (IF x.field = "note" THEN c ELSE x.copy.note)
    BY <2>1 DEF K!Edited, K!ModelDoc, K!Edits
  <2>4. /\ catCall' = [catCall EXCEPT ![c] = r] /\ UNCHANGED <<catMet, prov>> /\ model' = [model EXCEPT ![x.m] = y]
    BY <1>15 DEF K!SaveModel, K!Goto
  <2> HIDE DEF r, y
  <2>5. CatCarries(r)
    BY <2>1, <2>2 DEF CatCarries
  <2>6. CatCallTypes' /\ CatGoesOn(c) /\ catCall'[c] = r
    BY <1>1, <2>1, <2>2, <2>4, <2>5, CatGoes
  <2>7. CatTypes'
    BY <1>1, <2>1, <2>3, <2>4, <2>6 DEF CatTypes
  <2>8. CatWrites(c, x.m, y)
    BY <2>1, <2>2, <2>3, <2>4, <2>6 DEF CatWrites
  <2>9. CatModels(c) /\ \E n \in Ids, z \in K!ModelDoc : CatWrites(c, n, z)
    BY <2>1, <2>3, <2>8 DEF CatModels
  <2> QED
    BY <2>1, <2>2, <2>4, <2>6, <2>7, <2>9 DEF CatMove, CatProviders, CatReaches
<1>16. CASE K!Seed(c)
  <2>1. UNCHANGED <<prov, model>>
    BY <1>16 DEF K!Seed
  <2>2. CASE K!Systems = {} /\ K!Begin(c, [K!Idle EXCEPT !.pc = "seedProvider", !.op = "seed"])
    <3> DEFINE r == [K!Idle EXCEPT !.pc = "seedProvider", !.op = "seed"]
    <3>1. r \in CatCall /\ CatCarries(r) /\ r.pc = "seedProvider" /\ r.op = "seed"
      BY DEF K!Idle, CatCall, CatCarries, CatTodo
    <3>2. K!Begin(c, r)
      BY <2>2
    <3> HIDE DEF r
    <3>3. CatCallTypes' /\ CatGoesOn(c) /\ catCall[c].pc = "idle" /\ catCall'[c].pc = "seedProvider"
      BY <1>1, <3>1, <3>2, CatBegins
    <3>4. CatTypes'
      BY <1>1, <2>1, <3>3 DEF CatTypes
    <3>5. \A p \in Kept(prov) : ~prov[p].system
      BY <1>1, <2>2 DEF K!Systems
    <3> QED
      BY <2>1, <3>3, <3>4, <3>5 DEF CatMove, CatProviders, CatModels, CatReaches
  <2>3. ASSUME NEW p \in K!Systems, K!Begin(c, [K!Idle EXCEPT !.pc = "seedModels", !.op = "seed", !.p = p])
        PROVE  CatMove(c)
    <3> DEFINE r == [K!Idle EXCEPT !.pc = "seedModels", !.op = "seed", !.p = p]
    <3>1. p \in Users
      BY <1>1, <2>3 DEF K!Systems
    <3>2. r \in CatCall /\ CatCarries(r) /\ r.pc = "seedModels" /\ r.op = "seed"
      BY <3>1 DEF K!Idle, CatCall, CatCarries, CatTodo
    <3>3. K!Begin(c, r)
      BY <2>3
    <3> HIDE DEF r
    <3>4. CatCallTypes' /\ CatGoesOn(c) /\ catCall'[c].pc = "seedModels"
      BY <1>1, <3>2, <3>3, CatBegins
    <3>5. CatTypes'
      BY <1>1, <2>1, <3>4 DEF CatTypes
    <3> QED
      BY <2>1, <3>4, <3>5 DEF CatMove, CatProviders, CatModels, CatReaches
  <2> QED
    BY <1>16, <2>2, <2>3 DEF K!Seed
<1>17. CASE K!SeedProvider(c)
  <2>1. x.pc = "seedProvider" /\ x.op = "seed"
    BY <1>3, <1>17 DEF K!SeedProvider, CatCarries
  <2> DEFINE y == [system |-> TRUE, key |-> None]
  <2>2. PICK p \in Users : /\ prov' = [prov EXCEPT ![p] = y]
                           /\ catCall' = [catCall EXCEPT ![c].pc = "seedModels", ![c].p = p]
    BY <1>17 DEF K!SeedProvider
  <2> DEFINE r == [x EXCEPT !.pc = "seedModels", !.p = p]
  <2>3. r \in CatCall /\ r.pc = "seedModels" /\ r.op = x.op /\ r.at = x.at /\ r.p = p /\ y \in K!ProviderDoc
    BY <1>2, <1>3 DEF CatCall
  <2>4. catCall' = [catCall EXCEPT ![c] = r] /\ UNCHANGED <<catMet, model>>
    BY <1>17, <2>2 DEF K!SeedProvider
  <2> HIDE DEF r, y
  <2>5. CatCarries(r)
    BY <2>1, <2>3 DEF CatCarries
  <2>6. CatCallTypes' /\ CatGoesOn(c) /\ catCall'[c] = r
    BY <1>1, <2>1, <2>3, <2>4, <2>5, CatGoes
  <2>7. CatTypes'
    BY <1>1, <2>2, <2>3, <2>4, <2>6 DEF CatTypes
  <2> QED
    BY <2>1, <2>2, <2>3, <2>4, <2>6, <2>7 DEF CatMove, CatProviders, CatModels, CatReaches
<1>18. CASE K!SeedModels(c)
  <2> DEFINE has == {model[m].name : m \in {m \in Kept(model) : model[m].prov = x.p}}
             r == [x EXCEPT !.pc = "check", !.todo = Defaults \ has]
  <2>1. x.pc = "seedModels" /\ x.op = "seed" /\ x.p \in Users
    BY <1>3, <1>18 DEF K!SeedModels, CatCarries
  <2>2. Defaults \ has \in CatTodo
    BY <1>0 DEF CatalogAssumption
  <2>2a. r \in CatCall /\ r.pc = "check" /\ r.op = x.op /\ r.at = x.at /\ r.p = x.p /\ r.todo = Defaults \ has
    BY <1>3, <2>1, <2>2 DEF CatCall
  <2>3. catCall' = [catCall EXCEPT ![c] = r] /\ UNCHANGED <<catMet, prov, model>>
    BY <1>1, <1>18 DEF K!SeedModels
  <2>4. \A m \in Kept(model) : model[m].prov = x.p => model[m].name \notin r.todo
    BY <2>2a
  <2> HIDE DEF r
  <2>5. CatCarries(r)
    BY <2>1, <2>2a DEF CatCarries, CatalogAssumption
  <2>6. CatCallTypes' /\ CatGoesOn(c) /\ catCall'[c] = r
    BY <1>1, <2>1, <2>2a, <2>3, <2>5, CatGoes
  <2>7. CatTypes'
    BY <1>1, <2>3, <2>6 DEF CatTypes
  <2> QED
    BY <2>1, <2>2a, <2>3, <2>4, <2>6, <2>7 DEF CatMove, CatProviders, CatModels, CatReaches
<1>19. CASE K!Sync(c)
  <2> DEFINE r == [K!Idle EXCEPT !.pc = "sync", !.op = "sync"]
  <2>1. r \in CatCall /\ CatCarries(r) /\ r.pc = "sync" /\ r.op = "sync"
    BY DEF K!Idle, CatCall, CatCarries, CatTodo
  <2>2. K!Begin(c, r) /\ prov' = prov /\ model' = model
    BY <1>19 DEF K!Sync
  <2> HIDE DEF r
  <2>3. CatCallTypes' /\ CatGoesOn(c) /\ catCall'[c].pc = "sync"
    BY <1>1, <2>1, <2>2, CatBegins
  <2>4. CatTypes'
    BY <1>1, <2>2, <2>3 DEF CatTypes
  <2> QED
    BY <2>2, <2>3, <2>4 DEF CatMove, CatProviders, CatModels, CatReaches
<1>20. CASE K!ListModels(c)
  <2> DEFINE listed == {<<m, model[m]>> : m \in {m \in Kept(model) : model[m].price = "old"}}
             r == [x EXCEPT !.pc = "next", !.todo = listed]
  <2>1. x.pc = "sync" /\ x.op = "sync"
    BY <1>3, <1>20 DEF K!ListModels, CatCarries
  <2>2. listed \subseteq Ids \X K!ModelDoc /\ listed \in CatTodo
    BY <1>0, <1>1
  <2> HIDE DEF listed
  <2>3. r \in CatCall /\ r.pc = "next" /\ r.op = x.op /\ r.at = x.at /\ r.todo = listed
    BY <1>3, <2>2 DEF CatCall
  <2>4. catCall' = [catCall EXCEPT ![c] = r] /\ UNCHANGED <<catMet, prov, model>>
    BY <1>1, <1>20 DEF K!ListModels, listed
  <2> HIDE DEF r
  <2>5. CatCarries(r)
    BY <2>1, <2>2, <2>3 DEF CatCarries
  <2>6. CatCallTypes' /\ CatGoesOn(c) /\ catCall'[c] = r
    BY <1>1, <2>1, <2>3, <2>4, <2>5, CatGoes
  <2>7. CatTypes'
    BY <1>1, <2>4, <2>6 DEF CatTypes
  <2> QED
    BY <2>1, <2>3, <2>4, <2>6, <2>7 DEF CatMove, CatProviders, CatModels, CatReaches, listed
<1>21. CASE K!NextUpdate(c)
  <2>1. x.pc = "next" /\ x.op = "sync" /\ x.todo \subseteq Ids \X K!ModelDoc
    BY <1>3, <1>21 DEF K!NextUpdate, CatCarries
  <2>2. CASE K!NoneLeft(c)
    <3> DEFINE r == [x EXCEPT !.pc = "over"]
    <3>1. r \in CatCall /\ r.pc = "over" /\ r.op = x.op /\ r.at = x.at
      BY <1>3, <2>1 DEF CatCall
    <3>2. catCall' = [catCall EXCEPT ![c] = r] /\ UNCHANGED <<catMet, prov, model>> /\ x.todo = {}
      BY <2>2 DEF K!NoneLeft, K!Goto
    <3> HIDE DEF r
    <3>3. CatCarries(r)
      BY <2>1, <3>1 DEF CatCarries
    <3>4. CatCallTypes' /\ CatGoesOn(c) /\ catCall'[c] = r
      BY <1>1, <2>1, <3>1, <3>2, <3>3, CatGoes
    <3>5. CatTypes'
      BY <1>1, <3>2, <3>4 DEF CatTypes
    <3> QED
      BY <2>1, <3>1, <3>2, <3>4, <3>5 DEF CatMove, CatProviders, CatModels, CatReaches
  <2>3. ASSUME NEW todo \in x.todo, UNCHANGED <<prov, model, catMet>>,
               catCall' = [catCall EXCEPT
                  ![c].pc = IF todo[1] \in Kept(model) THEN "price" ELSE "next", ![c].m = todo[1],
                  ![c].copy = [fresh |-> model[todo[1]], listed |-> todo[2]], ![c].todo = @ \ {todo}]
        PROVE  CatMove(c)
    <3> DEFINE copy == [fresh |-> model[todo[1]], listed |-> todo[2]]
               r == [x EXCEPT !.pc = IF todo[1] \in Kept(model) THEN "price" ELSE "next",
                              !.m = todo[1], !.copy = copy, !.todo = @ \ {todo}]
    <3>1. todo[1] \in Ids /\ todo[2] \in K!ModelDoc
      BY <2>1
    <3>2. /\ copy \in [fresh : K!ModelDoc \cup {None, Unused}, listed : K!ModelDoc]
          /\ todo[1] \in Kept(model) => copy \in [fresh : K!ModelDoc, listed : K!ModelDoc]
      BY <1>1, <3>1
    <3>2a. x.todo \ {todo} \in CatTodo
      BY <1>0, <2>1
    <3> HIDE DEF copy
    <3>3. /\ r \in CatCall /\ r.pc = (IF todo[1] \in Kept(model) THEN "price" ELSE "next")
          /\ r.op = x.op /\ r.at = x.at /\ r.m = todo[1] /\ r.copy = copy /\ r.todo = x.todo \ {todo}
      BY <1>3, <2>1, <3>1, <3>2, <3>2a DEF CatCall
    <3>4. catCall' = [catCall EXCEPT ![c] = r]
      BY <2>3 DEF copy
    <3> HIDE DEF r
    <3>5. CatCarries(r)
      BY <2>1, <3>1, <3>2, <3>3 DEF CatCarries
    <3>6. CatCallTypes' /\ CatGoesOn(c) /\ catCall'[c] = r
      BY <1>1, <2>1, <2>3, <3>3, <3>4, <3>5, CatGoes
    <3>7. CatTypes'
      BY <1>1, <2>3, <3>6 DEF CatTypes
    <3>8. CASE todo[1] \in Kept(model)
      <4>1. /\ catCall'[c].pc = "price" /\ catCall'[c].m = todo[1] /\ catCall'[c].copy = copy
            /\ catCall'[c].todo = catCall[c].todo \ {todo} /\ todo \in catCall[c].todo
        BY <3>3, <3>6, <3>8
      <4>2. \E t \in catCall[c].todo :
              /\ catCall'[c].m = t[1] /\ catCall'[c].copy = [fresh |-> model[t[1]], listed |-> t[2]]
              /\ t[1] \in Kept(model) /\ catCall'[c].todo = catCall[c].todo \ {t}
        BY <3>8, <4>1 DEF copy
      <4> QED
        BY <2>1, <2>3, <3>6, <3>7, <4>1, <4>2 DEF CatMove, CatProviders, CatModels, CatReaches
    <3>9. CASE todo[1] \notin Kept(model)
      BY <2>1, <2>3, <3>3, <3>6, <3>7, <3>9 DEF CatMove, CatProviders, CatModels, CatReaches
    <3> QED
      BY <3>8, <3>9
  <2> QED
    BY <1>1, <1>21, <2>2, <2>3 DEF K!NextUpdate
<1>22. CASE K!WritePrice(c)
  <2> DEFINE r == [x EXCEPT !.pc = "next"]
             y == K!Priced(c)
  <2>1. /\ x.pc = "price" /\ x.op = "sync" /\ x.m \in Ids /\ x.copy \in [fresh : K!ModelDoc, listed : K!ModelDoc]
        /\ x.todo \subseteq Ids \X K!ModelDoc
    BY <1>3, <1>22 DEF K!WritePrice, CatCarries
  <2>2. r \in CatCall /\ r.pc = "next" /\ r.op = x.op /\ r.at = x.at /\ r.todo = x.todo
    BY <1>3, <2>1 DEF CatCall
  <2>3. /\ y \in K!ModelDoc /\ y.prov = x.copy.fresh.prov /\ y.name = x.copy.fresh.name
        /\ y.by = x.copy.fresh.by \cup {c} /\ y.price = "synced"
        /\ y.rate = x.copy.listed.rate /\ y.note = x.copy.fresh.note
    BY <2>1 DEF K!Priced, K!ModelDoc, K!Edits
  <2>4. catCall' = [catCall EXCEPT ![c] = r] /\ UNCHANGED <<catMet, prov>> /\ model' = [model EXCEPT ![x.m] = y]
    BY <1>22 DEF K!WritePrice, K!Goto
  <2> HIDE DEF r, y
  <2>5. CatCarries(r)
    BY <2>1, <2>2 DEF CatCarries
  <2>6. CatCallTypes' /\ CatGoesOn(c) /\ catCall'[c] = r
    BY <1>1, <2>1, <2>2, <2>4, <2>5, CatGoes
  <2>7. CatTypes'
    BY <1>1, <2>1, <2>3, <2>4, <2>6 DEF CatTypes
  <2>8. CatWrites(c, x.m, y)
    BY <2>1, <2>2, <2>3, <2>4, <2>6 DEF CatWrites
  <2>9. CatModels(c) /\ \E n \in Ids, z \in K!ModelDoc : CatWrites(c, n, z)
    BY <2>1, <2>3, <2>8 DEF CatModels
  <2> QED
    BY <2>1, <2>2, <2>4, <2>6, <2>7, <2>9 DEF CatMove, CatProviders, CatReaches
<1> QED
  BY <1>4, <1>5, <1>6, <1>7, <1>8, <1>9, <1>10, <1>11, <1>12, <1>13, <1>14, <1>15, <1>16, <1>17, <1>18, <1>19,
     <1>20, <1>21, <1>22

LEMMA CatGoneOn ==
  ASSUME RequestsAssumption, CatTypes, NEW c \in Requests, CatGoesOn(c)
  PROVE  /\ \A d \in CatBegun(catCall) :
              /\ d \in CatBegun(catCall') /\ catCall'[d].at = catCall[d].at /\ catCall'[d].op = catCall[d].op
              /\ catCall[d].op = "deleteProvider" => catCall'[d].p = catCall[d].p
              /\ catCall[d].op = "edit" => catCall'[d].m = catCall[d].m /\ catCall'[d].field = catCall[d].field
         /\ \A d \in Requests : catCall'[d].at >= catCall[d].at
         /\ catMet \subseteq catMet'
         /\ c \in CatBegun(catCall')
<1>1. \A d \in Requests : catCall[d].at \in Nat /\ (catCall[d].pc = "idle" => catCall[d].at = 0)
  BY DEF CatTypes, CatCallTypes, CatCall, K!Idle
<1>2. Cardinality(CatBegun(catCall)) \in Nat
  BY FS_Subset, FS_CardinalityType DEF CatBegun, RequestsAssumption
<1>3. catCall'[c].at >= catCall[c].at
  BY <1>1, <1>2 DEF CatGoesOn
<1> QED
  BY <1>1, <1>3 DEF CatGoesOn, CatBegun

LEMMA CatOrderStays ==
  ASSUME RequestsAssumption, CatTypes, CatInOrder(catCall, catMet), NEW c \in Requests, CatGoesOn(c)
  PROVE  CatInOrder(catCall', catMet')
<1> DEFINE n == Cardinality(CatBegun(catCall))
<1>1. IsFiniteSet(CatBegun(catCall)) /\ n \in Nat
  BY FS_Subset, FS_CardinalityType DEF CatBegun, RequestsAssumption
<1>2. /\ CatBusy(catCall) \subseteq CatBegun(catCall) /\ CatBegun(catCall) \subseteq Requests
      /\ CatBusy(catCall') \subseteq CatBegun(catCall') /\ CatBegun(catCall') \subseteq Requests
      /\ \A d \in CatBegun(catCall) \ CatBusy(catCall) : d # c /\ catCall[d].pc = "over"
      /\ \A d \in Requests : d # c => /\ catCall'[d] = catCall[d]
                                      /\ d \in CatBusy(catCall') <=> d \in CatBusy(catCall)
                                      /\ d \in CatBegun(catCall') <=> d \in CatBegun(catCall)
  BY DEF CatBusy, CatBegun, CatGoesOn
<1>3. \A d, e : {d, e} = {e, d}
  OBVIOUS
<1>4. CASE catCall[c].pc = "idle"
  <2>1. /\ catCall'[c].at = n + 1 /\ catMet' = catMet \cup {{c, d} : d \in CatBusy(catCall)}
        /\ c \notin CatBegun(catCall) /\ c \in CatBegun(catCall')
    BY <1>4 DEF CatGoesOn, CatBegun
  <2>2. CatBegun(catCall') = CatBegun(catCall) \cup {c}
    BY <1>2, <2>1 DEF CatBegun
  <2>3. Cardinality(CatBegun(catCall')) = n + 1
    BY <1>1, <2>1, <2>2, FS_AddElement
  <2> HIDE DEF n
  <2>4. \A d \in CatBegun(catCall) : catCall[d].at \in Nat /\ catCall[d].at <= n
    BY <1>2 DEF CatInOrder, n
  <2>5. \A d \in Requests : /\ catCall'[d].at \in Nat
                            /\ d \in CatBegun(catCall') => catCall'[d].at <= Cardinality(CatBegun(catCall'))
    BY <1>1, <1>2, <2>1, <2>2, <2>3, <2>4 DEF CatInOrder
  <2>6. \A d \in CatBusy(catCall) : {c, d} \in catMet' /\ {d, c} \in catMet'
    BY <1>3, <2>1
  <2>7. catMet \subseteq catMet'
    BY <2>1
  <2>8. \A d, e \in CatBusy(catCall') : d # e => {d, e} \in catMet'
    BY <1>2, <2>2, <2>6, <2>7 DEF CatInOrder
  <2>9. \A d \in CatBusy(catCall'), e \in CatBegun(catCall') :
          e # d => {e, d} \in catMet' \/ catCall'[d].at > catCall'[e].at
    <3> SUFFICES ASSUME NEW d \in CatBusy(catCall'), NEW e \in CatBegun(catCall'), e # d,
                        {e, d} \notin catMet'
                 PROVE  catCall'[d].at > catCall'[e].at
      OBVIOUS
    <3>1. CASE d = c
      <4>1. e \in CatBegun(catCall) /\ catCall'[e].at <= n
        BY <1>2, <2>2, <2>4, <3>1
      <4> QED
        BY <1>1, <1>2, <2>1, <2>4, <3>1, <4>1
    <3>2. CASE d # c
      <4>1. d \in CatBusy(catCall) /\ e # c
        BY <1>2, <2>6, <3>2
      <4> QED
        BY <1>2, <2>7, <3>2, <4>1 DEF CatInOrder
    <3> QED
      BY <3>1, <3>2
  <2> QED
    BY <2>5, <2>8, <2>9 DEF CatInOrder
<1>5. CASE catCall[c].pc # "idle"
  <2>1. catMet' = catMet /\ catCall'[c].at = catCall[c].at /\ c \in CatBusy(catCall) /\ c \in CatBegun(catCall')
    BY <1>5 DEF CatGoesOn, CatBusy, CatBegun
  <2>2. CatBegun(catCall') = CatBegun(catCall) /\ CatBusy(catCall') \subseteq CatBusy(catCall)
    BY <1>2, <2>1 DEF CatBegun, CatBusy
  <2>3. \A d \in Requests : catCall'[d].at = catCall[d].at
    BY <1>2, <2>1
  <2> QED
    BY <1>2, <2>1, <2>2, <2>3 DEF CatInOrder
<1> QED
  BY <1>4, <1>5

\* The held document h is g, or has come of g by the step of c.
CatComesOf(c, g, h) ==
  /\ h.m = g.m /\ h.doc.prov = g.doc.prov /\ h.doc.name = g.doc.name
  /\ g.by \subseteq h.by /\ h.by \subseteq g.by \cup {c} /\ (h.by # g.by => catCall'[c].op # "seed")
  /\ \/ h.doc.rate = g.doc.rate
     \/ catCall[c].pc = "edit" /\ catCall[c].m = h.m /\ catCall[c].field = "rate" /\ h.doc.rate = c
     \/ [m |-> h.m, rate |-> h.doc.rate] \in CatListed(catCall)
  /\ \/ h.doc.note = g.doc.note
     \/ catCall[c].pc = "edit" /\ catCall[c].m = h.m /\ catCall[c].field = "note" /\ h.doc.note = c

CatIsNew(c, h) ==
  /\ catCall[c].pc = "write" /\ h.m \in Ids /\ model[h.m] = Unused /\ h.by = {c} /\ h.doc \in K!ModelDoc
  /\ h.doc.prov = catCall[c].p /\ h.doc.name \in catCall[c].todo
  /\ model' = [model EXCEPT ![h.m] = h.doc]
  /\ catCall'[c].pc = "check" /\ catCall'[c].p = catCall[c].p
  /\ catCall'[c].todo = catCall[c].todo \ {h.doc.name}

LEMMA HeldComes ==
  ASSUME CatTypes, NEW c \in Requests, CatMove(c), NEW h \in CatHeld(catCall', model')
  PROVE  CatIsNew(c, h) \/ \E g \in CatHeld(catCall, model) : CatComesOf(c, g, h)
<1>1. /\ catCall \in [Requests -> CatCall] /\ model \in [Ids -> K!ModelDoc \cup {None, Unused}]
      /\ \A d \in Requests : CatCarries(catCall[d])
      /\ Kept(model) \subseteq Ids /\ Kept(model') \subseteq Ids
      /\ \A d \in Requests : d # c => catCall'[d] = catCall[d]
  BY DEF CatTypes, CatCallTypes, CatMove, CatGoesOn, Kept
<1>2. ASSUME NEW m \in Kept(model'), h = [m |-> m, doc |-> model'[m], by |-> model'[m].by] PROVE
        CatIsNew(c, h) \/ \E g \in CatHeld(catCall, model) : CatComesOf(c, g, h)
  <2>1. m \in Ids /\ model'[m] \notin {None, Unused}
    BY <1>1, <1>2 DEF Kept
  <2>2. CASE model'[m] = model[m]
    <3>1. m \in Kept(model)
      BY <1>1, <2>1, <2>2 DEF Kept
    <3>2. h \in CatHeld(catCall, model)
      BY <1>2, <2>2, <3>1 DEF CatHeld
    <3>3. CatComesOf(c, h, h)
      BY DEF CatComesOf
    <3> QED
      BY <3>2, <3>3
  <2>3. CASE model'[m] # model[m]
    <3>1. PICK n \in Ids, x \in K!ModelDoc : CatWrites(c, n, x)
      BY <1>1, <2>1, <2>3 DEF CatMove, CatModels
    <3>2. n = m /\ model'[m] = x /\ h.m = m /\ h.doc = x /\ h.by = x.by
      BY <1>1, <1>2, <2>1, <2>3, <3>1 DEF CatWrites
    <3>3. CASE catCall[c].pc = "write"
      BY <2>1, <3>1, <3>2, <3>3 DEF CatWrites, CatIsNew
    <3>4. CASE catCall[c].pc = "edit"
      <4> DEFINE g == [m |-> catCall[c].m, doc |-> catCall[c].copy, by |-> catCall[c].copy.by \cup {c}]
      <4>1. g \in CatHeld(catCall, model)
        BY <3>4 DEF CatHeld
      <4>2. CatComesOf(c, g, h)
        BY <3>1, <3>2, <3>4 DEF CatWrites, CatComesOf
      <4> QED
        BY <4>1, <4>2
    <3>5. CASE catCall[c].pc = "price"
      <4> DEFINE g == [m |-> catCall[c].m, doc |-> catCall[c].copy.fresh, by |-> catCall[c].copy.fresh.by \cup {c}]
                 l == [m |-> catCall[c].m, rate |-> catCall[c].copy.listed.rate]
      <4>1. g \in CatHeld(catCall, model) /\ l \in CatListed(catCall)
        BY <3>5 DEF CatHeld, CatListed
      <4>2. CatComesOf(c, g, h)
        BY <3>1, <3>2, <3>5, <4>1 DEF CatWrites, CatComesOf
      <4> QED
        BY <4>1, <4>2
    <3> QED
      BY <3>1, <3>3, <3>4, <3>5 DEF CatWrites
  <2> QED
    BY <2>2, <2>3
<1>3. ASSUME NEW e \in Requests, catCall'[e].pc = "edit",
             h = [m |-> catCall'[e].m, doc |-> catCall'[e].copy, by |-> catCall'[e].copy.by \cup {e}]
      PROVE  \E g \in CatHeld(catCall, model) : CatComesOf(c, g, h)
  <2>1. CASE e # c
    <3>1. h \in CatHeld(catCall, model)
      BY <1>1, <1>3, <2>1 DEF CatHeld
    <3>2. CatComesOf(c, h, h)
      BY DEF CatComesOf
    <3> QED
      BY <3>1, <3>2
  <2>2. CASE e = c
    <3> DEFINE m == catCall'[c].m
               g == [m |-> m, doc |-> model[m], by |-> model[m].by]
    <3>1. m \in Kept(model) /\ catCall'[c].copy = model[m]
      BY <1>3, <2>2 DEF CatMove, CatReaches
    <3>2. g \in CatHeld(catCall, model)
      BY <3>1 DEF CatHeld
    <3>3. CatCarries(catCall'[c])
      BY DEF CatMove, CatTypes, CatCallTypes, CatCarries
    <3>4. CatComesOf(c, g, h)
      BY <1>3, <2>2, <3>1, <3>3 DEF CatComesOf, CatCarries
    <3> QED
      BY <3>2, <3>4
  <2> QED
    BY <2>1, <2>2
<1>4. ASSUME NEW s \in Requests, catCall'[s].pc = "price",
             h = [m |-> catCall'[s].m, doc |-> catCall'[s].copy.fresh, by |-> catCall'[s].copy.fresh.by \cup {s}]
      PROVE  \E g \in CatHeld(catCall, model) : CatComesOf(c, g, h)
  <2>1. CASE s # c
    <3>1. h \in CatHeld(catCall, model)
      BY <1>1, <1>4, <2>1 DEF CatHeld
    <3>2. CatComesOf(c, h, h)
      BY DEF CatComesOf
    <3> QED
      BY <3>1, <3>2
  <2>2. CASE s = c
    <3> DEFINE m == catCall'[c].m
               g == [m |-> m, doc |-> model[m], by |-> model[m].by]
    <3>1. m \in Kept(model) /\ catCall'[c].copy.fresh = model[m]
      <4>1. PICK todo \in catCall[c].todo :
              /\ m = todo[1] /\ catCall'[c].copy = [fresh |-> model[todo[1]], listed |-> todo[2]]
              /\ todo[1] \in Kept(model)
        BY <1>4, <2>2 DEF CatMove, CatReaches
      <4> QED
        BY <4>1
    <3>2. g \in CatHeld(catCall, model)
      BY <3>1 DEF CatHeld
    <3>3. CatCarries(catCall'[c])
      BY DEF CatMove, CatTypes, CatCallTypes, CatCarries
    <3>4. CatComesOf(c, g, h)
      BY <1>4, <2>2, <3>1, <3>3 DEF CatComesOf, CatCarries
    <3> QED
      BY <3>2, <3>4
  <2> QED
    BY <2>1, <2>2
<1> QED
  BY <1>2, <1>3, <1>4 DEF CatHeld

LEMMA ListedComes ==
  ASSUME CatTypes, NEW c \in Requests, CatMove(c), NEW l \in CatListed(catCall')
  PROVE  l \in CatListed(catCall) \/ \E g \in CatHeld(catCall, model) : g.m = l.m /\ l.rate = g.doc.rate
<1>1. \A d \in Requests : d # c => catCall'[d] = catCall[d]
  BY DEF CatMove, CatGoesOn
<1>2. ASSUME NEW s \in Requests, catCall'[s].pc \in {"next", "price"}, NEW todo \in catCall'[s].todo,
             l = [m |-> todo[1], rate |-> todo[2].rate]
      PROVE  l \in CatListed(catCall) \/ \E g \in CatHeld(catCall, model) : g.m = l.m /\ l.rate = g.doc.rate
  <2>1. CASE s # c
    BY <1>1, <1>2, <2>1 DEF CatListed
  <2>2. CASE s = c /\ catCall[c].pc = "sync"
    <3>1. PICK m \in Kept(model) : todo = <<m, model[m]>>
      BY <1>2, <2>2 DEF CatMove, CatReaches
    <3> DEFINE g == [m |-> m, doc |-> model[m], by |-> model[m].by]
    <3>2. g \in CatHeld(catCall, model)
      BY DEF CatHeld
    <3> QED
      BY <1>2, <3>1, <3>2
  <2>3. CASE s = c /\ catCall[c].pc # "sync"
    <3>1. catCall[c].pc \in {"next", "price"} /\ todo \in catCall[c].todo
      BY <1>2, <2>3 DEF CatMove, CatReaches, CatWrites
    <3> QED
      BY <1>2, <3>1 DEF CatListed
  <2> QED
    BY <2>1, <2>2, <2>3
<1>3. ASSUME NEW s \in Requests, catCall'[s].pc = "price", l = [m |-> catCall'[s].m, rate |-> catCall'[s].copy.listed.rate]
      PROVE  l \in CatListed(catCall)
  <2>1. CASE s # c
    BY <1>1, <1>3, <2>1 DEF CatListed
  <2>2. CASE s = c
    <3>1. PICK todo \in catCall[c].todo :
            /\ catCall'[c].m = todo[1] /\ catCall'[c].copy = [fresh |-> model[todo[1]], listed |-> todo[2]]
      BY <1>3, <2>2 DEF CatMove, CatReaches
    <3>2. catCall[c].pc = "next"
      BY <1>3, <2>2 DEF CatMove, CatReaches
    <3> QED
      BY <1>3, <2>2, <3>1, <3>2 DEF CatListed
  <2> QED
    BY <2>1, <2>2
<1> QED
  BY <1>2, <1>3 DEF CatListed

-----------------------------------------------------------------------------
(* The parts of the catalog's invariant, one by one.                       *)

LEMMA WritersStay ==
  ASSUME RequestsAssumption, CatTypes, WritersBegan, NEW c \in Requests, CatMove(c) PROVE WritersBegan'
<1>1. CatBegun(catCall) \subseteq CatBegun(catCall') /\ c \in CatBegun(catCall')
  BY CatGoneOn DEF CatMove
<1>2. \A h \in CatHeld(catCall', model') : h.by \subseteq CatBegun(catCall')
  <2> SUFFICES ASSUME NEW h \in CatHeld(catCall', model') PROVE h.by \subseteq CatBegun(catCall')
    OBVIOUS
  <2>1. CASE CatIsNew(c, h)
    BY <1>1, <2>1 DEF CatIsNew
  <2>2. ASSUME NEW g \in CatHeld(catCall, model), CatComesOf(c, g, h) PROVE h.by \subseteq CatBegun(catCall')
    BY <1>1, <2>2 DEF CatComesOf, WritersBegan
  <2> QED
    BY <2>1, <2>2, HeldComes
<1> QED
  BY <1>2 DEF WritersBegan

\* An explanation stays, unless the provider is removed now.
LEMMA ExplainedStays ==
  ASSUME RequestsAssumption, CatalogAssumption, CatTypes, NEW c \in Requests, CatMove(c), NEW p, NEW B, NEW C,
         Explained(catCall, catMet, prov, p, B), B \subseteq C,
         p \in Kept(prov') \/ prov' # [prov EXCEPT ![p] = None] \/ catCall[c].pc # "cascade"
  PROVE  Explained(catCall', catMet', prov', p, C)
<1>1. /\ \A d \in Requests : catCall[d].op = "deleteProvider" => d \in CatBegun(catCall)
      /\ prov \in [Users -> K!ProviderDoc \cup {None, Unused}]
  BY DEF CatTypes, CatCallTypes, CatCarries, CatBegun
<1>2. CASE p \in Kept(prov)
  <2>1. p \in Kept(prov')
    BY <1>1, <1>2 DEF Kept, CatMove, CatProviders, CatModels, CatWrites, CatalogAssumption
  <2> QED
    BY <2>1 DEF Explained
<1>3. ASSUME NEW d \in Requests, catCall[d].op = "deleteProvider", catCall[d].p = p, NEW b \in B, {b, d} \in catMet
      PROVE  Explained(catCall', catMet', prov', p, C)
  <2>1. catCall'[d].op = "deleteProvider" /\ catCall'[d].p = p /\ {b, d} \in catMet' /\ b \in C
    BY <1>1, <1>3, CatGoneOn DEF CatMove
  <2> QED
    BY <2>1 DEF Explained
<1> QED
  BY <1>2, <1>3 DEF Explained

\* The call that removes a provider met the calls that have yet to write.
LEMMA RemovalMeets ==
  ASSUME RequestsAssumption, CatalogAssumption, CatInv, NEW c \in Requests, CatMove(c),
         catCall[c].pc = "cascade", NEW p, prov' = [prov EXCEPT ![p] = None], p \in Kept(prov)
  PROVE  /\ catCall[c].op = "deleteProvider" /\ catCall[c].p = p /\ catCall'[c].op = "deleteProvider" /\ catCall'[c].p = p
         /\ catCall[c].todo = {} /\ catCall'[c].pc = "over" /\ model' = model
         /\ \A d \in CatBusy(catCall) : d # c => {d, c} \in catMet'
<1>1. /\ CatTypes /\ prov \in [Users -> K!ProviderDoc \cup {None, Unused}] /\ CatCarries(catCall[c])
      /\ CatInOrder(catCall, catMet)
  BY DEF CatInv, CatTypes, CatCallTypes
<1>2. p \in Users /\ prov[p] \notin {None, Unused} /\ prov'[p] = None /\ prov' # prov
  BY <1>1 DEF Kept
<1>3. model' = model /\ catCall'[c].pc = "over" /\ catCall[c].todo = {} /\ prov' = [prov EXCEPT ![catCall[c].p] = None]
  BY <1>1, <1>2 DEF CatMove, CatProviders, CatalogAssumption
<1>4. catCall[c].op = "deleteProvider" /\ catCall[c].p = p
  BY <1>1, <1>2, <1>3 DEF CatCarries
<1>5. c \in CatBusy(catCall) /\ c \in CatBegun(catCall)
  BY DEF CatBusy, CatBegun
<1>6. /\ catMet \subseteq catMet' /\ catCall'[c].op = "deleteProvider" /\ catCall'[c].p = p
  BY <1>1, <1>4, <1>5, CatGoneOn DEF CatMove
<1>7. \A d \in CatBusy(catCall) : d # c => {d, c} \in catMet'
  BY <1>1, <1>5, <1>6 DEF CatInOrder
<1> QED
  BY <1>3, <1>4, <1>6, <1>7

LEMMA HeldStaysExplained ==
  ASSUME RequestsAssumption, CatalogAssumption, CatInv, NEW c \in Requests, CatMove(c) PROVE HeldExplained'
<1>1. CatTypes /\ CatInOrder(catCall, catMet) /\ HeldExplained /\ WritesExplained /\ CascadesReach
  BY DEF CatInv
<1> SUFFICES ASSUME NEW h \in CatHeld(catCall', model')
             PROVE  Explained(catCall', catMet', prov', h.doc.prov, h.by)
  BY DEF HeldExplained
<1> DEFINE p == h.doc.prov
<1>2. CASE catCall[c].pc = "cascade" /\ prov' = [prov EXCEPT ![p] = None] /\ p \in Kept(prov)
  <2>1. /\ catCall[c].op = "deleteProvider" /\ catCall[c].p = p
        /\ catCall'[c].op = "deleteProvider" /\ catCall'[c].p = p
        /\ catCall[c].todo = {} /\ catCall'[c].pc = "over" /\ model' = model
        /\ \A d \in CatBusy(catCall) : d # c => {d, c} \in catMet'
    BY <1>2, RemovalMeets
  <2>2. \A d \in Requests : d # c => catCall'[d] = catCall[d]
    BY DEF CatMove, CatGoesOn
  <2>3. ASSUME NEW m \in Kept(model), h = [m |-> m, doc |-> model[m], by |-> model[m].by]
        PROVE  \E b \in h.by : {b, c} \in catMet'
    <3>1. \E b \in model[m].by : {b, c} \in catMet
      BY <1>1, <1>2, <2>1, <2>3 DEF CascadesReach
    <3> QED
      BY <1>1, <2>3, <3>1, CatGoneOn DEF CatMove
  <2>4. ASSUME NEW e \in Requests, e # c, catCall[e].pc \in {"edit", "price"}, e \in h.by
        PROVE  \E b \in h.by : {b, c} \in catMet'
    BY <2>1, <2>4 DEF CatBusy
  <2>5. \E b \in h.by : {b, c} \in catMet'
    <3>1. ASSUME NEW e \in Requests, catCall'[e].pc \in {"edit", "price"}, e \in h.by
          PROVE  \E b \in h.by : {b, c} \in catMet'
      BY <2>1, <2>2, <2>4, <3>1
    <3>2. ASSUME NEW m \in Kept(model'), h = [m |-> m, doc |-> model'[m], by |-> model'[m].by]
          PROVE  \E b \in h.by : {b, c} \in catMet'
      BY <2>1, <2>3, <3>2
    <3>3. ASSUME NEW e \in Requests, catCall'[e].pc = "edit",
                 h = [m |-> catCall'[e].m, doc |-> catCall'[e].copy, by |-> catCall'[e].copy.by \cup {e}]
          PROVE  \E b \in h.by : {b, c} \in catMet'
      BY <3>1, <3>3
    <3>4. ASSUME NEW s \in Requests, catCall'[s].pc = "price",
                 h = [m |-> catCall'[s].m, doc |-> catCall'[s].copy.fresh, by |-> catCall'[s].copy.fresh.by \cup {s}]
          PROVE  \E b \in h.by : {b, c} \in catMet'
      BY <3>1, <3>4
    <3> QED
      BY <3>2, <3>3, <3>4 DEF CatHeld
  <2> QED
    BY <2>1, <2>5 DEF Explained
<1>3. CASE ~(catCall[c].pc = "cascade" /\ prov' = [prov EXCEPT ![p] = None] /\ p \in Kept(prov))
  <2>1. CASE CatIsNew(c, h)
    <3>1. Explained(catCall, catMet, prov, p, {c})
      BY <1>1, <2>1 DEF WritesExplained, CatIsNew
    <3>2. h.by = {c} /\ catCall[c].pc # "cascade"
      BY <2>1 DEF CatIsNew
    <3> QED
      BY <1>1, <3>1, <3>2, ExplainedStays
  <2>2. ASSUME NEW g \in CatHeld(catCall, model), CatComesOf(c, g, h)
        PROVE  Explained(catCall', catMet', prov', h.doc.prov, h.by)
    <3>1. Explained(catCall, catMet, prov, p, g.by) /\ g.by \subseteq h.by
      BY <1>1, <2>2 DEF HeldExplained, CatComesOf
    <3>2. CASE catCall[c].pc # "cascade" \/ prov' # [prov EXCEPT ![p] = None]
      BY <1>1, <3>1, <3>2, ExplainedStays
    <3>3. CASE p \notin Kept(prov)
      <4>1. PICK d \in Requests, b \in g.by : catCall[d].op = "deleteProvider" /\ catCall[d].p = p /\ {b, d} \in catMet
        BY <3>1, <3>3 DEF Explained
      <4>2. d \in CatBegun(catCall)
        BY <1>1, <4>1 DEF CatTypes, CatCallTypes, CatCarries, CatBegun
      <4>3. catCall'[d].op = "deleteProvider" /\ catCall'[d].p = p /\ {b, d} \in catMet' /\ b \in h.by
        BY <1>1, <3>1, <4>1, <4>2, CatGoneOn DEF CatMove
      <4> QED
        BY <4>3 DEF Explained
    <3> QED
      BY <1>3, <3>2, <3>3
  <2> QED
    BY <1>1, <2>1, <2>2, HeldComes
<1> QED
  BY <1>2, <1>3

LEMMA WritesStayExplained ==
  ASSUME RequestsAssumption, CatalogAssumption, CatInv, NEW c \in Requests, CatMove(c) PROVE WritesExplained'
<1>1. CatTypes /\ WritesExplained
  BY DEF CatInv
<1> SUFFICES ASSUME NEW d \in Requests, catCall'[d].pc = "write"
             PROVE  Explained(catCall', catMet', prov', catCall'[d].p, {d})
  BY DEF WritesExplained
<1>2. CASE d = c
  BY <1>2 DEF CatMove, CatReaches, Explained
<1>3. CASE d # c
  <2> DEFINE p == catCall[d].p
  <2>1. catCall'[d] = catCall[d] /\ Explained(catCall, catMet, prov, p, {d}) /\ d \in CatBusy(catCall)
    BY <1>1, <1>3 DEF CatMove, CatGoesOn, WritesExplained, CatBusy
  <2>2. CASE catCall[c].pc = "cascade" /\ prov' = [prov EXCEPT ![p] = None] /\ p \in Kept(prov)
    <3>1. catCall'[c].op = "deleteProvider" /\ catCall'[c].p = p /\ {d, c} \in catMet'
      BY <1>3, <2>1, <2>2, RemovalMeets
    <3> QED
      BY <2>1, <3>1 DEF Explained
  <2>3. CASE catCall[c].pc # "cascade" \/ prov' # [prov EXCEPT ![p] = None]
    <3>1. Explained(catCall', catMet', prov', p, {d})
      BY <1>1, <2>1, <2>3, ExplainedStays
    <3> QED
      BY <2>1, <3>1
  <2>4. CASE p \notin Kept(prov)
    <3>1. PICK e \in Requests : catCall[e].op = "deleteProvider" /\ catCall[e].p = p /\ {d, e} \in catMet
      BY <2>1, <2>4 DEF Explained
    <3>2. e \in CatBegun(catCall)
      BY <1>1, <3>1 DEF CatTypes, CatCallTypes, CatCarries, CatBegun
    <3>3. catCall'[e].op = "deleteProvider" /\ catCall'[e].p = p /\ {d, e} \in catMet'
      BY <1>1, <3>1, <3>2, CatGoneOn DEF CatMove
    <3> QED
      BY <2>1, <3>3 DEF Explained
  <2> QED
    BY <2>2, <2>3, <2>4
<1> QED
  BY <1>2, <1>3

LEMMA CascadesStill ==
  ASSUME RequestsAssumption, CatInv, NEW c \in Requests, CatMove(c) PROVE CascadesReach'
<1>1. /\ CatTypes /\ CascadesReach /\ CatInOrder(catCall, catMet) /\ catMet \subseteq catMet'
      /\ model \in [Ids -> K!ModelDoc \cup {None, Unused}] /\ Kept(model) \subseteq Ids /\ Kept(model') \subseteq Ids
  BY CatGoneOn DEF CatInv, CatMove, CatTypes, Kept
<1> SUFFICES ASSUME NEW d \in Requests, catCall'[d].pc = "cascade", NEW m \in Kept(model'),
                    model'[m].prov = catCall'[d].p
             PROVE  m \in catCall'[d].todo \/ \E b \in model'[m].by : {b, d} \in catMet'
  BY DEF CascadesReach
<1>2. m \in Ids /\ model'[m] \notin {None, Unused}
  BY <1>1 DEF Kept
<1>3. CASE d = c
  <2>1. CASE catCall[c].pc = "list"
    BY <1>3, <2>1 DEF CatMove, CatReaches
  <2>2. CASE catCall[c].pc = "cascade"
    <3>1. PICK n \in catCall[c].todo : model' = [model EXCEPT ![n] = None] /\ catCall'[c].todo = catCall[c].todo \ {n}
      BY <1>3, <2>2 DEF CatMove, CatReaches
    <3>2. m # n /\ model'[m] = model[m] /\ m \in Kept(model) /\ catCall'[c].p = catCall[c].p
      BY <1>1, <1>2, <1>3, <2>2, <3>1 DEF Kept, CatMove, CatReaches
    <3> QED
      BY <1>1, <1>3, <2>2, <3>1, <3>2 DEF CascadesReach
  <2> QED
    BY <1>3, <2>1, <2>2 DEF CatMove, CatReaches
<1>4. CASE d # c
  <2>1. catCall'[d] = catCall[d] /\ d \in CatBusy(catCall)
    BY <1>4 DEF CatMove, CatGoesOn, CatBusy
  <2>2. CASE model'[m] = model[m]
    <3>1. m \in Kept(model)
      BY <1>1, <1>2, <2>2 DEF Kept
    <3> QED
      BY <1>1, <2>1, <2>2, <3>1 DEF CascadesReach
  <2>3. CASE model'[m] # model[m]
    <3>1. PICK n \in Ids, x \in K!ModelDoc : CatWrites(c, n, x)
      BY <1>1, <1>2, <2>3 DEF CatMove, CatModels
    <3>2. c \in model'[m].by /\ c \in CatBusy(catCall)
      BY <1>1, <1>2, <2>3, <3>1 DEF CatWrites, CatBusy
    <3> QED
      BY <1>1, <1>4, <2>1, <3>2 DEF CatInOrder
  <2> QED
    BY <2>2, <2>3
<1> QED
  BY <1>3, <1>4

LEMMA EditsStillFound ==
  ASSUME RequestsAssumption, NoneIsNoTool, CatalogAssumption, CatTypes, EditsFound, NEW c \in Requests, CatMove(c)
  PROVE  EditsFound'
<1>1. /\ model \in [Ids -> K!ModelDoc \cup {None, Unused}] /\ None # Unused
      /\ \A d \in Requests : CatCarries(catCall[d]) /\ CatCarries(catCall'[d])
  BY DEF CatTypes, CatCallTypes, NoneIsNoTool, CatMove, CatCarries
<1>2. \A m \in Ids : model[m] # Unused => model'[m] # Unused
  BY <1>1 DEF CatMove, CatModels, CatWrites, CatalogAssumption
<1> SUFFICES ASSUME NEW d \in Requests, catCall'[d].op = "edit" PROVE model'[catCall'[d].m] # Unused
  BY DEF EditsFound
<1>3. CASE d \in CatBegun(catCall)
  <2>1. catCall[d].op = "edit" /\ catCall'[d].m = catCall[d].m
    BY <1>3, CatGoneOn DEF CatMove
  <2> QED
    BY <1>1, <1>2, <2>1 DEF EditsFound, CatCarries
<1>4. CASE d \notin CatBegun(catCall)
  <2>1. d = c /\ catCall[c].pc = "idle"
    BY <1>1, <1>4 DEF CatMove, CatGoesOn, CatBegun, CatCarries
  <2>2. catCall'[c].pc = "edit"
    BY <1>1, <2>1 DEF CatMove, CatReaches, CatCarries
  <2> QED
    BY <2>1, <2>2 DEF CatMove, CatReaches, Kept
<1> QED
  BY <1>3, <1>4

LEMMA EditsStillHold ==
  ASSUME RequestsAssumption, CatInv, NEW c \in Requests, CatMove(c) PROVE EditsHold'
<1>1. /\ CatTypes /\ EditsFound /\ EditsHold /\ CatInOrder(catCall, catMet) /\ CatInOrder(catCall', catMet')
      /\ catMet \subseteq catMet' /\ CatTypes'
      /\ \A d \in Requests : CatCarries(catCall[d])
      /\ \A d \in Requests : catCall'[d].at >= catCall[d].at /\ catCall[d].at \in Nat /\ catCall'[d].at \in Nat
  BY CatGoneOn, CatOrderStays DEF CatInv, CatMove, CatTypes, CatCallTypes, CatCall
<1> SUFFICES ASSUME NEW d \in Requests, catCall'[d].op = "edit", catCall'[d].pc = "over", CatAlone(catMet', d)
             PROVE  /\ \A h \in CatHeld(catCall', model') :
                         h.m = catCall'[d].m => SinceEdit(catCall', h.doc[catCall'[d].field], d)
                    /\ \A l \in CatListed(catCall') :
                         (l.m = catCall'[d].m /\ catCall'[d].field = "rate") => SinceEdit(catCall', l.rate, d)
  BY DEF EditsHold
<1>2. CASE d = c
  <2>1. /\ catCall[c].pc = "edit" /\ catCall[c].op = "edit" /\ c \in CatBusy(catCall) /\ c \in CatBegun(catCall)
        /\ catCall[c].field \in {"rate", "note"} /\ catCall[c].m \in Ids
    BY <1>1, <1>2 DEF CatMove, CatReaches, CatCarries, CatBusy, CatBegun
  <2>2. PICK m \in Ids, x \in K!ModelDoc : CatWrites(c, m, x)
    BY <1>2 DEF CatMove, CatReaches
  <2>3. catCall'[c].m = catCall[c].m /\ catCall'[c].field = catCall[c].field
    BY <1>1, <2>1, CatGoneOn DEF CatMove
  <2>4. model'[catCall[c].m] = x /\ x[catCall[c].field] = c
    BY <1>1, <2>1, <2>2 DEF CatWrites, CatTypes
  <2>5. \A e \in Requests : catCall'[e].pc \in {"idle", "over"}
    <3> SUFFICES ASSUME NEW e \in Requests, catCall'[e].pc \notin {"idle", "over"} PROVE FALSE
      OBVIOUS
    <3>1. e # c
      BY <1>2
    <3>2. e \in CatBusy(catCall)
      BY <3>1 DEF CatBusy, CatMove, CatGoesOn
    <3>3. {c, e} \in catMet'
      BY <1>1, <2>1, <3>1, <3>2 DEF CatInOrder
    <3> QED
      BY <1>2, <3>1, <3>3 DEF CatAlone
  <2>6. CatListed(catCall') = {}
    BY <2>5 DEF CatListed
  <2>7. \A h \in CatHeld(catCall', model') : h.doc = model'[h.m]
    BY <2>5 DEF CatHeld
  <2> QED
    BY <1>1, <1>2, <2>3, <2>4, <2>6, <2>7 DEF SinceEdit
<1>3. CASE d # c
  <2>1. catCall'[d] = catCall[d] /\ CatAlone(catMet, d) /\ d \in CatBegun(catCall)
    BY <1>1, <1>3 DEF CatMove, CatGoesOn, CatAlone, CatBegun
  <2>2. catCall[d].field \in {"rate", "note"} /\ model[catCall[d].m] # Unused
    BY <1>1, <2>1 DEF CatCarries, EditsFound
  <2>3. \A w : SinceEdit(catCall, w, d) => SinceEdit(catCall', w, d)
    BY <1>1, <2>1 DEF SinceEdit
  <2>4. c \in CatBusy(catCall) => SinceEdit(catCall, c, d)
    <3> SUFFICES ASSUME c \in CatBusy(catCall) PROVE SinceEdit(catCall, c, d)
      OBVIOUS
    <3>1. {d, c} \in catMet \/ catCall[c].at > catCall[d].at
      BY <1>1, <1>3, <2>1 DEF CatInOrder
    <3>2. {d, c} \notin catMet
      BY <1>3, <2>1 DEF CatAlone
    <3> QED
      BY <1>1, <3>1, <3>2 DEF SinceEdit
  <2>5. ASSUME NEW h \in CatHeld(catCall', model'), h.m = catCall[d].m
        PROVE  SinceEdit(catCall', h.doc[catCall[d].field], d)
    <3>1. PICK g \in CatHeld(catCall, model) : CatComesOf(c, g, h)
      BY <1>1, <2>2, <2>5, HeldComes DEF CatIsNew
    <3>2. SinceEdit(catCall, g.doc[catCall[d].field], d)
      BY <1>1, <2>1, <2>5, <3>1 DEF EditsHold, CatComesOf
    <3>3. catCall[c].pc = "edit" => SinceEdit(catCall, c, d)
      BY <2>4 DEF CatBusy
    <3>4. catCall[d].field = "rate" /\ [m |-> h.m, rate |-> h.doc.rate] \in CatListed(catCall)
            => SinceEdit(catCall, h.doc.rate, d)
      BY <1>1, <2>1, <2>5 DEF EditsHold
    <3>5. CASE catCall[d].field = "rate"
      BY <2>3, <3>1, <3>2, <3>3, <3>4, <3>5 DEF CatComesOf
    <3>6. CASE catCall[d].field = "note"
      BY <2>3, <3>1, <3>2, <3>3, <3>6 DEF CatComesOf
    <3> QED
      BY <2>2, <3>5, <3>6
  <2>6. ASSUME NEW l \in CatListed(catCall'), l.m = catCall[d].m, catCall[d].field = "rate"
        PROVE  SinceEdit(catCall', l.rate, d)
    <3>1. CASE l \in CatListed(catCall)
      BY <1>1, <2>1, <2>3, <2>6, <3>1 DEF EditsHold
    <3>2. ASSUME NEW g \in CatHeld(catCall, model), g.m = l.m, l.rate = g.doc.rate PROVE SinceEdit(catCall', l.rate, d)
      BY <1>1, <2>1, <2>3, <2>6, <3>2 DEF EditsHold
    <3> QED
      BY <1>1, <3>1, <3>2, ListedComes
  <2> QED
    BY <2>1, <2>5, <2>6
<1> QED
  BY <1>2, <1>3

LEMMA SyncsStillReach ==
  ASSUME RequestsAssumption, CatInv, NEW c \in Requests, CatMove(c) PROVE SyncsReach'
<1>1. /\ CatTypes /\ SyncsReach /\ WritersBegan /\ CatInOrder(catCall, catMet) /\ catMet \subseteq catMet'
      /\ model \in [Ids -> K!ModelDoc \cup {None, Unused}] /\ Kept(model) \subseteq Ids /\ Kept(model') \subseteq Ids
      /\ \A d \in Requests : CatCarries(catCall[d]) /\ CatCarries(catCall'[d])
      /\ \A d \in CatBegun(catCall) : catCall'[d].at = catCall[d].at
  BY CatGoneOn DEF CatInv, CatMove, CatTypes, CatCallTypes, CatCarries, Kept
<1>2. \A m \in Kept(model) : model[m].by \subseteq CatBegun(catCall)
  <2> SUFFICES ASSUME NEW m \in Kept(model) PROVE model[m].by \subseteq CatBegun(catCall)
    OBVIOUS
  <2> DEFINE h == [m |-> m, doc |-> model[m], by |-> model[m].by]
  <2>1. h \in CatHeld(catCall, model)
    BY DEF CatHeld
  <2> QED
    BY <1>1, <2>1 DEF WritersBegan
<1> SUFFICES ASSUME NEW s \in Requests, catCall'[s].op = "sync", catCall'[s].pc # "sync", NEW m \in Kept(model')
             PROVE  \/ model'[m].price = "synced" \/ ToSync(catCall', s, m)
                    \/ \E w \in model'[m].by : {s, w} \in catMet' \/ catCall'[w].at > catCall'[s].at
  BY DEF SyncsReach
<1>3. m \in Ids /\ model'[m] \notin {None, Unused}
  BY <1>1 DEF Kept
<1>4. model'[m] = model[m] => m \in Kept(model) /\ model[m] \in K!ModelDoc /\ model[m].by \subseteq CatBegun(catCall)
  BY <1>1, <1>2, <1>3 DEF Kept
<1>5. ASSUME model'[m] = model[m], s \in CatBegun(catCall),
             \E w \in model[m].by : {s, w} \in catMet \/ catCall[w].at > catCall[s].at
      PROVE  \E w \in model'[m].by : {s, w} \in catMet' \/ catCall'[w].at > catCall'[s].at
  BY <1>1, <1>4, <1>5
<1>6. CASE s # c
  <2>1. catCall'[s] = catCall[s] /\ s \in CatBegun(catCall) /\ (ToSync(catCall, s, m) <=> ToSync(catCall', s, m))
    BY <1>1, <1>6 DEF CatMove, CatGoesOn, CatBegun, ToSync, CatCarries
  <2>2. CASE model'[m] = model[m]
    BY <1>1, <1>4, <1>5, <2>1, <2>2 DEF SyncsReach
  <2>3. CASE model'[m] # model[m]
    <3>1. PICK n \in Ids, x \in K!ModelDoc : CatWrites(c, n, x)
      BY <1>1, <1>3, <2>3 DEF CatMove, CatModels
    <3>2. c \in model'[m].by /\ c \in CatBusy(catCall) /\ c \in CatBegun(catCall)
      BY <1>1, <1>3, <2>3, <3>1 DEF CatWrites, CatBusy, CatBegun
    <3>3. {s, c} \in catMet \/ catCall[c].at > catCall[s].at
      BY <1>1, <1>6, <2>1, <3>2 DEF CatInOrder
    <3> QED
      BY <1>1, <2>1, <3>2, <3>3
  <2> QED
    BY <2>2, <2>3
<1>7. CASE s = c
  <2>1. catCall'[c].pc \in {"next", "price", "over"}
    BY <1>1, <1>7 DEF CatCarries
  <2>2. CASE catCall[c].pc = "sync"
    <3>1. model' = model /\ catCall'[c].pc = "next"
          /\ catCall'[c].todo = {<<n, model[n]>> : n \in {n \in Kept(model) : model[n].price = "old"}}
      BY <1>7, <2>1, <2>2 DEF CatMove, CatReaches
    <3>2. model[m].price \in {"old", "synced"}
      BY <1>4, <3>1 DEF K!ModelDoc
    <3>3. CASE model[m].price = "old"
      <4>1. <<m, model[m]>> \in catCall'[c].todo
        BY <1>4, <3>1, <3>3
      <4> QED
        BY <1>7, <3>1, <4>1 DEF ToSync
    <3> QED
      BY <3>1, <3>2, <3>3
  <2>3. CASE catCall[c].pc = "price"
    <3>1. PICK n \in Ids, x \in K!ModelDoc : CatWrites(c, n, x)
      BY <1>7, <2>1, <2>3 DEF CatMove, CatReaches
    <3>2. n = catCall[c].m /\ catCall'[c].pc = "next" /\ catCall'[c].todo = catCall[c].todo /\ x.price = "synced"
          /\ model' = [model EXCEPT ![n] = x]
      BY <2>3, <3>1 DEF CatWrites
    <3>3. CASE m = n
      BY <1>1, <1>3, <3>2, <3>3
    <3>4. CASE m # n
      <4>1. model'[m] = model[m] /\ s \in CatBegun(catCall) /\ catCall[c].op = "sync"
        BY <1>1, <1>3, <1>7, <2>3, <3>2, <3>4 DEF CatBegun, CatCarries
      <4>2. \/ model[m].price = "synced" \/ ToSync(catCall, s, m)
            \/ \E w \in model[m].by : {s, w} \in catMet \/ catCall[w].at > catCall[s].at
        BY <1>1, <1>4, <1>7, <2>3, <4>1 DEF SyncsReach
      <4>3. ToSync(catCall, s, m) => ToSync(catCall', s, m)
        BY <1>7, <2>3, <3>2, <3>4 DEF ToSync
      <4> QED
        BY <1>5, <4>1, <4>2, <4>3
    <3> QED
      BY <3>3, <3>4
  <2>4. CASE catCall[c].pc = "next"
    <3>1. model' = model
      BY <1>7, <2>1, <2>4 DEF CatMove, CatReaches
    <3>2. s \in CatBegun(catCall) /\ catCall[c].op = "sync" /\ model'[m] = model[m]
      BY <1>1, <1>7, <2>4, <3>1 DEF CatBegun, CatCarries
    <3>3. \/ model[m].price = "synced" \/ ToSync(catCall, s, m)
          \/ \E w \in model[m].by : {s, w} \in catMet \/ catCall[w].at > catCall[s].at
      BY <1>1, <1>4, <1>7, <2>4, <3>2 DEF SyncsReach
    <3>4. ToSync(catCall, s, m) => ToSync(catCall', s, m)
      <4> SUFFICES ASSUME ToSync(catCall, s, m) PROVE ToSync(catCall', s, m)
        OBVIOUS
      <4>1. PICK todo \in catCall[c].todo : todo[1] = m
        BY <1>7, <2>4 DEF ToSync
      <4>2. m \in Kept(model)
        BY <1>4, <3>2
      <4>3. CASE catCall'[c].pc = "next"
        <5>1. PICK gone \in catCall[c].todo : gone[1] \notin Kept(model) /\ catCall'[c].todo = catCall[c].todo \ {gone}
          BY <2>4, <4>3 DEF CatMove, CatReaches
        <5>2. todo \in catCall'[c].todo
          BY <4>1, <4>2, <5>1
        <5> QED
          BY <1>7, <4>1, <4>3, <5>2 DEF ToSync
      <4>4. CASE catCall'[c].pc = "price"
        <5>1. PICK taken \in catCall[c].todo : catCall'[c].m = taken[1] /\ catCall'[c].todo = catCall[c].todo \ {taken}
          BY <4>4 DEF CatMove, CatReaches
        <5>2. todo \in catCall'[c].todo \/ catCall'[c].m = m
          BY <4>1, <5>1
        <5> QED
          BY <1>7, <4>1, <4>4, <5>2 DEF ToSync
      <4>5. CASE catCall'[c].pc = "over"
        BY <1>7, <4>1, <4>5 DEF CatMove, CatReaches
      <4> QED
        BY <2>1, <4>3, <4>4, <4>5
    <3> QED
      BY <1>5, <3>2, <3>3, <3>4
  <2> QED
    BY <1>7, <2>1, <2>2, <2>3, <2>4 DEF CatMove, CatReaches
<1> QED
  BY <1>6, <1>7

\* While a seeding is under way and meets nobody, nobody else has begun and is not over.
LEMMA SeedsAreAlone ==
  ASSUME RequestsAssumption, CatTypes, CatInOrder(catCall, catMet), NEW c \in Requests, CatMove(c),
         ~Together(catCall', catMet')
  PROVE  /\ ~Together(catCall, catMet)
         /\ \A d \in Requests : d # c /\ catCall'[d].op = "seed" => catCall'[d].pc = "over"
         /\ catCall'[c].op = "seed" => \A d \in Requests : d # c => catCall'[d].pc \in {"idle", "over"}
<1>1. /\ CatInOrder(catCall', catMet') /\ catMet \subseteq catMet' /\ CatTypes'
      /\ \A d \in CatBegun(catCall) : catCall'[d].op = catCall[d].op
      /\ \A d \in Requests : CatCarries(catCall[d]) /\ CatCarries(catCall'[d])
      /\ \A d \in Requests : d # c => catCall'[d] = catCall[d]
      /\ c \in CatBegun(catCall) => c \in CatBusy(catCall)
  BY CatGoneOn, CatOrderStays DEF CatMove, CatTypes, CatCallTypes, CatCarries, CatGoesOn, CatBegun, CatBusy
<1>2. ~Together(catCall, catMet)
  BY <1>1 DEF Together, CatCarries, CatBegun
<1>3. \A d \in CatBusy(catCall) : d # c => {d, c} \in catMet' /\ {c, d} \in catMet'
  <2> SUFFICES ASSUME NEW d \in CatBusy(catCall), d # c PROVE {c, d} \in catMet'
    <3>1. \A e : {e, c} = {c, e}
      OBVIOUS
    <3> QED
      BY <3>1
  <2>1. CASE catCall[c].pc = "idle"
    BY <2>1 DEF CatMove, CatGoesOn
  <2>2. CASE catCall[c].pc # "idle"
    BY <1>1, <2>2 DEF CatInOrder, CatBegun
  <2> QED
    BY <2>1, <2>2
<1>4. \A d \in Requests : d # c /\ catCall'[d].op = "seed" => catCall'[d].pc = "over"
  <2> SUFFICES ASSUME NEW d \in Requests, d # c, catCall'[d].op = "seed", catCall'[d].pc # "over" PROVE FALSE
    OBVIOUS
  <2>1. d \in CatBusy(catCall)
    BY <1>1 DEF CatBusy, CatCarries
  <2> QED
    BY <1>3, <2>1 DEF Together
<1>5. catCall'[c].op = "seed" => \A d \in Requests : d # c => catCall'[d].pc \in {"idle", "over"}
  BY <1>1, <1>3 DEF Together, CatBusy
<1> QED
  BY <1>2, <1>4, <1>5

LEMMA SystemStaysOne ==
  ASSUME RequestsAssumption, CatTypes, CatInOrder(catCall, catMet), OneSystem, NEW c \in Requests, CatMove(c),
         ~Together(catCall', catMet')
  PROVE  OneSystem'
<1>1. /\ prov \in [Users -> K!ProviderDoc \cup {None, Unused}] /\ Kept(prov) \subseteq Users
      /\ \A d \in Requests : CatCarries(catCall[d]) /\ CatCarries(catCall'[d])
      /\ \A d \in Requests : d # c => catCall'[d] = catCall[d]
      /\ Kept(prov') \subseteq Users
  BY DEF CatMove, CatTypes, CatCallTypes, CatCarries, CatGoesOn, Kept
<1>2. /\ \A d \in Requests : d # c /\ catCall'[d].op = "seed" => catCall'[d].pc = "over"
      /\ catCall'[c].op = "seed" => \A d \in Requests : d # c => catCall'[d].pc \in {"idle", "over"}
  BY SeedsAreAlone
<1>3. \A p \in SystemHeld(catCall', prov') : p \in SystemHeld(catCall, prov) \/ (catCall[c].pc = "seedProvider" /\ prov' # prov)
  <2> SUFFICES ASSUME NEW p \in SystemHeld(catCall', prov'), ~(catCall[c].pc = "seedProvider" /\ prov' # prov)
               PROVE  p \in SystemHeld(catCall, prov)
    OBVIOUS
  <2>1. ASSUME p \in Kept(prov'), prov'[p].system PROVE p \in SystemHeld(catCall, prov)
    <3>1. CASE prov'[p] = prov[p]
      BY <1>1, <2>1, <3>1 DEF SystemHeld, Kept
    <3>2. CASE prov'[p] # prov[p]
      <4>1. PICK r \in Users, x \in K!ProviderDoc :
              /\ prov' = [prov EXCEPT ![r] = x]
              /\ \/ ~x.system
                 \/ catCall[c].pc = "editProvider" /\ r = catCall[c].p /\ x.system = catCall[c].copy.system
        BY <1>1, <2>1, <3>2 DEF CatMove, CatProviders, Kept
      <4>2. r = p /\ prov'[p] = x
        BY <1>1, <2>1, <3>2, <4>1
      <4> QED
        BY <2>1, <4>1, <4>2 DEF SystemHeld
    <3> QED
      BY <3>1, <3>2
  <2>2. ASSUME NEW e \in Requests, catCall'[e].pc = "editProvider", catCall'[e].copy.system, p = catCall'[e].p
        PROVE  p \in SystemHeld(catCall, prov)
    <3>1. CASE e = c
      BY <2>2, <3>1 DEF CatMove, CatReaches, SystemHeld
    <3>2. CASE e # c
      BY <1>1, <2>2, <3>2 DEF SystemHeld
    <3> QED
      BY <3>1, <3>2
  <2> QED
    BY <2>1, <2>2 DEF SystemHeld
<1>4. \A p, r \in SystemHeld(catCall', prov') : p = r
  <2>1. CASE ~(catCall[c].pc = "seedProvider" /\ prov' # prov)
    BY <1>3, <2>1 DEF OneSystem
  <2>2. CASE catCall[c].pc = "seedProvider" /\ prov' # prov
    <3>1. SystemHeld(catCall, prov) = {} /\ catCall[c].op = "seed" /\ catCall'[c].op = "seed"
      BY <1>1, <2>2 DEF OneSystem, CatCarries, CatMove, CatGoesOn
    <3>2. PICK r \in Users, x \in K!ProviderDoc : prov' = [prov EXCEPT ![r] = x]
      BY <2>2 DEF CatMove, CatProviders
    <3>3. \A p \in Kept(prov') : prov'[p].system => p = r
      BY <1>1, <3>1, <3>2 DEF SystemHeld, Kept
    <3>4. \A e \in Requests : catCall'[e].pc # "editProvider"
      BY <1>1, <1>2, <3>1 DEF CatCarries
    <3>5. \A p \in SystemHeld(catCall', prov') : p = r
      BY <3>3, <3>4 DEF SystemHeld
    <3> QED
      BY <3>5
  <2> QED
    BY <2>1, <2>2
<1>5. ASSUME NEW d \in Requests, catCall'[d].pc = "seedProvider" PROVE SystemHeld(catCall', prov') = {}
  <2>1. d = c /\ catCall'[c].op = "seed"
    BY <1>1, <1>2, <1>5 DEF CatCarries
  <2>2. prov' = prov /\ \A p \in Kept(prov) : ~prov[p].system
    BY <1>5, <2>1 DEF CatMove, CatReaches
  <2>3. \A e \in Requests : catCall'[e].pc # "editProvider"
    BY <1>1, <1>2, <2>1 DEF CatCarries
  <2> QED
    BY <2>2, <2>3 DEF SystemHeld
<1> QED
  BY <1>4, <1>5 DEF OneSystem

LEMMA NoneSeededTwice ==
  ASSUME RequestsAssumption, CatalogAssumption, CatTypes, CatInOrder(catCall, catMet), WritersBegan, NoSeedTwice,
         NEW c \in Requests, CatMove(c), ~Together(catCall', catMet')
  PROVE  NoSeedTwice'
<1>1. /\ model \in [Ids -> K!ModelDoc \cup {None, Unused}] /\ model' \in [Ids -> K!ModelDoc \cup {None, Unused}]
      /\ \A d \in Requests : CatCarries(catCall[d]) /\ CatCarries(catCall'[d])
      /\ \A d \in CatBegun(catCall) : catCall'[d].op = catCall[d].op
  BY CatGoneOn DEF CatMove, CatTypes, CatCallTypes, CatCarries
<1>2. /\ \A d \in Requests : d # c /\ catCall'[d].op = "seed" => catCall'[d].pc = "over"
      /\ catCall'[c].op = "seed" => \A d \in Requests : d # c => catCall'[d].pc \in {"idle", "over"}
  BY SeedsAreAlone
<1>3. \A h, g : g \in CatHeld(catCall, model) /\ CatComesOf(c, g, h) /\ SeededBy(catCall', h.by) => SeededBy(catCall, g.by)
  BY <1>1 DEF SeededBy, CatComesOf, WritersBegan
<1>4. ASSUME NEW h \in CatHeld(catCall', model'), NEW g \in CatHeld(catCall', model'),
             SeededBy(catCall', h.by), SeededBy(catCall', g.by), h.m # g.m, CatIsNew(c, h)
      PROVE  h.doc.name # g.doc.name \/ h.doc.prov # g.doc.prov
  <2>1. catCall'[c].op = "seed" /\ catCall[c].op = "seed" /\ catCall[c].pc = "write"
    BY <1>1, <1>4 DEF CatIsNew, SeededBy, CatBegun
  <2>2. ~CatIsNew(c, g)
    BY <1>1, <1>4 DEF CatIsNew, CatalogAssumption
  <2>3. PICK k \in CatHeld(catCall, model) : CatComesOf(c, k, g)
    BY <2>2, HeldComes
  <2>4. k.doc.prov = catCall[c].p => k.doc.name \notin catCall[c].todo
    BY <2>1 DEF NoSeedTwice
  <2> QED
    BY <1>4, <2>3, <2>4 DEF CatIsNew, CatComesOf
<1>5. ASSUME NEW h \in CatHeld(catCall', model'), NEW g \in CatHeld(catCall', model'),
             SeededBy(catCall', h.by), SeededBy(catCall', g.by), h.m # g.m
      PROVE  h.doc.name # g.doc.name \/ h.doc.prov # g.doc.prov
  <2>1. CASE CatIsNew(c, h)
    BY <1>4, <1>5, <2>1
  <2>2. CASE CatIsNew(c, g)
    BY <1>4, <1>5, <2>2
  <2>3. CASE ~CatIsNew(c, h) /\ ~CatIsNew(c, g)
    <3>1. PICK j \in CatHeld(catCall, model) : CatComesOf(c, j, h)
      BY <2>3, HeldComes
    <3>2. PICK k \in CatHeld(catCall, model) : CatComesOf(c, k, g)
      BY <2>3, HeldComes
    <3>3. SeededBy(catCall, j.by) /\ SeededBy(catCall, k.by) /\ j.m # k.m
      BY <1>3, <1>5, <3>1, <3>2 DEF CatComesOf
    <3>4. j.doc.name # k.doc.name \/ j.doc.prov # k.doc.prov
      BY <3>3 DEF NoSeedTwice
    <3> QED
      BY <3>1, <3>2, <3>4 DEF CatComesOf
  <2> QED
    BY <2>1, <2>2, <2>3
<1>6. ASSUME NEW d \in Requests, catCall'[d].op = "seed", catCall'[d].pc \in {"check", "write"},
             NEW h \in CatHeld(catCall', model'), h.doc.prov = catCall'[d].p
      PROVE  h.doc.name \notin catCall'[d].todo
  <2>1. d = c
    BY <1>2, <1>6
  <2>2. CASE catCall[c].pc = "seedModels"
    <3>1. model' = model /\ catCall'[c].pc = "check"
          /\ \A m \in Kept(model) : model[m].prov = catCall'[c].p => model[m].name \notin catCall'[c].todo
      BY <1>6, <2>1, <2>2 DEF CatMove, CatReaches
    <3>2. \A e \in Requests : catCall'[e].pc \notin {"edit", "price"}
      BY <1>2, <1>6, <2>1, <3>1
    <3>3. PICK m \in Kept(model) : h = [m |-> m, doc |-> model[m], by |-> model[m].by]
      BY <3>1, <3>2 DEF CatHeld
    <3> QED
      BY <1>6, <2>1, <3>1, <3>3
  <2>3. CASE catCall[c].pc = "write"
    <3>1. PICK m \in Ids, x \in K!ModelDoc : CatWrites(c, m, x)
      BY <1>6, <2>1, <2>3 DEF CatMove, CatReaches
    <3>2. catCall[c].op = "seed" /\ catCall'[c].p = catCall[c].p /\ catCall'[c].todo \subseteq catCall[c].todo
      BY <1>1, <1>6, <2>1, <2>3, <3>1 DEF CatWrites, CatBegun
    <3>3. CASE CatIsNew(c, h)
      BY <2>1, <3>3 DEF CatIsNew
    <3>4. ASSUME NEW g \in CatHeld(catCall, model), CatComesOf(c, g, h) PROVE h.doc.name \notin catCall'[c].todo
      <4>1. g.doc.prov = catCall[c].p => g.doc.name \notin catCall[c].todo
        BY <2>3, <3>2 DEF NoSeedTwice
      <4> QED
        BY <1>6, <2>1, <3>2, <3>4, <4>1 DEF CatComesOf
    <3> QED
      BY <2>1, <3>3, <3>4, HeldComes
  <2>4. CASE catCall[c].pc = "check"
    <3>1. /\ catCall'[c].pc = "write" /\ catCall[c].op = "seed" /\ catCall'[c].p = catCall[c].p
          /\ catCall'[c].todo = catCall[c].todo
      BY <1>1, <1>6, <2>1, <2>4 DEF CatMove, CatReaches, CatBegun
    <3>2. PICK g \in CatHeld(catCall, model) : CatComesOf(c, g, h)
      BY <2>4, HeldComes DEF CatIsNew
    <3>3. g.doc.prov = catCall[c].p => g.doc.name \notin catCall[c].todo
      BY <2>4, <3>1 DEF NoSeedTwice
    <3> QED
      BY <1>6, <2>1, <3>1, <3>2, <3>3 DEF CatComesOf
  <2> QED
    BY <1>6, <2>1, <2>2, <2>3, <2>4 DEF CatMove, CatReaches
<1> QED
  BY <1>5, <1>6 DEF NoSeedTwice

-----------------------------------------------------------------------------
(* The catalog's invariant holds.                                          *)

LEMMA OneAtMost ==
  ASSUME NEW X, IsFiniteSet(X), Cardinality(X) <= 1, NEW a \in X, NEW b \in X PROVE a = b
<1> SUFFICES ASSUME a # b PROVE FALSE
  OBVIOUS
<1>1. {a, b} = {a} \cup {b} /\ b \notin {a}
  OBVIOUS
<1>2. IsFiniteSet({a}) /\ Cardinality({a}) = 1
  BY FS_Singleton
<1>3. Cardinality({a} \cup {b}) = Cardinality({a}) + 1
  BY <1>1, <1>2, FS_AddElement
<1>4. Cardinality({a, b}) <= Cardinality(X)
  BY FS_Subset
<1>5. Cardinality(X) \in Nat
  BY FS_CardinalityType
<1> QED
  BY <1>1, <1>2, <1>3, <1>4, <1>5

\* Nothing is held and nothing was met before the first call.
LEMMA CatStarts == ASSUME NoneIsNoTool, CatalogAssumption, K!CatalogInit PROVE CatInv
<1>1. /\ \A c \in Requests : catCall[c] = K!Idle
      /\ catCall \in [Requests -> CatCall] /\ catMet = {}
  BY DEF K!CatalogInit, K!Idle, CatCall, CatTodo
<1>2. PICK old \in SUBSET (Users \X Ids), name \in Names, system \in BOOLEAN :
        /\ K!Cardinality(old) <= 1
        /\ prov = [p \in Users |-> IF \E o \in old : o[1] = p THEN [system |-> system, key |-> None] ELSE Unused]
        /\ model = [m \in Ids |-> IF \E o \in old : o[2] = m
                                  THEN [K!NewModel(None, (CHOOSE o \in old : TRUE)[1], name) EXCEPT !.by = {}]
                                  ELSE Unused]
  BY DEF K!CatalogInit
<1>3. \A o \in old : o[1] \in Users /\ o[2] \in Ids
  BY DEF CatalogAssumption
<1>4. \A o, u \in old : o = u
  <2>1. IsFiniteSet(Users \X Ids)
    BY FS_Product DEF CatalogAssumption
  <2>2. IsFiniteSet(old)
    BY <2>1, FS_Subset
  <2>3. K!Cardinality(old) = Cardinality(old)
    BY DEF K!Cardinality, Cardinality
  <2> QED
    BY <1>2, <2>2, <2>3, OneAtMost
<1> DEFINE first == (CHOOSE o \in old : TRUE)
           made == [K!NewModel(None, first[1], name) EXCEPT !.by = {}]
<1>5. \A o \in old : o = first
  BY <1>4
<1> HIDE DEF first
<1>6. old # {} => /\ first[1] \in Users /\ made \in K!ModelDoc /\ made.prov = first[1] /\ made.by = {} /\ made.name = name
  BY <1>3, <1>5 DEF K!NewModel, K!ModelDoc, K!Edits
<1>7. /\ \A p \in Users : prov[p] = IF \E o \in old : o[1] = p THEN [system |-> system, key |-> None] ELSE Unused
      /\ \A m \in Ids : model[m] = IF \E o \in old : o[2] = m THEN made ELSE Unused
      /\ [system |-> system, key |-> None] \in K!ProviderDoc
  BY <1>2 DEF first, K!ProviderDoc, K!Edits
<1> HIDE DEF made
<1>8. CatTypes
  <2>1. prov \in [Users -> K!ProviderDoc \cup {None, Unused}]
    BY <1>2, <1>7
  <2>2. model \in [Ids -> K!ModelDoc \cup {None, Unused}]
    <3>1. model = [m \in Ids |-> model[m]]
      BY <1>2
    <3>2. \A m \in Ids : model[m] \in K!ModelDoc \cup {None, Unused}
      BY <1>6, <1>7
    <3> QED
      BY <3>1, <3>2
  <2>3. CatCarries(K!Idle)
    BY DEF K!Idle, CatCarries
  <2> QED
    BY <1>1, <2>1, <2>2, <2>3 DEF CatTypes, CatCallTypes
<1>9. /\ \A m \in Kept(model) : m \in Ids /\ old # {} /\ model[m] = made
      /\ \A p \in Kept(prov) : p \in Users /\ old # {} /\ p = first[1]
      /\ old # {} => first[1] \in Kept(prov)
  <2>1. DOMAIN model = Ids /\ DOMAIN prov = Users
    BY <1>2
  <2>2. [system |-> system, key |-> None] \notin {None, Unused}
    BY <1>7 DEF CatalogAssumption
  <2>3. \A m \in Kept(model) : m \in Ids /\ old # {} /\ model[m] = made
    BY <1>7, <2>1 DEF Kept
  <2>4. \A p \in Kept(prov) : p \in Users /\ old # {} /\ p = first[1]
    BY <1>5, <1>7, <2>1 DEF Kept
  <2>5. old # {} => first[1] \in Kept(prov)
    BY <1>5, <1>6, <1>7, <2>1, <2>2 DEF Kept
  <2> QED
    BY <2>3, <2>4, <2>5
<1>10. \A c \in Requests : catCall[c].pc = "idle" /\ catCall[c].op = "none" /\ catCall[c].at = 0
  BY <1>1 DEF K!Idle
<1>11. CatBegun(catCall) = {} /\ CatBusy(catCall) = {} /\ CatListed(catCall) = {}
  BY <1>10 DEF CatBegun, CatBusy, CatListed
<1>12. CatInOrder(catCall, catMet)
  BY <1>10, <1>11 DEF CatInOrder
<1>13. \A h \in CatHeld(catCall, model) : h.m \in Ids /\ h.doc = made /\ h.by = {} /\ old # {}
  <2> SUFFICES ASSUME NEW h \in CatHeld(catCall, model) PROVE h.m \in Ids /\ h.doc = made /\ h.by = {} /\ old # {}
    OBVIOUS
  <2>1. ASSUME NEW m \in Kept(model), h = [m |-> m, doc |-> model[m], by |-> model[m].by]
        PROVE  h.m \in Ids /\ h.doc = made /\ h.by = {} /\ old # {}
    BY <1>6, <1>9, <2>1
  <2>2. \A e \in Requests : catCall[e].pc # "edit" /\ catCall[e].pc # "price"
    BY <1>10
  <2> QED
    BY <2>1, <2>2 DEF CatHeld
<1>14. WritersBegan /\ HeldExplained
  BY <1>6, <1>9, <1>13 DEF WritersBegan, HeldExplained, Explained
<1>15. WritesExplained /\ CascadesReach /\ EditsFound /\ EditsHold /\ SyncsReach
  BY <1>10 DEF WritesExplained, CascadesReach, EditsFound, EditsHold, SyncsReach
<1>16. OneSystem /\ NoSeedTwice
  <2>1. \A p \in SystemHeld(catCall, prov) : p = first[1]
    BY <1>9, <1>10 DEF SystemHeld
  <2> QED
    BY <1>10, <1>13, <2>1 DEF OneSystem, NoSeedTwice, SeededBy
<1> QED
  BY <1>8, <1>12, <1>14, <1>15, <1>16 DEF CatInv, SeedsHeldOnce

LEMMA CatalogNexts ==
  ASSUME RequestsAssumption, NoneIsNoTool, CatalogAssumption, CatInv, [K!CatalogNext]_catVars PROVE CatInv'
<1>1. CASE K!CatalogNext
  <2>1. PICK c \in Requests : CatMove(c)
    BY <1>1, CatMoves DEF CatInv
  <2>2. CatTypes'
    BY <2>1 DEF CatMove
  <2>3. CatInOrder(catCall, catMet)'
    BY <2>1, CatOrderStays DEF CatInv, CatMove
  <2>4. WritersBegan'
    BY <2>1, WritersStay DEF CatInv
  <2>5. HeldExplained' /\ WritesExplained' /\ CascadesReach'
    BY <2>1, HeldStaysExplained, WritesStayExplained, CascadesStill
  <2>6. EditsFound' /\ EditsHold' /\ SyncsReach'
    BY <2>1, EditsStillFound, EditsStillHold, SyncsStillReach DEF CatInv
  <2>7. SeedsHeldOnce'
    <3>1. CASE Together(catCall', catMet')
      BY <3>1 DEF SeedsHeldOnce
    <3>2. CASE ~Together(catCall', catMet')
      <4>1. OneSystem /\ NoSeedTwice
        BY <2>1, <3>2, SeedsAreAlone DEF CatInv, SeedsHeldOnce
      <4>2. OneSystem' /\ NoSeedTwice'
        BY <2>1, <3>2, <4>1, SystemStaysOne, NoneSeededTwice DEF CatInv
      <4> QED
        BY <4>2 DEF SeedsHeldOnce
    <3> QED
      BY <3>1, <3>2
  <2> QED
    BY <2>2, <2>3, <2>4, <2>5, <2>6, <2>7 DEF CatInv
<1>2. CASE UNCHANGED catVars
  <2>1. UNCHANGED <<prov, model, catCall, catMet>>
    BY <1>2 DEF catVars
  <2>2. CatTypes'
    BY <2>1 DEF CatInv, CatTypes, CatCallTypes, CatCarries, K!Idle
  <2>3. CatInOrder(catCall, catMet)' /\ WritersBegan' /\ HeldExplained' /\ WritesExplained' /\ CascadesReach'
    BY <2>1 DEF CatInv, WritersBegan, HeldExplained, WritesExplained, CascadesReach
  <2>4. EditsFound' /\ EditsHold' /\ SyncsReach' /\ SeedsHeldOnce'
    BY <2>1 DEF CatInv, EditsFound, EditsHold, SyncsReach, SeedsHeldOnce, OneSystem, NoSeedTwice
  <2> QED
    BY <2>2, <2>3, <2>4 DEF CatInv
<1> QED
  BY <1>1, <1>2

LEMMA CatImplies == ASSUME RequestsAssumption, CatInv PROVE K!CatalogStaysSound
<1>1. /\ CatTypes /\ K!There(prov) = Kept(prov) /\ K!There(model) = Kept(model)
      /\ \A c \in Requests : CatCarries(catCall[c])
      /\ model \in [Ids -> K!ModelDoc \cup {None, Unused}] /\ Kept(model) \subseteq Ids
  BY DEF CatInv, CatTypes, CatCallTypes, K!There, Kept
<1> DEFINE held(m) == [m |-> m, doc |-> model[m], by |-> model[m].by]
<1>2. \A m \in Kept(model) : held(m) \in CatHeld(catCall, model)
  BY DEF CatHeld
<1>3. K!CatalogTypeOK
  BY <1>1 DEF K!CatalogTypeOK, CatTypes, CatCarries
<1>4. K!OrphansNeedOverlap
  <2> SUFFICES ASSUME NEW m \in Kept(model), model[m].prov \notin Kept(prov)
               PROVE  \E d \in Requests : /\ catCall[d].op = "deleteProvider" /\ catCall[d].p = model[m].prov
                                          /\ \E c \in model[m].by : {c, d} \in catMet
    BY <1>1 DEF K!OrphansNeedOverlap
  <2>1. Explained(catCall, catMet, prov, held(m).doc.prov, held(m).by)
    BY <1>2 DEF CatInv, HeldExplained
  <2> QED
    BY <2>1 DEF Explained
<1>5. K!EditsSurvive
  <2> SUFFICES ASSUME NEW c \in Requests, catCall[c].op = "edit", catCall[c].pc = "over",
                      \A d \in Requests : {c, d} \notin catMet \/ c = d
               PROVE  LET x == model[catCall[c].m]
                          last == IF x = None THEN c ELSE x[catCall[c].field]
                      IN last # None /\ catCall[last].at >= catCall[c].at
    BY DEF K!EditsSurvive
  <2> DEFINE m == catCall[c].m
  <2>1. m \in Ids /\ model[m] # Unused /\ catCall[c].at \in Nat
    BY <1>1 DEF CatInv, EditsFound, CatCarries, CatTypes, CatCallTypes, CatCall
  <2>2. c # None
    BY DEF RequestsAssumption
  <2>3. CASE model[m] # None
    <3>1. m \in Kept(model)
      BY <1>1, <2>1, <2>3 DEF Kept
    <3>2. held(m) \in CatHeld(catCall, model) /\ held(m).m = m
      BY <1>2, <3>1
    <3>3. SinceEdit(catCall, held(m).doc[catCall[c].field], c)
      BY <3>2 DEF CatInv, EditsHold, CatAlone
    <3> QED
      BY <2>3, <3>3 DEF SinceEdit, RequestsAssumption
  <2> QED
    BY <2>1, <2>2, <2>3
<1>6. K!SyncReachesAll
  <2> SUFFICES ASSUME NEW c \in Requests, catCall[c].op = "sync", catCall[c].pc = "over", NEW m \in Kept(model)
               PROVE  \/ model[m].price = "synced"
                      \/ \E w \in model[m].by : {c, w} \in catMet \/ catCall[w].at > catCall[c].at
    BY <1>1 DEF K!SyncReachesAll
  <2> QED
    BY DEF CatInv, SyncsReach, ToSync
<1>7. K!SeedsOnce
  <2> SUFFICES ASSUME ~Together(catCall, catMet)
               PROVE  /\ K!Cardinality(K!Systems) <= 1
                      /\ \A m, n \in Ids :
                           LET seeded(k) == k \in Kept(model) /\ \E c \in model[k].by : catCall[c].op = "seed"
                           IN (seeded(m) /\ seeded(n) /\ m # n)
                                => model[m].name # model[n].name \/ model[m].prov # model[n].prov
    BY <1>1 DEF K!SeedsOnce, Together
  <2>1. OneSystem /\ NoSeedTwice
    BY DEF CatInv, SeedsHeldOnce
  <2>2. K!Systems \subseteq SystemHeld(catCall, prov)
    BY <1>1 DEF K!Systems, SystemHeld
  <2>3. \A p, r \in K!Systems : p = r
    BY <2>1, <2>2 DEF OneSystem
  <2>4. Cardinality(K!Systems) <= 1
    <3>1. CASE K!Systems = {}
      BY <3>1, FS_EmptySet
    <3>2. CASE K!Systems # {}
      <4>1. PICK p \in K!Systems : K!Systems = {p}
        BY <2>3, <3>2
      <4>2. Cardinality({p}) = 1
        BY FS_Singleton
      <4> QED
        BY <4>1, <4>2
    <3> QED
      BY <3>1, <3>2
  <2>5. K!Cardinality(K!Systems) = Cardinality(K!Systems)
    BY DEF K!Cardinality, Cardinality
  <2>6. ASSUME NEW m \in Kept(model), NEW n \in Kept(model), m # n,
               \E c \in model[m].by : catCall[c].op = "seed", \E c \in model[n].by : catCall[c].op = "seed"
        PROVE  model[m].name # model[n].name \/ model[m].prov # model[n].prov
    <3>1. held(m) \in CatHeld(catCall, model) /\ held(n) \in CatHeld(catCall, model)
      BY <1>2
    <3>2. SeededBy(catCall, held(m).by) /\ SeededBy(catCall, held(n).by) /\ held(m).m # held(n).m
      BY <2>6 DEF SeededBy
    <3> HIDE DEF held
    <3>3. held(m).doc.name # held(n).doc.name \/ held(m).doc.prov # held(n).doc.prov
      BY <2>1, <3>1, <3>2 DEF NoSeedTwice
    <3> QED
      BY <3>3 DEF held
  <2> QED
    BY <2>4, <2>5, <2>6
<1> QED
  BY <1>3, <1>4, <1>5, <1>6, <1>7 DEF K!CatalogStaysSound

\* However requests, a seeding and a price sync interleave over the model catalog
\* (CatalogService, seed_system_defaults, sync_catalog_prices), it has no orphans, lost
\* edits, forgotten prices or doubled defaults but those that an overlap explains; and
\* usage.cost finds a model that has a price unless the listing failed or another
\* thread emptied the cache meanwhile.
THEOREM CatalogIsAlwaysSound == Spec => []CatalogStaysSound
<1>1. Init => CatInv /\ CostInv
  BY NoneIsNoTool, CatalogAssumption, CostAssumption, CatStarts, CostsStart DEF Init
<1>2. [Next]_allVars => [K!CatalogNext]_catVars /\ [L!CostNext]_costVars
  BY DEF Next, allVars, catVars, costVars
<1>3. CatInv /\ CostInv /\ [Next]_allVars => CatInv' /\ CostInv'
  BY <1>2, RequestsAssumption, NoneIsNoTool, CatalogAssumption, CostAssumption, CatalogNexts, CostsNext
<1>4. CatInv /\ CostInv => CatalogStaysSound
  BY RequestsAssumption, CatImplies, CostsImply DEF CatalogStaysSound
<1> QED
  BY <1>1, <1>3, <1>4, PTL DEF Spec, allVars
=============================================================================
