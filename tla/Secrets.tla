-------------------------------- MODULE Secrets ------------------------------
(***************************************************************************)
(* Secret Manager as the program uses it: the admin routes' write and      *)
(* rotate, and the offline seeder.                                         *)
(*                                                                         *)
(* Routes run in worker threads and the seeder in a process of its own:    *)
(* every call to the service is a step, and may fail.  Names are           *)
(* normalized ones.                                                        *)
(* Definitions named Slip_... are wrong variants, used by no specification *)
(* (see module Board).                                                     *)
(***************************************************************************)
EXTENDS Integers, Sequences, FiniteSets

CONSTANTS
  Names,         \* of secrets
  Requests,      \* each made once (bound)
  None

VARIABLES
  store,         \* store[n]: None, or its versions (who wrote them), the last the latest
  req,           \* req[r]: its progress
  met            \* pairs of requests that overlapped (for properties only)

secretVars == <<store, req, met>>

Placeholder == "REPLACE_ME"

\* given: the names that a seeding's file has values for; fault: whether a call
\* failed (for properties only).
Idle == [op |-> "none", pc |-> "idle", n |-> None, todo |-> {}, given |-> {}, fault |-> FALSE]

\* The operations of the server; the others are the seeder's.
Server == {"write", "rotate"}

Under(r) == req[r].pc \in {"look", "create", "add"}

Meets(r) == met' = met \cup {{r, s} : s \in {q \in Requests : Under(q)}}

\* What r stores under n: "placeholders" is the seeding that fills the gaps.
Value(r, n) ==
  IF req[r].op \in Server THEN r
  ELSE IF n \in req[r].given THEN r
  ELSE IF req[r].op = "placeholders" THEN Placeholder ELSE None

-----------------------------------------------------------------------------

\* write, with create_if_missing ("write") and without it, as rotate does ("rotate").
BeginWrite(r) ==
  /\ req[r].pc = "idle"
  /\ \E n \in Names, op \in Server :
       req' = [req EXCEPT ![r] = [Idle EXCEPT !.op = op, !.pc = "look", !.todo = {n}]]
  /\ Meets(r)
  /\ UNCHANGED store

\* seed_all with apply, over all the secrets it knows.
BeginSeed(r) ==
  /\ req[r].pc = "idle"
  /\ \E op \in {"seed", "placeholders"}, given \in SUBSET Names :
       req' = [req EXCEPT ![r] = [Idle EXCEPT !.op = op, !.pc = "look", !.todo = Names, !.given = given]]
  /\ Meets(r)
  /\ UNCHANGED store

Looked(r, n, found) ==
  IF found THEN "add" ELSE IF req[r].op = "rotate" THEN "refused" ELSE "create"

\* Slip: it looks for the name without its prefix.
Slip_LookBare(r) ==
  /\ req[r].pc = "look"
  /\ \E n \in req[r].todo :
       req' = [req EXCEPT ![r].pc = Looked(r, n, FALSE), ![r].n = n, ![r].todo = @ \ {n}]
  /\ UNCHANGED <<store, met>>

\* _secret_exists: an error means that there is none, or, in the server, that a
\* permission is missing.
Look(r) ==
  /\ req[r].pc = "look"
  /\ \E n \in req[r].todo :
       \/ req' = [req EXCEPT ![r].pc = Looked(r, n, store[n] # None), ![r].n = n, ![r].todo = @ \ {n}]
       \/ \E pc \in {Looked(r, n, FALSE)} \cup (IF req[r].op \in Server THEN {"failed"} ELSE {}) :
            req' = [req EXCEPT ![r].pc = pc, ![r].n = n, ![r].todo = @ \ {n}, ![r].fault = TRUE]
  /\ UNCHANGED <<store, met>>

\* A call that raises ends the request, a seeding too.
CallFails(r) ==
  /\ req[r].pc \in {"create", "add"}
  /\ req' = [req EXCEPT ![r].pc = "failed", ![r].fault = TRUE]
  /\ UNCHANGED <<store, met>>

Onward(r) == IF req[r].todo = {} THEN "over" ELSE "look"

\* Slip: a secret that had to be created is taken to be written.
Slip_CreateOnly(r) ==
  LET n == req[r].n
  IN /\ req[r].pc = "create"
     /\ IF store[n] # None
        THEN req' = [req EXCEPT ![r].pc = "failed"] /\ UNCHANGED store
        ELSE req' = [req EXCEPT ![r].pc = Onward(r)] /\ store' = [store EXCEPT ![n] = <<>>]
     /\ UNCHANGED met

\* The creation of a secret that is there is an error.
Create(r) ==
  LET n == req[r].n
  IN /\ req[r].pc = "create"
     /\ IF store[n] # None
        THEN req' = [req EXCEPT ![r].pc = "failed"] /\ UNCHANGED store
        ELSE req' = [req EXCEPT ![r].pc = "add"] /\ store' = [store EXCEPT ![n] = <<>>]
     /\ UNCHANGED met

\* A version is added, whatever the latest is; a seeding without a value adds none.
Add(r) ==
  LET n == req[r].n
  IN /\ req[r].pc = "add"
     /\ store' = IF Value(r, n) = None THEN store
                 ELSE [store EXCEPT ![n] = Append(@, Value(r, n))]
     /\ req' = [req EXCEPT ![r].pc = Onward(r)]
     /\ UNCHANGED met

-----------------------------------------------------------------------------

\* The server is restarted: requests under way die.
Restart ==
  /\ req' = [r \in Requests |-> IF Under(r) /\ req[r].op \in Server
                                THEN [req[r] EXCEPT !.pc = "failed", !.fault = TRUE] ELSE req[r]]
  /\ UNCHANGED <<store, met>>

-----------------------------------------------------------------------------

SecretInit ==
  /\ store = [n \in Names |-> None]
  /\ req = [r \in Requests |-> Idle]
  /\ met = {}

SecretNext ==
  \/ \E r \in Requests : BeginWrite(r) \/ BeginSeed(r) \/ Look(r) \/ CallFails(r) \/ Create(r) \/ Add(r)
  \/ Restart

SecretSpec == SecretInit /\ [][SecretNext]_secretVars

-----------------------------------------------------------------------------
(* Properties.                                                             *)

SecretTypeOK ==
  /\ \A n \in Names : store[n] # None =>
       \A k \in DOMAIN store[n] : store[n][k] \in Requests \cup {Placeholder}
  /\ \A r \in Requests : req[r].pc \in {"idle", "look", "create", "add", "over", "refused", "failed"}

\* A secret without a value comes of a request that failed halfway, or of a seeding
\* told to leave gaps: nobody else leaves a reference that cannot be resolved.
SecretsHaveValues ==
  \A n \in Names : (store[n] = <<>>) =>
    \E r \in Requests : \/ req[r].n = n /\ req[r].pc \in {"add", "failed"}
                        \/ req[r].op = "seed" /\ n \notin req[r].given

\* A request fails only for a call that failed, or for another request that it
\* met: two that both find no secret create it both, and the second is refused.
FailuresAreExplained ==
  \A r \in Requests : (req[r].pc = "failed" /\ ~req[r].fault) =>
    \E s \in Requests \ {r} : {r, s} \in met

\* Requests for secrets end with a value stored, or for a reason.
SecretsAreWritten == SecretTypeOK /\ SecretsHaveValues /\ FailuresAreExplained
=============================================================================
