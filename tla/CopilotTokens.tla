----------------------------- MODULE CopilotTokens ---------------------------
(***************************************************************************)
(* CopilotTokenCache, for one GitHub token in Secret Manager: its callers  *)
(* are served the session token in the cache, or exchange the GitHub token *)
(* for a new one, one at a time.                                           *)
(*                                                                         *)
(* Callers are coroutines and may be switched at the lock, at the read and *)
(* at the exchange, as the class is written for; resolve_api_key, its one  *)
(* user, blocks the event loop and so calls it once at a time.  The GitHub *)
(* token may be replaced at any time.                                      *)
(* Definitions named Slip_... are wrong variants, used by no specification *)
(* (see module Board).                                                     *)
(***************************************************************************)
EXTENDS Integers, Sequences

CONSTANTS
  Callers,       \* of get_access_token; each calls once (bound)
  Life,          \* of a session token
  Margin,        \* REFRESH_MARGIN_SECONDS
  Timeout,       \* of the read and the exchange together
  MaxNow,        \* readings of the clock (bound)
  MaxVersions,   \* of the secret (bound)
  None

VARIABLES
  version,       \* version[k]: when the k-th version of the secret was added
  cached,        \* the entry in _cache, [of, since]: of a version, or None
  caller,        \* caller[c]: its progress
  holder,        \* of the lock, or None
  served,        \* the token returned last, [of, at], or None
  clock

tokenVars == <<version, cached, caller, holder, served, clock>>

\* Slip: each use prolongs the token.
Slip_UseProlongs ==
  IF cached = None \/ cached.since + Life - clock <= Margin THEN None ELSE [cached EXCEPT !.since = clock]

\* _cached_valid.
Valid == IF cached = None \/ cached.since + Life - clock <= Margin THEN None ELSE cached

\* Returns the token in the cache, if it is still good.
ServeCached(c) ==
  /\ cached' = Valid
  /\ served' = [of |-> Valid.of, at |-> clock]
  /\ caller' = [caller EXCEPT ![c].pc = "over"]

\* The first look.
Call(c) ==
  /\ caller[c].pc = "idle"
  /\ IF Valid # None THEN ServeCached(c)
     ELSE caller' = [caller EXCEPT ![c].pc = "wait"] /\ UNCHANGED <<cached, served>>
  /\ UNCHANGED <<version, holder, clock>>

\* Slip: no second look under the lock.
Slip_LockAndGo(c) ==
  /\ caller[c].pc = "wait" /\ holder = None
  /\ caller' = [caller EXCEPT ![c].pc = "read", ![c].since = clock] /\ holder' = c
  /\ UNCHANGED <<version, cached, served, clock>>

\* The second look, under the lock.
Lock(c) ==
  /\ caller[c].pc = "wait" /\ holder = None
  /\ IF Valid # None THEN ServeCached(c) /\ UNCHANGED holder
     ELSE /\ caller' = [caller EXCEPT ![c].pc = "read", ![c].since = clock] /\ holder' = c
          /\ UNCHANGED <<cached, served>>
  /\ UNCHANGED <<version, clock>>

\* The secret cannot be read, or the exchange is refused: the caller gets None.
GetNothing(c) ==
  /\ caller[c].pc \in {"read", "exchange"}
  /\ caller' = [caller EXCEPT ![c].pc = "over"] /\ holder' = None
  /\ UNCHANGED <<version, cached, served, clock>>

\* _sm_read_sync reads the latest version.
ReadSecret(c) ==
  /\ caller[c].pc = "read" /\ version # <<>>
  /\ caller' = [caller EXCEPT ![c].pc = "exchange", ![c].of = Len(version)]
  /\ UNCHANGED <<version, cached, holder, served, clock>>

\* _exchange, and the token goes into the cache.
Exchange(c) ==
  /\ caller[c].pc = "exchange"
  /\ cached' = [of |-> caller[c].of, since |-> clock]
  /\ served' = [of |-> caller[c].of, at |-> clock]
  /\ caller' = [caller EXCEPT ![c].pc = "over"] /\ holder' = None
  /\ UNCHANGED <<version, clock>>

\* Somebody stores a GitHub token: a new version of the secret.
Replace ==
  /\ Len(version) < MaxVersions
  /\ version' = Append(version, clock)
  /\ UNCHANGED <<cached, caller, holder, served, clock>>

\* The client ends an exchange that takes too long.
PassTime ==
  /\ clock < MaxNow
  /\ \A c \in Callers : holder = c => clock - caller[c].since < Timeout
  /\ clock' = clock + 1
  /\ UNCHANGED <<version, cached, caller, holder, served>>

TokenInit ==
  /\ version = <<>> /\ cached = None /\ holder = None /\ served = None /\ clock = 0
  /\ caller = [c \in Callers |-> [pc |-> "idle", of |-> 0, since |-> 0]]

TokenNext ==
  \/ \E c \in Callers : Call(c) \/ Lock(c) \/ GetNothing(c) \/ ReadSecret(c) \/ Exchange(c)
  \/ Replace \/ PassTime

TokenSpec == TokenInit /\ [][TokenNext]_tokenVars

-----------------------------------------------------------------------------
(* Properties.                                                             *)

TokenTypeOK ==
  /\ \A c \in Callers : /\ caller[c].pc \in {"idle", "wait", "read", "exchange", "over"}
                        /\ caller[c].pc \in {"read", "exchange"} <=> holder = c
  /\ cached # None => cached.of \in DOMAIN version /\ cached.since \in 0 .. clock

\* A GitHub token that was replaced is out of use after the life of a session
\* token and the time of an exchange: nothing else drops it from the cache.
ReplacedTokensGoOut ==
  (served # None /\ served.of < Len(version)) =>
    LET replaced == version[served.of + 1]
    IN served.at < replaced + (Life - Margin) + Timeout \/ replaced >= served.at

\* No token is exchanged while the cache has one that is still good: the callers
\* who waited for the lock use the token its holder got.
NoNeedlessExchange == [][\A c \in Callers : Exchange(c) => Valid = None]_tokenVars

\* The cache is neither too old nor filled in vain.
SessionTokensAreFresh == []TokenTypeOK /\ []ReplacedTokensGoOut /\ NoNeedlessExchange
=============================================================================
