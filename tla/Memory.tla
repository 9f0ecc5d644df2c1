------------------------------- MODULE Memory -------------------------------
(***************************************************************************)
(* MemoryService and NativeMemoryService over an external memory bank:      *)
(* captures after turns, extractions at the end of sessions, single         *)
(* deletions, and the wipe of all that is known of a user.                  *)
(*                                                                         *)
(* Captures are tasks nobody waits for; a wipe lists and then deletes one   *)
(* by one.  Every call to the bank is a step and may fail.  One user; the   *)
(* bank (external) stores any of the words it is sent under the scope it is *)
(* sent with, the user's own or an agent's.                                 *)
(* Definitions named Slip_... are wrong variants, used by no specification  *)
(* (see module Board).                                                      *)
(***************************************************************************)
EXTENDS MemoryText

CONSTANTS
  Captures,      \* captures and extractions, each made once (bound)
  Wipes,         \* wipes, each made once (bound)
  Texts          \* conversations

ASSUME TextsAssumption == \A text \in Texts : text \in Seq(RawLine)

VARIABLES
  backend,       \* the service in use, for the life of the process
  bank,          \* the memories: [scope, fact]
  capture,       \* capture[c]: its progress, scope and text
  wipe,          \* wipe[w]: its progress, what it has yet to delete, its count
  late           \* memories stored since a wipe listed (for properties only)

memVars == <<backend, bank, capture, wipe, late>>

Scopes == {"user", "agent"}
Words == UNION {{t[k].token : k \in DOMAIN t} : t \in Texts}

-----------------------------------------------------------------------------
(* Capture.                                                                *)

\* Slip: the conversation is sent as it is.
Slip_SendRaw(text) == ClientEvents(text)

\* What either service sends: capture and generate_memories scrub first.
Sent(text) == IF backend = "native" THEN NativeEvents(Scrubbed(text).text) ELSE ClientEvents(Scrubbed(text).text)

\* capture after a turn, or generate_memories at a session's end; the native
\* service sends nothing when no words are left.
BeginCapture(c) ==
  /\ capture[c].pc = "idle"
  /\ \E scope \in Scopes, text \in Texts :
       capture' = [capture EXCEPT ![c] = [pc |-> IF backend = "native" /\ Sent(text) = <<>> THEN "over" ELSE "sent",
                                          scope |-> scope, events |-> Sent(text)]]
  /\ UNCHANGED <<backend, bank, wipe, late>>

\* The bank's extraction (external): it remembers any of the words it was sent.
Extracted(c) == {capture[c].events[k].token : k \in DOMAIN capture[c].events} \ {Blank}

\* The call returns, or fails, which a capture logs and a session's end survives.
EndCapture(c) ==
  /\ capture[c].pc = "sent"
  /\ \E facts \in SUBSET Extracted(c) :
       LET new == {[scope |-> capture[c].scope, fact |-> f] : f \in facts}
       IN  bank' = bank \cup new /\ late' = [w \in Wipes |-> IF wipe[w].pc = "idle" THEN {} ELSE late[w] \cup new]
  /\ capture' = [capture EXCEPT ![c].pc = "over", ![c].events = <<>>]
  /\ UNCHANGED <<backend, wipe>>

-----------------------------------------------------------------------------
(* Deletion.                                                               *)

\* POST /memory/delete: one fact, of the user's scope or of an agent's.
DeleteFact ==
  /\ \E m \in bank : bank' = bank \ {m}
  /\ UNCHANGED <<backend, capture, wipe, late>>

\* Slip: the listing is of every scope.
Slip_ListAll(w) ==
  /\ wipe[w].pc = "idle" /\ backend = "custom"
  /\ wipe' = [wipe EXCEPT ![w] = [pc |-> "deleting", todo |-> bank, deleted |-> 0, listed |-> Cardinality(bank)]]
  /\ late' = [late EXCEPT ![w] = {}]
  /\ UNCHANGED <<backend, bank, capture>>

\* wipe_user_memories: the listing of the user's scope; if it fails, and always
\* with the native service, the count is 0.
List(w) ==
  /\ wipe[w].pc = "idle"
  /\ LET mine == {m \in bank : m.scope = "user"}
     IN  \/ /\ backend = "custom"
            /\ wipe' = [wipe EXCEPT ![w] = [pc |-> "deleting", todo |-> mine, deleted |-> 0,
                                            listed |-> Cardinality(mine)]]
         \/ wipe' = [wipe EXCEPT ![w].pc = "refused"]
  /\ late' = [late EXCEPT ![w] = {}]
  /\ UNCHANGED <<backend, bank, capture>>

\* Slip: a failed deletion is counted too.
Slip_CountAll(w) ==
  /\ wipe[w].pc = "deleting"
  /\ \E m \in wipe[w].todo, gone \in BOOLEAN :
       /\ bank' = IF gone THEN bank \ {m} ELSE bank
       /\ wipe' = [wipe EXCEPT ![w].todo = @ \ {m}, ![w].deleted = @ + 1]
  /\ UNCHANGED <<backend, capture, late>>

\* Slip: a failed deletion is tried again, and counted each time.
Slip_CountTries(w) ==
  /\ wipe[w].pc = "deleting"
  /\ \E m \in wipe[w].todo, gone \in BOOLEAN :
       /\ bank' = IF gone THEN bank \ {m} ELSE bank
       /\ wipe' = [wipe EXCEPT ![w].todo = IF gone THEN @ \ {m} ELSE @, ![w].deleted = @ + 1]
  /\ UNCHANGED <<backend, capture, late>>

\* One deletion of the loop; one that fails is logged and left.
Delete(w) ==
  /\ wipe[w].pc = "deleting"
  /\ \E m \in wipe[w].todo :
       \/ /\ bank' = bank \ {m}
          /\ wipe' = [wipe EXCEPT ![w].todo = @ \ {m}, ![w].deleted = @ + 1]
       \/ wipe' = [wipe EXCEPT ![w].todo = @ \ {m}] /\ UNCHANGED bank
  /\ UNCHANGED <<backend, capture, late>>

WipeEnds(w) ==
  /\ wipe[w].pc = "deleting" /\ wipe[w].todo = {}
  /\ wipe' = [wipe EXCEPT ![w].pc = "over"]
  /\ UNCHANGED <<backend, bank, capture, late>>

-----------------------------------------------------------------------------

MemInit ==
  /\ backend \in {"custom", "native"}
  /\ bank = {}
  /\ capture = [c \in Captures |-> [pc |-> "idle", scope |-> "user", events |-> <<>>]]
  /\ wipe = [w \in Wipes |-> [pc |-> "idle", todo |-> {}, deleted |-> 0, listed |-> 0]]
  /\ late = [w \in Wipes |-> {}]

MemNext ==
  \/ \E c \in Captures : BeginCapture(c) \/ EndCapture(c)
  \/ \E w \in Wipes : List(w) \/ Delete(w) \/ WipeEnds(w)
  \/ DeleteFact

MemSpec == MemInit /\ [][MemNext]_memVars

-----------------------------------------------------------------------------
(* Properties.                                                             *)

MemTypeOK ==
  /\ bank \subseteq [scope : Scopes, fact : Words \cup {Redacted}]
  /\ \A c \in Captures : capture[c].pc \in {"idle", "sent", "over"} /\ capture[c].scope \in Scopes
  /\ \A w \in Wipes : /\ wipe[w].pc \in {"idle", "deleting", "over", "refused"}
                      /\ wipe[w].deleted + Cardinality(wipe[w].todo) <= wipe[w].listed

\* No memory, of whatever scope and stored by whichever path, holds anything a
\* pattern matches.
NothingPersonalIsStored == \A m \in bank : m.fact \cap Range(Patterns) = {}

\* When a wipe reports as many deletions as it listed, all that is left of the
\* user was stored after the listing.
WipedStaysGone ==
  \A w \in Wipes :
    (wipe[w].pc = "over" /\ wipe[w].deleted = wipe[w].listed)
    => {m \in bank : m.scope = "user"} \subseteq late[w]

\* A wipe takes nothing of what the agents know.
WipesSpareAgents ==
  [][\A w \in Wipes : Delete(w) => {m \in bank' : m.scope = "agent"} = {m \in bank : m.scope = "agent"}]_memVars

\* The memory bank holds nothing personal, and what a user had wiped is gone.
MemoriesAreSafe == []MemTypeOK /\ []NothingPersonalIsStored /\ []WipedStaysGone /\ WipesSpareAgents
=============================================================================
