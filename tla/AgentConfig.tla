------------------------------ MODULE AgentConfig ---------------------------
(***************************************************************************)
(* AgentConfigService: overrides stored over agents' files, and the agents   *)
(* that are built from them.                                               *)
(*                                                                         *)
(* An override is one document, read, changed and written back whole; the    *)
(* routes run in worker threads, the architect's tools on the event loop, so *)
(* the calls of two requests interleave.  Agents are built when first used   *)
(* and kept until the process ends.  A field of a document is the request    *)
(* that wrote it, or Unset.                                                 *)
(* Definitions named Slip_... are wrong variants, used by no specification  *)
(* (see module Board).                                                      *)
(***************************************************************************)
EXTENDS Naturals, FiniteSets

CONSTANTS
  Agents,
  Requests,      \* each made once (bound)
  Protected,     \* agents whose override only a forced request deletes
  None, Unset

VARIABLES
  file,          \* the agents that have a file
  doc,           \* doc[a]: None or [body, model, standalone]
  req,           \* req[r]: the progress of a request, and the document it read
  runner,        \* runner[a]: None or the document its runner was built from
  met            \* pairs of requests that were under way at one time (for properties only)

cfgVars == <<file, doc, req, runner, met>>

Doc == [body : Requests \cup {Unset}, model : Requests \cup {Unset}, standalone : BOOLEAN]
NewDoc == [body |-> Unset, model |-> Unset, standalone |-> FALSE]

Idle == [op |-> "none", a |-> None, field |-> "body", copy |-> None, pc |-> "idle", began |-> 0]
Now == Cardinality({r \in Requests : req[r].pc # "idle"})
Open(r) == req[r].pc = "write"

\* A request begins: it meets those that are under way.
Meets(r) == met' = met \cup {{r, s} : s \in {q \in Requests : Open(q)}}

Under(r, op, a, field) ==
  /\ req' = [req EXCEPT ![r] = [op |-> op, a |-> a, field |-> field, copy |-> doc[a], pc |-> "write", began |-> Now]]
  /\ Meets(r)

-----------------------------------------------------------------------------
(* Reading, the first half of a request; one that is refused changes        *)
(* nothing.                                                                *)

\* create_standalone, of the route and of the architect: no file, no document.
BeginCreate(r) ==
  /\ req[r].pc = "idle"
  /\ \E a \in Agents : a \notin file /\ doc[a] = None /\ Under(r, "create", a, "body")
  /\ UNCHANGED <<file, doc, runner>>

\* upsert_override, of the route and of the architect's update_agent_model.
BeginPatch(r) ==
  /\ req[r].pc = "idle"
  /\ \E a \in Agents, field \in {"body", "model"} : Under(r, "patch", a, field)
  /\ UNCHANGED <<file, doc, runner>>

\* Slip: the route does not know which agents are protected.
Slip_DeleteAny(r) ==
  /\ req[r].pc = "idle"
  /\ \E a \in Agents : doc[a] # None /\ Under(r, "delete", a, "body")
  /\ UNCHANGED <<file, doc, runner>>

\* delete_agent and delete_override; "forced" is the one way past the protection.
BeginDelete(r) ==
  /\ req[r].pc = "idle"
  /\ \E a \in Agents, op \in {"delete", "forced"} :
       doc[a] # None /\ (op = "forced" \/ a \notin Protected) /\ Under(r, op, a, "body")
  /\ UNCHANGED <<file, doc, runner>>

\* The architect's write_agent_file: a file appears, whatever is stored.
WriteFile(a) ==
  /\ a \notin file /\ file' = file \cup {a}
  /\ UNCHANGED <<doc, req, runner, met>>

-----------------------------------------------------------------------------
(* Writing, the second half.                                               *)

\* Slip: a patch starts from an empty document.
Slip_PatchAfresh(r) ==
  CASE req[r].op = "create" -> [body |-> r, model |-> r, standalone |-> TRUE]
    [] req[r].op = "patch" -> [NewDoc EXCEPT ![req[r].field] = r]
    [] OTHER -> None

\* What the request leaves stored: the patch is laid over what it has read.
Written(r) ==
  CASE req[r].op = "create" -> [body |-> r, model |-> r, standalone |-> TRUE]
    [] req[r].op = "patch" -> [(IF req[r].copy = None THEN NewDoc ELSE req[r].copy) EXCEPT ![req[r].field] = r]
    [] OTHER -> None

Write(r) ==
  /\ Open(r)
  /\ doc' = [doc EXCEPT ![req[r].a] = Written(r)]
  /\ req' = [req EXCEPT ![r].pc = "over"]
  /\ UNCHANGED <<file, runner, met>>

WriteFails(r) ==
  /\ Open(r) /\ req' = [req EXCEPT ![r].pc = "failed"]
  /\ UNCHANGED <<file, doc, runner, met>>

-----------------------------------------------------------------------------
(* Runners.                                                                *)

\* Slip: a runner is built for any name.
Slip_RunAny(a) ==
  /\ runner[a] = None
  /\ runner' = [runner EXCEPT ![a] = IF doc[a] = None THEN NewDoc ELSE doc[a]]
  /\ UNCHANGED <<file, doc, req, met>>

\* Slip: a runner that finds no document stores an empty one.
Slip_RunStores(a) ==
  /\ runner[a] = None /\ (a \in file \/ doc[a] # None)
  /\ doc' = [doc EXCEPT ![a] = IF @ = None THEN NewDoc ELSE @]
  /\ runner' = [runner EXCEPT ![a] = doc'[a]]
  /\ UNCHANGED <<file, req, met>>

\* AgentRunnerRegistry.get: built once, from the file and the document; a name
\* with neither raises.
Run(a) ==
  /\ runner[a] = None /\ (a \in file \/ doc[a] # None)
  /\ runner' = [runner EXCEPT ![a] = IF doc[a] = None THEN NewDoc ELSE doc[a]]
  /\ UNCHANGED <<file, doc, req, met>>

\* A restart: requests die, and agents are built anew.
Restart ==
  /\ \E a \in Agents : runner[a] # None
  /\ runner' = [a \in Agents |-> None]
  /\ req' = [r \in Requests |-> IF Open(r) THEN [req[r] EXCEPT !.pc = "failed"] ELSE req[r]]
  /\ UNCHANGED <<file, doc, met>>

-----------------------------------------------------------------------------

CfgInit ==
  /\ file \in SUBSET Agents /\ Protected \subseteq file
  /\ doc = [a \in Agents |-> None]
  /\ req = [r \in Requests |-> Idle]
  /\ runner = [a \in Agents |-> None]
  /\ met = {}

CfgNext ==
  \/ \E r \in Requests : BeginCreate(r) \/ BeginPatch(r) \/ BeginDelete(r) \/ Write(r) \/ WriteFails(r)
  \/ \E a \in Agents : WriteFile(a) \/ Run(a)
  \/ Restart

CfgSpec == CfgInit /\ [][CfgNext]_cfgVars

-----------------------------------------------------------------------------
(* Properties.                                                             *)

CfgTypeOK ==
  /\ doc \in [Agents -> Doc \cup {None}] /\ runner \in [Agents -> Doc \cup {None}]
  /\ \A r \in Requests : req[r].pc \in {"idle", "write", "over", "failed"}

\* Only a forced request takes the override of a protected agent away.
ProtectedNeedForce ==
  [][\A a \in Protected : (doc[a] # None /\ doc'[a] = None) =>
       \E r \in Requests : req[r].op = "forced" /\ req[r].a = a /\ req[r].pc = "write"]_cfgVars

Alone(r) == \A s \in Requests : {r, s} \notin met \/ s = r

\* A patch that met no other request stays until its field is written again or the
\* override deleted: no later patch of another field takes it back.
PatchesStay ==
  \A r \in Requests :
    (req[r].pc = "over" /\ req[r].op \in {"create", "patch"} /\ Alone(r)) =>
      \/ /\ doc[req[r].a] # None
         /\ LET w == doc[req[r].a][req[r].field] IN w = r \/ (w # Unset /\ req[w].began > req[r].began)
      \/ \E d \in Requests : req[d].op \in {"delete", "forced"} /\ req[d].pc = "over" /\ req[d].a = req[r].a
                             /\ req[d].began > req[r].began

\* An override that was deleted is stored again only by a request that met the
\* deletion or came after it.
DeletedStaysGone ==
  \A d \in Requests :
    (req[d].op \in {"delete", "forced"} /\ req[d].pc = "over" /\ doc[req[d].a] # None) =>
      \E r \in Requests : /\ req[r].op \in {"create", "patch"} /\ req[r].pc = "over" /\ req[r].a = req[d].a
                          /\ ({r, d} \in met \/ req[r].began > req[d].began)

\* A runner exists only for an agent that has, or had, a file or an override.
RunnersHaveAgents ==
  \A a \in Agents : runner[a] # None =>
    a \in file \/ \E r \in Requests : req[r].a = a /\ req[r].op \in {"create", "patch"} /\ req[r].pc = "over"

\* What a request stored or deleted stands until another request.
ConfigurationStands ==
  []CfgTypeOK /\ []PatchesStay /\ []DeletedStaysGone /\ []RunnersHaveAgents /\ ProtectedNeedForce
=============================================================================
