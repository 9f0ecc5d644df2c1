-------------------------------- MODULE Skills ------------------------------
(***************************************************************************)
(* The skill registry: the skills that ship in directories, registered     *)
(* when the server starts, and those that administrators create, patch and  *)
(* delete.                                                                 *)
(*                                                                         *)
(* A skill is one document, read, changed and written back whole by routes *)
(* in worker threads, so the calls of two requests interleave.  The server *)
(* loads the directories one by one before it serves, and may die at any   *)
(* point.  A field of a document is the request that wrote it, or "disk".  *)
(* Definitions named Slip_... are wrong variants, used by no specification *)
(* (see module Board).                                                     *)
(***************************************************************************)
EXTENDS Naturals, FiniteSets

CONSTANTS
  Requests,      \* each made once (bound)
  Names,
  Dirs,          \* a directory is [dir, name, loads]; one without a description does not load
  None

VARIABLES
  skill,         \* skill[n]: None or [source, text, grants]
  req,           \* req[r]: the progress of a request, and the document it read
  boot,          \* the directories that the server has yet to load; {} when it serves
  met            \* pairs of requests that were under way at one time (for properties only)

skillVars == <<skill, req, boot, met>>

Idle == [op |-> "none", n |-> None, field |-> "text", copy |-> None, pc |-> "idle", began |-> 0]
Now == Cardinality({r \in Requests : req[r].pc # "idle"})
Open(r) == req[r].pc = "write"

\* Over, in this life of the server or in an earlier one.
Done(r) == req[r].pc \in {"over", "past"}

-----------------------------------------------------------------------------
(* The start.                                                              *)

\* Slip: what is on disk replaces what is stored.
Slip_Overwrite(d) ==
  /\ boot' = boot \ {d}
  /\ skill' = IF d.loads THEN [skill EXCEPT ![d.name] = [source |-> "builtin", text |-> "disk", grants |-> "disk"]]
                         ELSE skill
  /\ UNCHANGED <<req, met>>

\* load_builtins, for one directory: it is registered unless its name has a document.
Load(d) ==
  /\ boot' = boot \ {d}
  /\ skill' = IF d.loads /\ skill[d.name] = None
              THEN [skill EXCEPT ![d.name] = [source |-> "builtin", text |-> "disk", grants |-> "disk"]]
              ELSE skill
  /\ UNCHANGED <<req, met>>

\* What one directory raises is logged, and the next one is loaded.
LoadFails(d) == boot' = boot \ {d} /\ UNCHANGED <<skill, req, met>>

\* The server dies, its requests with it, and starts again.
Restart ==
  /\ boot' = Dirs
  /\ req' = [r \in Requests |-> [req[r] EXCEPT !.pc = IF Open(r) THEN "failed" ELSE IF Done(r) THEN "past" ELSE @]]
  /\ UNCHANGED <<skill, met>>

-----------------------------------------------------------------------------
(* The routes.                                                             *)

\* A request that is not refused has read the document it is about.
Begin(r, op, n, field) ==
  /\ boot = {} /\ req[r].pc = "idle"
  /\ req' = [req EXCEPT ![r] = [op |-> op, n |-> n, field |-> field, copy |-> skill[n], pc |-> "write", began |-> Now]]
  /\ met' = met \cup {{r, s} : s \in {q \in Requests : Open(q)}}
  /\ UNCHANGED <<skill, boot>>

\* create_skill: refused if there is one of the name.
BeginCreate(r) == \E n \in Names : skill[n] = None /\ Begin(r, "create", n, "text")

\* patch_skill: refused without one; the name and the source stay what they are.
BeginPatch(r) == \E n \in Names, field \in {"text", "grants"} : skill[n] # None /\ Begin(r, "patch", n, field)

\* delete_skill.
BeginDelete(r) == \E n \in Names : skill[n] # None /\ Begin(r, "delete", n, "text")

\* Slip: the client says what the source is.
Slip_ClientSource(r) ==
  CASE req[r].op = "create" -> [source |-> "builtin", text |-> r, grants |-> r]
    [] req[r].op = "patch"  -> [req[r].copy EXCEPT ![req[r].field] = r]
    [] req[r].op = "delete" -> None

\* What a request leaves stored: a patch is laid over what it has read.
Written(r) ==
  CASE req[r].op = "create" -> [source |-> "custom", text |-> r, grants |-> r]
    [] req[r].op = "patch"  -> [req[r].copy EXCEPT ![req[r].field] = r]
    [] req[r].op = "delete" -> None

Write(r) ==
  /\ Open(r)
  /\ skill' = [skill EXCEPT ![req[r].n] = Written(r)]
  /\ req' = [req EXCEPT ![r].pc = "over"]
  /\ UNCHANGED <<boot, met>>

WriteFails(r) ==
  /\ Open(r) /\ req' = [req EXCEPT ![r].pc = "failed"]
  /\ UNCHANGED <<skill, boot, met>>

-----------------------------------------------------------------------------

SkillInit ==
  /\ skill = [n \in Names |-> None] /\ boot = Dirs
  /\ req = [r \in Requests |-> Idle] /\ met = {}

SkillNext ==
  \/ \E d \in boot : Load(d) \/ LoadFails(d)
  \/ \E r \in Requests : BeginCreate(r) \/ BeginPatch(r) \/ BeginDelete(r) \/ Write(r) \/ WriteFails(r)
  \/ Restart

SkillSpec == SkillInit /\ [][SkillNext]_skillVars

-----------------------------------------------------------------------------
(* Properties.                                                             *)

SkillTypeOK ==
  /\ \A n \in Names : skill[n] = None \/ skill[n] \in
       [source : {"builtin", "custom"}, text : Requests \cup {"disk"}, grants : Requests \cup {"disk"}]
  /\ boot \subseteq Dirs

Shipped(n) == \E d \in Dirs : d.name = n /\ d.loads
Alone(r) == \A s \in Requests : {r, s} \notin met \/ s = r
Fields(r) == IF req[r].op = "create" THEN {"text", "grants"} ELSE {req[r].field}
Later(w, r) == w \in Requests /\ req[w].began > req[r].began
Deletes(d, n) == Done(d) /\ req[d].op = "delete" /\ req[d].n = n

\* The badge of a skill is true: what is called built in ships with the server and
\* would come back after a deletion, and what is called custom was created by someone.
BadgesAreTrue ==
  \A n \in Names : skill[n] # None =>
    IF skill[n].source = "builtin" THEN Shipped(n)
    ELSE \E r \in Requests : Done(r) /\ req[r].op = "create" /\ req[r].n = n

\* What an administrator wrote while no other request was under way stays until it
\* is written or deleted again; no start of the server takes it back.
SkillEditsStay ==
  \A r \in Requests :
    (Done(r) /\ req[r].op \in {"create", "patch"} /\ Alone(r)) =>
      \/ /\ skill[req[r].n] # None
         /\ \A f \in Fields(r) : skill[req[r].n][f] = r \/ Later(skill[req[r].n][f], r)
      \/ \E d \in Requests : Deletes(d, req[r].n) /\ Later(d, r)

\* A deleted skill is back only through a request that met the deletion or came
\* after it, or because it ships with the server, which has started again.
SkillsStayDeleted ==
  \A n \in Names, d \in Requests : (Deletes(d, n) /\ skill[n] # None) =>
    \/ req[d].pc = "past" /\ Shipped(n)
    \/ \E r \in Requests : /\ Done(r) /\ req[r].op # "delete" /\ req[r].n = n
                           /\ ({r, d} \in met \/ Later(r, d))

\* A name is created a second time only if it was deleted in between, or two
\* requests met.
CreatedOnce ==
  \A r, s \in Requests :
    (/\ Done(r) /\ Done(s) /\ Later(s, r) /\ {r, s} \notin met
     /\ req[r].op = "create" /\ req[s].op = "create" /\ req[r].n = req[s].n)
      => \E d \in Requests : Deletes(d, req[r].n) /\ (Later(d, r) \/ {d, r} \in met)

\* The registry keeps what it was told.
SkillsStand == SkillTypeOK /\ BadgesAreTrue /\ SkillEditsStay /\ SkillsStayDeleted /\ CreatedOnce
=============================================================================
