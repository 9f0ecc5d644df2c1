----------------------------- MODULE ToolCatalog ----------------------------
(***************************************************************************)
(* The tool catalog: the records of tools, the seeding of the functions    *)
(* that the server exports, and the binding of records to agents, with the *)
(* cache of MCP toolsets.                                                  *)
(*                                                                         *)
(* A record is one document; its routes run in worker threads, bindings on *)
(* the event loop.  `of` is what a tool stands for: an exported function,  *)
(* or "mcp" for a server to connect to.  `by` and `switch` are the writers *)
(* of its configuration and of its switch.                                 *)
(* Definitions named Slip_... are wrong variants, used by no specification *)
(* (see module Board).                                                     *)
(***************************************************************************)
EXTENDS Naturals, FiniteSets

CONSTANTS
  Tools,         \* the ids that there are, each used once (bound)
  Requests,      \* each made once (bound)
  Functions,     \* the exported functions
  Agents,        \* each has one tool in its override
  Unused, None

VARIABLES
  tool,          \* tool[t]: Unused, None (deleted) or [of, by, on, switch]
  req,           \* req[r]: the progress of a request, and the record it read
  boot,          \* None before the start has listed the tools, or the functions to seed
  toolset,       \* toolset[t]: the MCP manager's cache, by the configuration's writer
  bind,          \* bind[a]: None or [t, of, by, pc, to, after]: what was read, what was bound
  met            \* pairs of requests that were under way at one time (for properties only)

toolVars == <<tool, req, boot, toolset, bind, met>>

Idle == [op |-> "none", t |-> None, of |-> None, copy |-> None, pc |-> "idle", began |-> 0]
Now == Cardinality({r \in Requests : req[r].pc # "idle"})
Open(r) == req[r].pc = "write"
Done(r) == req[r].pc = "over"
Stored(t) == tool[t] \notin {Unused, None}

Record(of, w) == [of |-> of, by |-> w, on |-> TRUE, switch |-> w]

Free == {t \in Tools : tool[t] = Unused}

-----------------------------------------------------------------------------
(* The start, before the server serves.                                    *)

\* Slip: whatever is there, every function is seeded.
Slip_MissingAll == Functions

Missing == {f \in Functions : \A t \in Tools : Stored(t) => tool[t].of # f}

\* seed_builtin_tools lists what there is; if that fails nothing is seeded.
ListTools ==
  /\ boot = None /\ boot' \in {Missing, {}}
  /\ UNCHANGED <<tool, req, toolset, bind, met>>

Seed(f) ==
  /\ \E t \in Free : tool' = [tool EXCEPT ![t] = Record(f, "seed")]
  /\ boot' = boot \ {f}
  /\ UNCHANGED <<req, toolset, bind, met>>

SeedFails(f) == boot' = boot \ {f} /\ UNCHANGED <<tool, req, toolset, bind, met>>

\* The server dies, with its requests, its agents and its toolsets.
Restart ==
  /\ boot' = None
  /\ req' = [r \in Requests |-> IF Open(r) THEN [req[r] EXCEPT !.pc = "failed", !.copy = None] ELSE req[r]]
  /\ toolset' = [t \in Tools |-> None] /\ bind' = [a \in Agents |-> None]
  /\ UNCHANGED <<tool, met>>

-----------------------------------------------------------------------------
(* The routes.                                                             *)

Begins(r, op, t, of, pc) ==
  /\ boot = {} /\ req[r].pc = "idle"
  /\ req' = [req EXCEPT ![r] = [op |-> op, t |-> t, of |-> of, pc |-> pc, began |-> Now,
                                  copy |-> IF pc = "write" THEN tool[t] ELSE None]]
  /\ met' = met \cup {{r, s} : s \in {q \in Requests : Open(q)}}
  /\ UNCHANGED <<boot, toolset, bind>>

\* create_tool: a new id, and one write.
Create(r) ==
  \E t \in Free, of \in Functions \cup {"mcp"} :
    /\ Begins(r, "create", t, of, "over")
    /\ tool' = [tool EXCEPT ![t] = Record(of, r)]

\* delete_tool: one call, without a look.
Delete(r) ==
  \E t \in Tools : /\ Stored(t) /\ Begins(r, "delete", t, None, "over")
                   /\ tool' = [tool EXCEPT ![t] = None]

\* update_tool reads; refused without a record.
BeginUpdate(r) ==
  \E t \in Tools :
    /\ Stored(t)
    /\ \/ \E of \in Functions \cup {"mcp"} : Begins(r, "config", t, of, "write")
       \/ \E op \in {"on", "off"} : Begins(r, op, t, None, "write")
    /\ UNCHANGED tool

\* Slip: an update begins with a new record.
Slip_UpdateAfresh(r) ==
  IF req[r].op = "config" THEN Record(req[r].of, r)
  ELSE [req[r].copy EXCEPT !.on = (req[r].op = "on"), !.switch = r]

\* update_tool's record; a configuration of another kind changes the kind.
Updated(r) ==
  IF req[r].op = "config" THEN [req[r].copy EXCEPT !.of = req[r].of, !.by = r]
  ELSE [req[r].copy EXCEPT !.on = (req[r].op = "on"), !.switch = r]

Update(r) ==
  /\ Open(r)
  /\ tool' = [tool EXCEPT ![req[r].t] = Updated(r)]
  /\ req' = [req EXCEPT ![r].pc = "over", ![r].copy = None]
  /\ UNCHANGED <<boot, toolset, bind, met>>

UpdateFails(r) ==
  /\ Open(r) /\ req' = [req EXCEPT ![r].pc = "failed", ![r].copy = None]
  /\ UNCHANGED <<tool, boot, toolset, bind, met>>

-----------------------------------------------------------------------------
(* Bindings, one at a time.                                                *)

\* Slip: the switch is not looked at.
Slip_Usable(t) == Stored(t)

Usable(t) == Stored(t) /\ tool[t].on

Found(t) ==
  [t |-> t, of |-> tool[t].of, by |-> tool[t].by, to |-> None, after |-> {r \in Requests : Done(r)},
   pc |-> IF tool[t].of = "mcp" THEN "read" ELSE "bound"]

\* resolve_catalog_tools: a function is imported, and a server's record handed to the
\* MCP manager.  A record that is missing or disabled is skipped, which changes
\* nothing: an agent without the tool is as one not yet built.
Look(a) ==
  /\ boot = {} /\ bind[a] = None /\ \A b \in Agents : bind[b] # None => bind[b].pc # "read"
  /\ \E t \in Tools : Usable(t) /\ bind' = [bind EXCEPT ![a] = Found(t)]
  /\ UNCHANGED <<tool, req, boot, toolset, met>>

\* Slip: a toolset is built for each agent.
Slip_BuildAnew(b) == b.by

Toolset(b) == IF toolset[b.t] = None THEN b.by ELSE toolset[b.t]

\* McpClientManager.get_toolset: built from the record that was read, unless the
\* cache has one, which no update and no deletion empties.
Fetch(a) ==
  /\ bind[a] # None /\ bind[a].pc = "read"
  /\ toolset' = [toolset EXCEPT ![bind[a].t] = Toolset(bind[a])]
  /\ bind' = [bind EXCEPT ![a].pc = "bound", ![a].to = Toolset(bind[a]), ![a].by = None]
  /\ UNCHANGED <<tool, req, boot, met>>

\* A toolset that cannot be built is skipped.
FetchFails(a) ==
  /\ bind[a] # None /\ bind[a].pc = "read" /\ toolset[bind[a].t] = None
  /\ bind' = [bind EXCEPT ![a] = None]
  /\ UNCHANGED <<tool, req, boot, toolset, met>>

-----------------------------------------------------------------------------

ToolInit ==
  /\ tool = [t \in Tools |-> Unused] /\ req = [r \in Requests |-> Idle] /\ boot = None
  /\ toolset = [t \in Tools |-> None] /\ bind = [a \in Agents |-> None] /\ met = {}

ToolNext ==
  \/ ListTools \/ Restart
  \/ boot # None /\ \E f \in boot : Seed(f) \/ SeedFails(f)
  \/ \E r \in Requests : Create(r) \/ Delete(r) \/ BeginUpdate(r) \/ Update(r) \/ UpdateFails(r)
  \/ \E a \in Agents : Look(a) \/ Fetch(a) \/ FetchFails(a)

ToolSpec == ToolInit /\ [][ToolNext]_toolVars

-----------------------------------------------------------------------------
(* Properties.                                                             *)

Alone(r) == \A s \in Requests : {r, s} \notin met \/ s = r
Later(w, r) == w \in Requests /\ req[w].began > req[r].began

\* However often the server starts, and whatever died with it, a function is seeded
\* at most once as long as its record keeps its configuration.
SeededOnce ==
  \A f \in Functions : Cardinality({t \in Tools : Stored(t) /\ tool[t].of = f /\ tool[t].by = "seed"}) <= 1

\* An update that met no other request stays until its field is written again or
\* the record deleted, also when the server starts again.
ToolEditsStay ==
  \A r \in Requests :
    (Done(r) /\ req[r].op \in {"config", "on", "off"} /\ Alone(r)) =>
      LET t == req[r].t
          w == IF req[r].op = "config" THEN tool[t].by ELSE tool[t].switch
      IN IF Stored(t) THEN w = r \/ Later(w, r)
         ELSE \E d \in Requests : Done(d) /\ req[d].op = "delete" /\ req[d].t = t /\ Later(d, r)

\* A deleted record is back only if an update that met the deletion wrote it.
DeletedToolsStayGone ==
  \A d \in Requests : (Done(d) /\ req[d].op = "delete" /\ Stored(req[d].t)) =>
    \E r \in Requests : Done(r) /\ req[r].op \notin {"create", "delete"} /\ req[r].t = req[d].t /\ {r, d} \in met

\* An agent built after a tool was switched off or deleted does not have it, unless
\* a request brought it back.
DisabledStayUnbound ==
  \A a \in Agents : bind[a] # None => \A r \in bind[a].after :
    (bind[a].pc = "bound" /\ req[r].t = bind[a].t /\ req[r].op \in {"off", "delete"} /\ Alone(r)) =>
      \E s \in bind[a].after : Later(s, r) /\ req[s].t = req[r].t /\ req[s].op = "on"

\* All agents of one life of the server that use an MCP tool share its toolset.
OneToolsetPerServer ==
  \A a, b \in Agents :
    (bind[a] # None /\ bind[b] # None /\ bind[a].pc = "bound" /\ bind[b].pc = "bound" /\ bind[a].t = bind[b].t
     /\ bind[a].of = "mcp" /\ bind[b].of = "mcp") => bind[a].to = bind[b].to

\* The catalog keeps what it was told, and agents get what it holds.
ToolsStand == SeededOnce /\ ToolEditsStay /\ DeletedToolsStayGone /\ DisabledStayUnbound /\ OneToolsetPerServer
=============================================================================
