------------------------------ MODULE AgentBuild ----------------------------
(***************************************************************************)
(* How an agent is put together from its file, the override stored for it,  *)
(* and what the program offers it: ConfigLoader, the readings of            *)
(* AgentConfigService, and AgentFactory.                                    *)
(*                                                                         *)
(* A file is None or [body, model, heartbeat, knowledge], its front matter   *)
(* parsed ("bad" where it does not); an override is None or a record of its  *)
(* fields.  Tools are [name, id, mcp], the identity id telling two tools of  *)
(* one name apart.                                                         *)
(* Definitions named Slip_... are wrong variants, used by no specification  *)
(* (see module Board).                                                      *)
(***************************************************************************)
EXTENDS ModelRouting

NotFound == "not found"
Fails == "bad"

-----------------------------------------------------------------------------
(* ConfigLoader.                                                           *)

\* Slip: the override's body comes before its prompt.
Slip_BodyFirst(file, doc) ==
  IF doc # None /\ doc.body # None THEN doc.body
  ELSE IF doc # None /\ doc.prompt \notin {None, ""} THEN doc.prompt
  ELSE IF file # None THEN file.body ELSE IF doc # None THEN "" ELSE NotFound

\* load_agent.  An empty prompt is none; an empty body is a body.
LoadedBody(file, doc) ==
  IF doc # None /\ doc.prompt \notin {None, ""} THEN doc.prompt
  ELSE IF doc # None /\ doc.body # None THEN doc.body
  ELSE IF file # None THEN file.body ELSE IF doc # None THEN "" ELSE NotFound

\* load_agent_heartbeat_config.
LoadedHeartbeat(file, doc) ==
  IF doc # None /\ doc.heartbeat # None THEN doc.heartbeat
  ELSE IF file # None THEN file.heartbeat ELSE None

\* load_agent_model_ref.
LoadedModel(file, doc) ==
  IF doc # None /\ doc.primary \notin {None, ""} THEN doc.primary
  ELSE IF file # None THEN file.model ELSE None

\* Slip: a file that asks for the profile gets it.
Slip_FileFirst(isFront, file, doc) ==
  IF file # None /\ file.knowledge \in BOOLEAN THEN file.knowledge
  ELSE IF doc # None /\ doc.knowledge # None THEN doc.knowledge ELSE isFront

\* resolve_user_knowledge: the override's word, the file's, or the default.
UserKnowledge(isFront, file, doc) ==
  IF doc # None /\ doc.knowledge # None THEN doc.knowledge
  ELSE IF file # None /\ file.knowledge \in BOOLEAN THEN file.knowledge
  ELSE isFront

\* build_system_prompt: its parts in order.
PromptParts(isFront, file, doc, memories, skills) ==
  <<"role", "time">> \o (IF UserKnowledge(isFront, file, doc) THEN <<"user">> ELSE <<>>)
  \o <<"personality">> \o (IF memories THEN <<"memories">> ELSE <<>>) \o (IF skills THEN <<"skills">> ELSE <<>>)

\* _build_transient_prompt, for drafts: nothing personal.
DraftParts(soul) == <<"role", "time">> \o (IF soul THEN <<"personality">> ELSE <<>>)

-----------------------------------------------------------------------------
(* The readings of AgentConfigService, which the admin pages show.          *)

\* get_effective_config.  What it takes for the file's body is the loader's,
\* which has seen the override; its heartbeat is the override's alone.
Effective(file, doc) ==
  IF file = None /\ doc = None THEN NotFound
  ELSE LET loaded == IF file = None THEN None ELSE LoadedBody(file, doc)
           body == IF doc # None /\ doc.body # None THEN doc.body ELSE loaded
           model == IF file = None \/ LoadedModel(file, doc) = Fails THEN None ELSE LoadedModel(file, doc)
           hb == IF file = None \/ LoadedHeartbeat(file, doc) = Fails THEN None ELSE LoadedHeartbeat(file, doc)
       IN  [body |-> body, prompt |-> IF doc # None /\ doc.prompt # None THEN doc.prompt ELSE body,
            model |-> IF doc # None /\ doc.primary \notin {None, ""} THEN doc.primary ELSE model,
            heartbeat |-> IF doc # None THEN doc.heartbeat ELSE hb,
            standalone |-> doc # None /\ doc.standalone, hasFile |-> file # None, hasDoc |-> doc # None]

\* list_agents, the row of one agent: the model and the heartbeat it shows.
Listed(file, doc) ==
  LET hb == IF file = None \/ LoadedHeartbeat(file, doc) = Fails THEN None ELSE LoadedHeartbeat(file, doc)
      model == IF file = None \/ LoadedModel(file, doc) = Fails THEN None ELSE LoadedModel(file, doc)
  IN  [model |-> IF doc # None /\ doc.primary \notin {None, ""} THEN doc.primary ELSE model,
       beats |-> IF doc # None /\ doc.heartbeat # None THEN doc.heartbeat = "on" ELSE hb = "on"]

\* _build_heartbeat_registry: who gets a heartbeat, and whether the loop runs it.
\* Only agents with a file are asked, and the orchestrator.
Beats(isOrchestrator, file, doc) ==
  IF file = None /\ ~isOrchestrator THEN None
  ELSE IF LoadedHeartbeat(file, doc) \in {None, Fails} THEN (IF isOrchestrator THEN "off" ELSE None)
  ELSE LoadedHeartbeat(file, doc)

-----------------------------------------------------------------------------
(* AgentFactory.                                                           *)

Names(tools) == {t.name : t \in {u \in Range(tools) : ~u.mcp}}

\* Slip: the catalog's tools are appended whatever is there.
Slip_AppendAll(tools, chosen) == tools \o chosen

\* _merge_catalog_tools: those of the catalog follow, but for a tool that is there
\* already, and one of the same name unless it is a set of tools.
MergedTools(tools, chosen) ==
  FoldLeft(LAMBDA acc, t : IF t \in Range(acc) \/ (~t.mcp /\ t.name \in Names(acc)) THEN acc ELSE Append(acc, t),
           tools, chosen)

\* Slip: what is allowed is not denied.
Slip_AllowWins(tools, doc) ==
  Kept(tools, LAMBDA t : t.name \in doc.allow \/ (doc.allow = {} /\ t.name \notin doc.deny))

\* _apply_override, the tools.
AppliedTools(tools, doc) ==
  IF doc = None THEN tools
  ELSE Kept(tools, LAMBDA t : t.name \notin doc.deny /\ (doc.allow # {} => t.name \in doc.allow))

\* _apply_override, agents to delegate to and skills: None inherits, and a list,
\* the empty one too, is all there is.
AppliedAgents(agents, doc) ==
  IF doc = None \/ doc.agents = None \/ (doc.agents # None /\ "*" \in doc.agents) THEN agents
  ELSE Kept(agents, LAMBDA a : a \in doc.agents)

AppliedSkills(skills, doc) ==
  IF doc = None \/ doc.skills = None THEN skills ELSE Kept(skills, LAMBDA s : s \in doc.skills)

\* _resolve_model: the caller's model, the reference if it resolves, the router's.
BuiltModel(explicit, file, doc, usable) ==
  IF explicit # None THEN explicit
  ELSE IF LoadedModel(file, doc) \in usable THEN LoadedModel(file, doc) ELSE "routed"

\* resolve_model_chain: references that do not resolve are left out.
ModelChain(doc, usable) ==
  IF doc # None /\ doc.primary \notin {None, ""}
  THEN Kept(<<doc.primary>> \o doc.fallbacks, LAMBDA r : r \in usable)
  ELSE <<"routed">>

\* Slip: the chain's own first model is tried again.
Slip_WholeChain(built, chain) == <<built>> \o chain

\* The attempts of a turn (AgentRunner._run_turn): the model that the agent was
\* built with, and the chain after its first.
Attempts(built, chain) == <<built>> \o (IF chain = <<>> THEN <<>> ELSE Tail(chain))

-----------------------------------------------------------------------------
(* Properties, for every input.                                            *)

\* The admin pages show the model and the text that the agent is built from, and a
\* heartbeat as the agent has it; but for an empty prompt, shown though it is not
\* used, a file whose override leaves the heartbeat to it, shown as none, and the
\* heartbeat of an agent without a file, which is never started.
PagesShowWhatIsBuilt(file, doc) ==
  (file # None \/ doc # None) =>
    LET e == Effective(file, doc) l == Listed(file, doc)
    IN  /\ e.model = l.model
        /\ LoadedModel(file, doc) # Fails => e.model = LoadedModel(file, doc)
        /\ (doc = None \/ doc.prompt # "") /\ (file # None \/ doc.body # None) => e.prompt = LoadedBody(file, doc)
        /\ (doc = None \/ doc.heartbeat # None) /\ LoadedHeartbeat(file, doc) # Fails => e.heartbeat = LoadedHeartbeat(file, doc)
        /\ file # None => (l.beats <=> Beats(FALSE, file, doc) = "on")

\* Whatever is hard-wired or chosen from the catalog, an agent has no tool that is
\* denied, none but those allowed, no second tool of a name it had, and each tool
\* that passes, in order.
ToolsAreFiltered(tools, chosen, doc) ==
  LET built == AppliedTools(MergedTools(tools, chosen), doc)
      Passes(t) == doc = None \/ (t.name \notin doc.deny /\ (doc.allow = {} \/ t.name \in doc.allow))
  IN  /\ \A t \in Range(built) : Passes(t)
      /\ IsInjective([k \in DOMAIN tools |-> tools[k].name]) => \A j, k \in DOMAIN built :
           (~built[j].mcp /\ built[j].name = built[k].name) => j = k \/ built[k].mcp
      /\ \A t \in Range(tools \o chosen) : Passes(t) =>
           \E b \in Range(built) : b = t \/ (b.name = t.name /\ ~t.mcp)
      /\ \A t \in Range(tools) : Passes(t) => t \in Range(built)

\* When an agent's own reference resolves, a turn tries it first and then every
\* fallback that resolves, in order and once each as they are listed.  (When it
\* does not, the first fallback that does takes its place in the chain, and is
\* never tried.)
FallbacksAreTried(file, doc, usable) ==
  LET attempts == Attempts(BuiltModel(None, file, doc, usable), ModelChain(doc, usable))
  IN  /\ (doc # None /\ doc.primary \in usable) =>
           attempts = <<doc.primary>> \o Kept(doc.fallbacks, LAMBDA r : r \in usable)
      /\ Range(attempts) \subseteq usable \cup {"routed"}
      /\ Len(attempts) >= 1

\* The user's profile is shown to the agents at the front, and to others only when
\* their file or their override asks for it; the override has the last word, and
\* a draft under evaluation gets neither profile nor memories.
ProfileStaysPrivate(isFront, file, doc) ==
  LET shown == "user" \in Range(PromptParts(isFront, file, doc, TRUE, TRUE))
  IN  /\ shown => isFront \/ (file # None /\ file.knowledge = TRUE) \/ (doc # None /\ doc.knowledge = TRUE)
      /\ doc # None /\ doc.knowledge # None => shown = doc.knowledge
      /\ {"user", "memories", "skills"} \cap Range(DraftParts(TRUE)) = {}
=============================================================================
