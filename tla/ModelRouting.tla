----------------------------- MODULE ModelRouting ---------------------------
(***************************************************************************)
(* Which model an agent's turns are sent to, and with which credentials:    *)
(* references into the catalog, the models built from its records, and the  *)
(* router for agents without a reference.                                   *)
(*                                                                         *)
(* The catalog is a sequence of providers [id, name, enabled, kind, copilot] *)
(* and one of models [provider, id, enabled], as its queries return them; a  *)
(* name or an id is the sequence of its parts between slashes.               *)
(* Definitions named Slip_... are wrong variants, used by no specification  *)
(* (see module Board).                                                      *)
(***************************************************************************)
EXTENDS Integers, Sequences, SequencesExt, FiniteSets, Lists

-----------------------------------------------------------------------------
(* resolve_agent_model.                                                    *)

InUse(providers) == Kept(providers, LAMBDA p : p.enabled)

\* dict comprehensions keep the last of several providers with one name.
LastOr(s) == IF s = <<>> THEN None ELSE s[Len(s)]
FirstOr(s) == IF s = <<>> THEN None ELSE s[1]
ProviderNamed(providers, name) == LastOr(Kept(InUse(providers), LAMBDA p : p.name = name))
ProviderWithId(providers, id) == LastOr(Kept(InUse(providers), LAMBDA p : p.id = id))

\* "Provider/model": the reference is split at its first slash.
QualifiedMatch(name, providers, models) ==
  LET p == ProviderNamed(providers, <<name[1]>>)
  IN  IF p = None THEN None
      ELSE LET hits == Kept(models, LAMBDA m : m.provider = p.id /\ m.enabled /\ m.id = Tail(name))
           IN  IF hits = <<>> THEN None ELSE [provider |-> p, model |-> hits[1]]

\* Slip: models of providers that are switched off are found too.
Slip_AnyProvider(name, providers, models) ==
  LET hits == Kept(models, LAMBDA m : m.enabled /\ m.id = name)
      of(m) == FirstOr(Kept(providers, LAMBDA p : p.id = m.provider))
  IN  IF hits = <<>> \/ of(hits[1]) = None THEN None ELSE [provider |-> of(hits[1]), model |-> hits[1]]

\* A bare id: the first enabled model of an enabled provider.
BareMatch(name, providers, models) ==
  LET hits == Kept(models, LAMBDA m : m.enabled /\ m.id = name /\ ProviderWithId(providers, m.provider) # None)
  IN  IF hits = <<>> THEN None
      ELSE [provider |-> ProviderWithId(providers, hits[1].provider), model |-> hits[1]]

Resolved(name, providers, models) ==
  IF name = <<>> THEN None
  ELSE IF Len(name) > 1 THEN QualifiedMatch(name, providers, models)
  ELSE BareMatch(name, providers, models)

-----------------------------------------------------------------------------
(* build_adk_override_from_model, and a call of what it builds.             *)

Prefixed == {"openai", "anthropic", "anthropic_oauth", "openrouter", "groq", "together", "custom_openai", "ollama"}

Rotates(provider) == provider.kind = "anthropic_oauth" \/ (provider.kind = "custom_openai" /\ provider.copilot)

\* Slip: the token is sent in a header of its own too.
Slip_BearerHeader(provider, model, key) ==
  [via |-> "litellm", model |-> model.id, key |-> key, refresh |-> Rotates(provider),
   headers |-> (IF provider.kind = "anthropic_oauth" /\ key # None THEN {"anthropic-beta", "Authorization"} ELSE {})
               \cup (IF Rotates(provider) /\ provider.copilot THEN {"Editor-Version"} ELSE {})]

\* Slip: no model refreshes its key.
Slip_NoRefresh(provider, model, key) ==
  [via |-> "litellm", model |-> model.id, key |-> key, refresh |-> FALSE, headers |-> {}]

Bare(model) == [via |-> "adk", model |-> model.id, key |-> None, refresh |-> FALSE, headers |-> {}]

\* A model of Google is called by its bare id, the public API's with its key.
AdkModel(provider, model, key) ==
  IF provider.kind \notin Prefixed /\ ~(provider.kind = "google_gemini" /\ key # None) THEN Bare(model)
  ELSE [via |-> "litellm", model |-> model.id, key |-> key, refresh |-> Rotates(provider),
        headers |-> (IF provider.kind = "anthropic_oauth" /\ key # None THEN {"anthropic-beta"} ELSE {})
                    \cup (IF Rotates(provider) /\ provider.kind = "custom_openai" THEN {"Editor-Version"} ELSE {})]

\* generate_content_async: the key of the call.  fresh is None when the provider
\* of keys returns none or raises: the last known key is used, and kept.
CallKey(llm, fresh) == IF llm.refresh /\ fresh # None THEN fresh ELSE llm.key

-----------------------------------------------------------------------------
(* The router.                                                             *)

ProfileOf == [orchestrator |-> "orchestration", workspace |-> "summarization", dev |-> "code",
              home |-> "summarization", comms |-> "personality", research |-> "summarization"]
SuffixProfile == <<<<"code", "code">>, <<"search", "tools">>, <<"draft", "personality">>,
                   <<"summarize", "summarization">>, <<"audit", "tools">>>>

\* An agent is its name's manager ("" for none) and the suffixes found in its name.
Profile(agent) ==
  IF agent.manager \in DOMAIN ProfileOf THEN ProfileOf[agent.manager]
  ELSE LET hits == Kept(SuffixProfile, LAMBDA sp : sp[1] \in agent.words)
       IN  IF hits = <<>> THEN None ELSE hits[1][2]

\* Slip: a rule is written for an endpoint that is not registered.
Slip_RulesFirst(settings) ==
  [endpoints |-> {"flash"} \cup (IF settings.gemma = "served" THEN {"gemma"} ELSE {}),
   rules |-> [p \in {"orchestration", "personality", "summarization", "background"} |->
                IF p \in {"orchestration", "personality"} THEN "flash" ELSE "gemma"]]

\* _build_model_router: Gemma only by a name the API serves, Nemotron only with a
\* key for it.
RouterOf(settings) ==
  LET gemma == settings.gemma = "served"
      nemotron == settings.nemotron /\ settings.openrouter
  IN  [endpoints |-> {"flash"} \cup (IF gemma THEN {"gemma"} ELSE {}) \cup (IF nemotron THEN {"nemotron"} ELSE {}),
       rules |-> [p \in {"orchestration", "personality"}
                          \cup (IF gemma THEN {"summarization", "background"} ELSE {})
                          \cup (IF nemotron THEN {"tools", "code"} ELSE {}) |->
                    IF p \in {"orchestration", "personality"} THEN "flash"
                    ELSE IF p \in {"tools", "code"} THEN "nemotron" ELSE "gemma"]]

\* load_endpoints_from_catalog: an endpoint for each model in use, and no rule.
CatalogRouter(providers, models) ==
  [endpoints |-> {<<ProviderWithId(providers, m.provider).name, m.id>> :
                     m \in {n \in Range(models) : n.enabled /\ ProviderWithId(providers, n.provider) # None}},
   rules |-> [p \in {} |-> None]]

\* build_adk_model_for_agent: "default" when the agent has no profile, its profile
\* no rule, or the rule no endpoint.
Routed(router, agent) ==
  LET p == Profile(agent)
  IN  IF p = None \/ p \notin DOMAIN router.rules \/ router.rules[p] \notin router.endpoints THEN "default"
      ELSE router.rules[p]

-----------------------------------------------------------------------------
(* Properties, for every input.                                            *)

\* A reference resolves to a model in use of a provider in use: the one it names,
\* if it names one.  A model whose own id has a slash is found only under its
\* provider's name.
ResolvesToWhatIsInUse(name, providers, models) ==
  LET r == Resolved(name, providers, models)
  IN  r # None => /\ r.provider.enabled /\ r.model.enabled /\ r.model.provider = r.provider.id
                  /\ name \in {r.model.id, r.provider.name \o r.model.id}
                  /\ Len(r.model.id) > 1 => name # r.model.id

\* The key of a call is the newest one for a provider whose keys rotate, and when
\* none can be had the last one known; no call says who it is in two ways.
CallsAreSignedOnce(provider, model, key, fresh) ==
  LET llm == AdkModel(provider, model, key)
  IN  /\ "Authorization" \in llm.headers => llm.key = None
      /\ Rotates(provider) => CallKey(llm, fresh) = IF fresh = None THEN key ELSE fresh
      /\ ~Rotates(provider) /\ llm.via = "litellm" => CallKey(llm, fresh) = key

\* No agent is routed by a rule to an endpoint that is missing, whatever is
\* configured; with a catalog, which has no rules, all of them get the default.
RulesHaveEndpoints(settings, agent, providers, models) ==
  LET r == RouterOf(settings)
  IN  /\ \A p \in DOMAIN r.rules : r.rules[p] \in r.endpoints
      /\ Routed(r, agent) = "gemma" => settings.gemma = "served"
      /\ Routed(CatalogRouter(providers, models), agent) = "default"
=============================================================================
