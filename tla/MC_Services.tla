---------------------------- MODULE MC_Services -----------------------------
(***************************************************************************)
(* The services of the server that keep documents of their own and share   *)
(* no state: the model catalog, the cost lookup, onboarding, the shared    *)
(* context, the agents' configuration, skills, the tool catalog, Secret    *)
(* Manager and the cache of Copilot tokens.  A behaviour begins            *)
(* with a choice of the part that moves, so their state spaces are added,  *)
(* not multiplied.                                                         *)
(*                                                                         *)
(* The parts share their model values, so that one small group of          *)
(* permutations is a symmetry of them all.                                 *)
(***************************************************************************)
EXTENDS Integers, FiniteSets, Sequences, TLC

CONSTANTS
  Users, Ids, None,            \* Catalog (as Providers and Models),
                               \* Secrets (as Requests), ToolCatalog (as Tools)
  Requests,                    \* AgentConfig, Catalog (as Calls),
                               \* CopilotTokens (as Callers), Skills, ToolCatalog
  OnbRequests, LastStep,       \* Onboarding
  Names, Defaults, Unused,     \* Catalog, CostLookup, Secrets
  Threads, MaxLookups, MaxEdits,
  Entries, Deletions, MaxAge,  \* SharedContext
  Agents, Protected, Unset,    \* AgentConfig, ToolCatalog
  Life, Margin, Timeout, MaxNow, MaxVersions   \* CopilotTokens

VARIABLES
  part,
  prov, model, catCall, catMet,                \* Catalog
  catalog, cache, thread, edits,               \* CostLookup
  state, disk, shown, request, slipped,        \* Onboarding
  entry, blobs, bucket, deletion, faults,      \* SharedContext
  file, doc, req, runner, cfgMet,              \* AgentConfig
  skill, skillReq, skillBoot, skillMet,        \* Skills
  tool, toolReq, toolBoot, toolset, bind, toolMet,   \* ToolCatalog
  store, secretReq, secretMet,                 \* Secrets
  version, cached, caller, holder, served, clock   \* CopilotTokens

ASSUME SecretsAssumption == None \notin Users /\ None # "REPLACE_ME" /\ None \notin Seq(Users \cup {"REPLACE_ME"})

ASSUME ContextAssumption == MaxAge \in Nat /\ MaxAge > 1

ASSUME TokenAssumption ==
  None \notin Requests /\ {Life, Margin, Timeout} \subseteq Nat /\ Margin < Life

ASSUME RequestsAssumption ==
  /\ IsFiniteSet(Requests) /\ {None, "seed", "disk"} \cap Requests = {}
  /\ Unset \notin Requests /\ None # Unset

ASSUME CostAssumption == MaxLookups \in Nat /\ MaxEdits \in Nat

K == INSTANCE Catalog WITH Providers <- Users, Models <- Ids, Calls <- Requests, call <- catCall, met <- catMet

ASSUME CatalogAssumption ==
  /\ IsFiniteSet(Users) /\ IsFiniteSet(Ids) /\ Defaults \subseteq Names
  /\ {None, Unused} \cap (K!ProviderDoc \cup K!ModelDoc) = {}

L == INSTANCE CostLookup
O == INSTANCE Onboarding WITH Requests <- OnbRequests

ASSUME OnboardingAssumption ==
  LastStep \in Nat /\ None \notin O!Steps /\ None \notin O!Answers /\ None \notin O!State

S == INSTANCE SharedContext WITH Calls <- Deletions
A == INSTANCE AgentConfig WITH met <- cfgMet

ASSUME NoneIsNoDoc == None \notin A!Doc

E == INSTANCE Secrets WITH Requests <- Users, req <- secretReq, met <- secretMet
P == INSTANCE CopilotTokens WITH Callers <- Requests

\* Two directories with one name, and one that does not load.
DirsDef ==
  {[dir |-> "a", name |-> "shipped", loads |-> TRUE], [dir |-> "b", name |-> "shipped", loads |-> TRUE],
   [dir |-> "c", name |-> "own", loads |-> FALSE]}

D == INSTANCE Skills WITH Names <- {"shipped", "own"}, Dirs <- DirsDef,
                          req <- skillReq, boot <- skillBoot, met <- skillMet
ASSUME NoneIsNoSkill ==
  None \notin [source : {"builtin", "custom"}, text : Requests \cup {"disk"}, grants : Requests \cup {"disk"}]

F == INSTANCE ToolCatalog WITH Tools <- Ids, Functions <- {"f"}, req <- toolReq, boot <- toolBoot, met <- toolMet

ToolRecord ==
  [of : {"f", "mcp"}, by : Requests \cup {"seed"}, on : BOOLEAN, switch : Requests \cup {"seed"}]

ASSUME NoneIsNoTool == {None, Unused} \cap ToolRecord = {} /\ None \notin {Unused, "seed", "f", "mcp", {}}

Symmetry == Permutations(Users) \cup Permutations(Ids) \cup Permutations(Requests)

catVars == <<prov, model, catCall, catMet>>
costVars == <<catalog, cache, thread, edits>>
onbVars == <<state, disk, shown, request, slipped>>
contextVars == <<entry, blobs, bucket, deletion, faults>>
cfgVars == <<file, doc, req, runner, cfgMet>>
skillVars == <<skill, skillReq, skillBoot, skillMet>>
toolVars == <<tool, toolReq, toolBoot, toolset, bind, toolMet>>
shelfVars == <<skillVars, toolVars>>
secretVars == <<store, secretReq, secretMet>>
tokenVars == <<version, cached, caller, holder, served, clock>>

Init ==
  /\ part \in {"catalog", "costs", "onboarding", "context", "config", "skills", "tools", "secrets", "tokens"}
  /\ K!CatalogInit /\ L!CostInit /\ O!OnbInit /\ S!ContextInit /\ A!CfgInit
  /\ D!SkillInit /\ F!ToolInit /\ E!SecretInit /\ P!TokenInit
  /\ part = "catalog" \/ \A m \in Ids : model[m] = Unused
  /\ part = "costs" \/ \A n \in Names : catalog[n] = None
  /\ part = "config" \/ file = Agents

Next ==
  \/ /\ part = "catalog" /\ K!CatalogNext
     /\ UNCHANGED <<part, costVars, onbVars, contextVars, cfgVars, shelfVars, secretVars, tokenVars>>
  \/ /\ part = "costs" /\ L!CostNext
     /\ UNCHANGED <<part, catVars, onbVars, contextVars, cfgVars, shelfVars, secretVars, tokenVars>>
  \/ /\ part = "onboarding" /\ O!OnbNext
     /\ UNCHANGED <<part, catVars, costVars, contextVars, cfgVars, shelfVars, secretVars, tokenVars>>
  \/ /\ part = "context" /\ S!ContextNext
     /\ UNCHANGED <<part, catVars, costVars, onbVars, cfgVars, shelfVars, secretVars, tokenVars>>
  \/ /\ part = "config" /\ A!CfgNext
     /\ UNCHANGED <<part, catVars, costVars, onbVars, contextVars, shelfVars, secretVars, tokenVars>>
  \/ /\ part = "skills" /\ D!SkillNext
     /\ UNCHANGED <<part, catVars, costVars, onbVars, contextVars, cfgVars, toolVars, secretVars, tokenVars>>
  \/ /\ part = "tools" /\ F!ToolNext
     /\ UNCHANGED <<part, catVars, costVars, onbVars, contextVars, cfgVars, skillVars, secretVars, tokenVars>>
  \/ /\ part = "secrets" /\ E!SecretNext
     /\ UNCHANGED <<part, catVars, costVars, onbVars, contextVars, cfgVars, shelfVars, tokenVars>>
  \/ /\ part = "tokens" /\ P!TokenNext
     /\ UNCHANGED <<part, catVars, costVars, onbVars, contextVars, cfgVars, shelfVars, secretVars>>

Spec == Init /\ [][Next]_<<part, catVars, costVars, onbVars, contextVars, cfgVars, shelfVars, secretVars,
                           tokenVars>>

-----------------------------------------------------------------------------
(* The parts' properties, under their own names.                           *)

\* CatalogService and price_sync, whatever requests overlap; usage.cost finds a
\* model that has a price.
CatalogStaysSound == (part = "catalog" => K!CatalogStaysSound) /\ (part = "costs" => L!CostsAreFound)

\* SkillRegistry and ToolCatalogService: what was stored, deleted or switched off
\* stands, through starts of the server as well.
ShelvesStand == (part = "skills" => D!SkillsStand) /\ (part = "tools" => F!ToolsStand)

\* OnboardingService: the interview goes forward and is filed rightly.
InterviewIsKept == O!InterviewIsKept

\* SharedContextService and BlobStore: the index and the blobs agree.
ContextIsWhole == S!ContextIsWhole

\* AgentConfigService: what was stored or deleted stands.
ConfigurationStands == A!ConfigurationStands

\* SecretManagerService and seed_secrets: secrets get their values.
SecretsAreWritten == E!SecretsAreWritten

\* CopilotTokenCache: tokens go out of use and are not exchanged in vain.
SessionTokensAreFresh == P!SessionTokensAreFresh
=============================================================================
