---------------------------- MODULE MC_Contracts ----------------------------
(***************************************************************************)
(* Parts whose promise is exact: the board and cron served one request at  *)
(* a time, the heartbeat loop, connections, memory, and what memory,       *)
(* routing, the construction of agents, the guardrails and the usage page  *)
(* compute.  A behaviour begins with a choice of the part that moves.  In  *)
(* the part "functions" it is one question: the inputs of one function.    *)
(***************************************************************************)
EXTENDS HeartbeatLoop, Connections, Memory, AgentBuild, Guardrails, Usage

CONSTANTS
  a1, a2, a3,                                        \* HeartbeatLoop's agents
  Tasks, Workers, Loops, Threads,                    \* Board
  Crons, Events, Triggers, Kinds, After, Faults, MaxFailures, MaxPeriods,  \* Cron
  Questions                                          \* what the functions may be asked

VARIABLES
  part,
  board, fresh, old, op, lastEvent,                              \* Board
  crons, freshCrons, exec, route, queue, target, unused, period, hist,  \* Cron
  query                                                          \* the question asked

\* Three agents, the last one disabled: a cadence shorter than a cycle,
\* phases that are unaligned, and a window that passes midnight.
MCOrder    == <<a1, a2, a3>>
MCInterval == [a \in Agents |-> IF a = a2 THEN 2 ELSE 3]
MCPhase    == [a \in Agents |-> IF a = a2 THEN 0 ELSE 1]
MCWindow   == [a \in Agents |-> IF a = a2 THEN [start |-> 4, end |-> 1]
                                          ELSE [start |-> 0, end |-> 5]]

B == INSTANCE Board WITH Agents <- Workers
C == INSTANCE Cron WITH Agents <- Workers, MaxNow <- MaxPeriods, now <- period

Symmetry == Permutations(Users) \cup Permutations(Ids) \cup Permutations(Calls)

boardVars == <<board, fresh, old, op, lastEvent>>
cronVars == <<crons, freshCrons, exec, route, queue, target, unused, period, hist>>

-----------------------------------------------------------------------------
(* What a question is about: the shape of the inputs that each function has *)
(* in the program.                                                         *)

IsList(s) == s \in Seq(Range(s))

\* Memories as recall returns them.
AreMemories(ms) ==
  IsList(ms) /\ \A k \in DOMAIN ms : IsList(ms[k].topics) /\ {ms[k].importance, ms[k].score} \subseteq Int

\* Pieces of the stream of a turn.
AreEvents(events) ==
  IsList(events) /\ \A k \in DOMAIN events : {events[k].tin, events[k].tout} \subseteq Nat /\ IsList(events[k].calls)

\* References: None and the empty text are none.
AreModels(usable) == usable \cap {None, ""} = {}

\* The knowledge that a file or an override grants.
Grants(knowledge) == knowledge = None \/ knowledge \in BOOLEAN

QuestionOK(q) ==
  /\ q.of = "recall" => IsList(q.a) /\ IsList(q.u) /\ q.k \in Nat
  /\ q.of = "prompt" => AreMemories(q.ms)
  /\ q.of = "candidates" => AreMemories(q.rs)
  /\ q.of = "prune" => AreMemories(q.ms) /\ q.max \in Nat
  /\ q.of = "text" => q.text \in Seq(RawLine)
  /\ q.of = "resolve" =>
       /\ IsList(q.name) /\ IsList(q.ps) /\ IsList(q.ms)
       /\ \A k \in DOMAIN q.ps : q.ps[k].enabled \in BOOLEAN
       /\ \A k \in DOMAIN q.ms : q.ms[k].enabled \in BOOLEAN /\ IsList(q.ms[k].id)
  /\ q.of = "sign" => q.p.copilot \in BOOLEAN
  /\ q.of = "rules" => {q.s.nemotron, q.s.openrouter} \subseteq BOOLEAN /\ IsList(q.ms)
  /\ q.of = "tools" =>
       /\ IsList(q.wired) /\ IsList(q.chosen)
       /\ \A t \in Range(q.wired \o q.chosen) : t.mcp \in BOOLEAN
  /\ q.of = "pages" => (q.doc # None => q.doc.heartbeat # Fails)
  /\ q.of = "fallbacks" =>
       /\ AreModels(q.usable)
       /\ q.doc # None => IsList(q.doc.fallbacks)
  /\ q.of = "profile" =>
       /\ q.front \in BOOLEAN
       /\ q.file # None => Grants(q.file.knowledge)
       /\ q.doc # None => Grants(q.doc.knowledge)
  /\ q.of = "answer" => q.answer.size \in Nat
  /\ q.of = "turn" => AreEvents(q.events)
  /\ q.of = "transcript" =>
       /\ IsList(q.asked) /\ AreEvents(q.events) /\ IsList(q.names) /\ IsInjective(q.names)
       /\ \A k \in DOMAIN q.events : Author(q.events[k]) \in Range(q.names)
  /\ q.of = "page" =>
       /\ IsList(q.rs) /\ q.top \in Nat
       /\ \A k \in DOMAIN q.rs :
            /\ q.rs[k].kind \in UsageKind /\ q.rs[k].cost \in Nat \cup {None}
            /\ q.rs[k].kind = "model" \/ q.rs[k].cost = None
  /\ q.of = "recent" => IsList(q.rs) /\ q.limit \in Nat

ASSUME QuestionsAssumption == \A q \in Questions : QuestionOK(q)

NoQuestion == [of |-> "nothing"]

Ask == query = NoQuestion /\ query' \in Questions

-----------------------------------------------------------------------------
(* The inputs of an instance.                                              *)

\* A question with a phone number in it and its answer, and a blank question.
MCTexts ==
  {<<[speaker |-> "User", token |-> {"phone"}], [speaker |-> "Agent", token |-> {}]>>,
   <<[speaker |-> "User", token |-> Blank]>>}

\* Memories whose fact tells their place, so that no two are alike.
Placed(ms) == [k \in DOMAIN ms |-> [fact |-> <<"f", "g", "h">>[k]] @@ ms[k]]

Hits(score) ==
  SeqOf([fact : {"", "f", "g"}, topics : {<<>>}, importance : {1}, score : {score}], 2)

Memories ==
  SeqOf([topics : {<<>>, <<"t">>, <<"general">>}, importance : 1 .. 2, score : {0}], 3)

Records ==
  SeqOf([topics : {<<"absent">>, <<>>, <<"", "t">>, <<"t">>}, topic : {"", "t"}, importance : {1}, score : {0}], 3)

Ranked == SeqOf([topics : {<<>>}, importance : 1 .. 2, score : 0 .. 1], 3)

Lines ==
  SeqOf([speaker : {"User", "Agent", ""}, token : {Blank, {}, {"phone"}, {"phone", "credit_card"}}], 2)

\* Providers differ in their ids.
Providers ==
  {[k \in DOMAIN ps |-> [id |-> <<"p", "q">>[k]] @@ ps[k]] :
     ps \in SeqOf([name : {<<"P">>, <<"Q">>}, enabled : BOOLEAN, kind : {"openai"}, copilot : {FALSE}], 2)}

Models == SeqOf([provider : {"p", "q"}, id : {<<"m">>, <<"a", "m">>}, enabled : BOOLEAN], 2)

References == {<<>>, <<"m">>, <<"P", "m">>, <<"Q", "m">>, <<"a", "m">>, <<"P", "a", "m">>}

OneProvider == [id |-> "p", name |-> <<"P">>, enabled |-> TRUE, kind |-> "openai", copilot |-> FALSE]

ProviderOf(kind, copilot) == [OneProvider EXCEPT !.kind = kind, !.copilot = copilot]

OneModel == [provider |-> "p", id |-> <<"m">>, enabled |-> TRUE]

File(model, heartbeat, knowledge) ==
  [body |-> "b", model |-> model, heartbeat |-> heartbeat, knowledge |-> knowledge]

Override ==
  [prompt |-> None, body |-> None, primary |-> None, fallbacks |-> <<>>, heartbeat |-> None, knowledge |-> None,
   standalone |-> FALSE, allow |-> {}, deny |-> {}, agents |-> None, skills |-> None]

Fallbacks == SeqOf({"md", "fb", "fc"}, 2)

OfMemory ==
  {[of |-> "recall", a |-> a, u |-> u, k |-> k] : a \in Hits(2), u \in Hits(1), k \in 1 .. 2}
  \cup {[of |-> "prompt", ms |-> Placed(ms)] : ms \in Memories}
  \cup {[of |-> "candidates", rs |-> Placed(rs)] : rs \in Records}
  \cup {[of |-> "prune", ms |-> Placed(ms), max |-> max] : ms \in Ranked, max \in 1 .. 2}
  \cup {[of |-> "text", text |-> text] : text \in Lines}

OfRouting ==
  [of : {"resolve"}, name : References, ps : Providers, ms : Models]
  \cup [of : {"sign"}, p : {ProviderOf(kind, copilot) :
          kind \in {"anthropic_oauth", "custom_openai", "google_gemini", "openai", "vertex_ai"}, copilot \in BOOLEAN},
        key : {None, "old"}, new : {None, "new"}]
  \cup [of : {"rules"}, s : [gemma : {"served", "absent"}, nemotron : BOOLEAN, openrouter : BOOLEAN],
        agent : [manager : {"", "orchestrator", "workspace", "dev", "comms"}, words : SUBSET {"code", "search", "draft"}],
        ms : {<<>>, <<OneModel>>}]

OfConstruction ==
  [of : {"pages"},
   file : {None} \cup {File(m, hb, None) : m \in {None, "mf", Fails}, hb \in {None, "on", "off", Fails}},
   doc : {None} \cup {[Override EXCEPT !.prompt = p, !.body = b, !.primary = m, !.heartbeat = hb] :
                         p \in {None, "", "p"}, b \in {None, "", "d"}, m \in {None, "", "md"},
                         hb \in {None, "on", "off"}}]
  \cup [of : {"tools"}, wired : SeqOf([name : {"a", "b"}, id : {1}, mcp : BOOLEAN], 2),
        chosen : SeqOf([name : {"a", "b"}, id : {1, 2}, mcp : BOOLEAN], 2),
        doc : {None} \cup {[Override EXCEPT !.allow = a, !.deny = d] : a \in {{}, {"a"}}, d \in {{}, {"a"}, {"b"}}}]
  \cup [of : {"fallbacks"}, file : {None, File(None, None, None), File("mf", None, None)},
        doc : {None} \cup {[Override EXCEPT !.primary = m, !.fallbacks = fs] : m \in {None, "", "md"}, fs \in Fallbacks},
        usable : SUBSET {"mf", "md", "fb", "fc"}]
  \cup [of : {"profile"}, front : BOOLEAN, file : {None} \cup {File(None, None, k) : k \in {None, TRUE, FALSE}},
        doc : {None} \cup {[Override EXCEPT !.knowledge = k] : k \in {None, TRUE, FALSE}}]

Turns ==
  SeqOf([author : {"", "sub"}, tin : 0 .. 1, tout : {0, 2}, model : {None, "m"}, calls : {<<>>, <<"t">>}, text : {""}], 2)

Talks ==
  SeqOf([author : {"", "sub"}, tin : {0}, tout : {0}, model : {None}, calls : {<<>>, <<"t">>},
         text : {"", "first", "second"}], 3)

\* Only calls of a model have a cost.
Page ==
  SeqOf({r \in [kind : {"model", "tool"}, name : {"m", "n"}, cost : {None, 1}, hour : 0 .. 1] :
           r.kind = "model" \/ r.cost = None}, 3)

OfAccounts ==
  [of : {"answer"}, answer : [has : SUBSET {"email", "toxic"}, size : 0 .. 2],
   default : {"strict", "loose", "off", "unknown"}, name : {"strict", "loose", "off", "unknown"},
   fate : [{"pii", "toxicity", "length"} -> Fates]]
  \cup [of : {"turn"}, events : Turns, ok : BOOLEAN]
  \cup [of : {"transcript"}, asked : {<<>>, <<"first", "second">>}, events : Talks, names : {<<"root", "sub">>}]
  \cup [of : {"page"}, rs : Page, top : 1 .. 2]
  \cup {[of |-> "recent", limit |-> limit, rs |-> [k \in DOMAIN kinds |-> [kind |-> kinds[k], place |-> k]]] :
          kinds \in SeqOf({"model", "tool"}, 7), limit \in 1 .. 2}

MCQuestions == OfMemory \cup OfRouting \cup OfConstruction \cup OfAccounts

-----------------------------------------------------------------------------
AllInit ==
  /\ part \in {"loop", "connections", "board", "cron", "memory", "functions"}
  /\ Init /\ ConnInit /\ B!Init /\ C!Init /\ MemInit /\ query = NoQuestion
  /\ part = "memory" \/ backend = "custom"

AllNext ==
  /\ UNCHANGED part
  /\ \/ part = "loop" /\ Next /\ UNCHANGED <<connVars, boardVars, cronVars, memVars, query>>
     \/ part = "connections" /\ ConnNext /\ UNCHANGED <<loopVars, boardVars, cronVars, memVars, query>>
     \/ part = "board" /\ B!SerialNext /\ UNCHANGED <<loopVars, connVars, cronVars, memVars, query>>
     \/ part = "cron" /\ C!SerialNext /\ UNCHANGED <<loopVars, connVars, boardVars, memVars, query>>
     \/ part = "memory" /\ MemNext /\ UNCHANGED <<loopVars, connVars, boardVars, cronVars, query>>
     \/ part = "functions" /\ Ask /\ UNCHANGED <<loopVars, connVars, boardVars, cronVars, memVars>>

AllSpec == AllInit /\ [][AllNext]_<<part, loopVars, connVars, boardVars, cronVars, memVars, query>>

-----------------------------------------------------------------------------
(* The properties of the functions, and those of Board and Cron under      *)
(* their own names.                                                        *)

\* Board, one request at a time: it implements TaskLifecycle and tells of it.
BoardIsExact == B!BoardIsExact

\* Cron, one request at a time: counters, one-shots and cooldowns are exact.
CountsAreExact == C!CountsAreExact

\* The memory backends: recall, prompt, consolidation and redaction.
MemoryTextIsExact ==
  /\ query.of = "recall" => MergeIsExact(query.a, query.u) /\ BackendsRecallAlike(query.a, query.u, query.k)
  /\ query.of = "prompt" => PromptShowsAll(query.ms)
  /\ query.of = "candidates" => CandidatesAreShown(query.rs)
  /\ query.of = "prune" => PruneKeepsTheBest(query.ms, query.max)
  /\ query.of = "text" => ScrubIsComplete(query.text) /\ BackendsSendAlike(query.text)

\* The agent that runs is the one the configuration describes, and its calls go to
\* a model that is in use.
AgentsAreAsConfigured ==
  /\ query.of = "resolve" => ResolvesToWhatIsInUse(query.name, query.ps, query.ms)
  /\ query.of = "sign" => CallsAreSignedOnce(query.p, OneModel, query.key, query.new)
  /\ query.of = "rules" => RulesHaveEndpoints(query.s, query.agent, <<OneProvider>>, query.ms)
  /\ query.of = "pages" => PagesShowWhatIsBuilt(query.file, query.doc)
  /\ query.of = "tools" => ToolsAreFiltered(query.wired, query.chosen, query.doc)
  /\ query.of = "fallbacks" => FallbacksAreTried(query.file, query.doc, query.usable)
  /\ query.of = "profile" => ProfileStaysPrivate(query.front, query.file, query.doc)

\* What an agent answered is checked before it goes out, and accounted for as it was.
AnswersAreAccounted ==
  /\ query.of = "answer" =>
       /\ BlocksWhatItSees(query.default, query.name, query.answer, query.fate)
       /\ PassMeansChecked(query.default, query.name, query.answer, query.fate)
       /\ StrictIsStricter(query.answer, query.fate)
  /\ query.of = "turn" => TokensAreAccounted(query.events, query.ok) /\ WorkIsAttributed(query.events, query.ok)
  /\ query.of = "transcript" => TranscriptIsRedacted(query.asked, query.events, query.names)
  /\ query.of = "page" => TotalsAgree(query.rs, query.top)
  /\ query.of = "recent" => RecentIsNewest(query.rs, "tool", query.limit)
=============================================================================
