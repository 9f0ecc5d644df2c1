# G.C.L.A.W.: TLA+ models, TLC runs and TLAPS proofs

G.C.L.A.W. is an assistant built from several agents: an API server with a kanban board, scheduled
work ("crons"), periodic wake-ups of the agents ("heartbeats") and a catalog of model providers, with
Firestore as its store. This directory models the parts of it whose correctness depends on the order
in which things happen, and the pure algorithms on which the agents' memory, models and construction rest. Paths below are relative to `src/gclaw/` unless they start otherwise.

- `*.tla`: specifications (one per component), compositions, proofs (`...Proofs`) and instances for TLC
  (`MC_...`, with the claims that the code does not keep).
- `*.cfg`: one TLC run each.
- `PROJECT.json`: the index: components, runs, the line ranges that each definition translates,
  hazards, findings, theorems, and for each property a wrong variant (`Slip_...`) that breaks it.

To check: `tlc -config <run>.cfg <module>` and `tlapm <module>.tla`.

## 1. How the system runs

The facts that decide what can interleave, and which all the modules share:

- **One process, one event loop.** The API is FastAPI on one asyncio loop (`main.py`, `api/app.py`).
  A coroutine runs undisturbed from one `await` to the next. Tools of agents are plain functions called
  on the loop: nothing else runs on it while one of them talks to Firestore.
- **Worker threads.** A route that is a plain `def` runs in a worker thread, next to the loop and to
  other routes. It can be interrupted between any two calls to Firestore.
- **Whole documents, no transactions.** A repository reads a document, the service changes a copy, and
  the repository sets the whole document (`firestore/*_repo.py`). Two writers of one document can lose
  an update, and an update after a deletion creates the document again.
- **Failures are mostly swallowed.** Events, deliveries, queue writes and status updates are "best
  effort": an exception is logged and the operation goes on.
- **The process may die at any time** (Cloud Run) and starts again with Firestore's state only.

## 2. Inventory

| Component | State | Operations | Interacts with |
|---|---|---|---|
| Board (`board/`, `models/task.py`, board tools of `agents/orchestrator.py`, `api/board_routes.py`, `api/admin_routes.py`) | task documents | create; get with auto-pickup; complete; fail; move, approve, reject; force-fail; sweep; delete, bulk delete | every agent; crons create tasks; emits live events |
| Cron (`cron/`, `models/cron.py`, `api/cron_routes.py`) | cron documents with error counters | create, patch, toggle, delete; execute with dispatch, delivery and alert | board, event queue, delivery transports |
| Heartbeat (`heartbeat/service.py`, `context.py`, `events.py`, `firestore/cron_event_queue_repo.py`) | event queue; cycles in flight; bus with the latest status | cycle: drain, gates, gather, run the agent, log, mark drained; manual trigger | reads all crons and the board; runs the agent |
| Heartbeat loop (`heartbeat/scheduler_loop.py`, `schedule.py`) | due times, in memory | start, pass over the agents, stop | awaits each cycle |
| OAuth credentials (`catalog/oauth_tokens.py`, `oauth_refresh_loop.py`, `api/secrets_routes.py`, `catalog/service.py` `resolve_api_key`) | secret; cache; a lock per path; tracked paths | tick, refresh-now, resolve through a worker thread, paste, rotate | Secret Manager, token endpoint; every model call |
| Turns and sessions (`dispatch/`, `api/chat.py`, `session/`, `firestore/session_repo.py`, the sweep in `heartbeat/service.py`) | active user and session, fields of services that all turns share; session documents | a turn: prepare, call models down the fallback chain, guardrail, mirror; end of a session by the route or by the sweep | all tools; heartbeats run turns; memory service |
| Connections (`connection/`) | a record in each of two users' collections | request, accept, reject, revoke, change of permission, peer task | board |
| Live feeds (`observability/run_registry.py`, `user_event_registry.py`, `api/dashboard_routes.py`, `api/events_routes.py`) | bounded queues per session and per user, with counts of subscribers | put (drops the oldest), subscribe, unsubscribe, the two streams | every span; routes and tools that emit |
| Agent runs (`observability/live_span_processor.py`, `firestore/agent_runs_repo.py`) | a document per session and one per turn | end of a span: throttle, merge, running total | live feeds, cost lookup |
| BigQuery writer (`observability/bq_analytics.py`) | buffer of rows, tasks, threads | enqueue, flush with a timeout, shutdown | BigQuery |
| Prompt log (`observability/prompt_log.py`) | pool of workers, one client | end of a span: redact, submit; upload | Cloud Storage |
| Model catalog (`catalog/service.py`, `presets.py`, `models/price_sync.py`, `api/catalog_routes.py`) | provider and model documents | CRUD with cascade, seeding, price sync | cost lookup, OAuth, routing |
| Cost lookup (`usage/cost.py`) | a cache of rates | look up, refresh | catalog; usage, agent runs, BigQuery rows |
| Onboarding (`onboarding/`) | interview document, profile on disk | start, advance, compile | an LLM with a timeout |
| Shared context (`shared_context/`) | entries and blobs | write, read, delete, expiry by the bucket | agents |
| Memory (`memory/`) | an external bank | capture, extraction at the end of sessions, recall, consolidation, wipe | turns, sessions, prompts |
| Agent configuration (`config/`, `dispatch/runner_registry.py`, `api/admin_routes.py`) | one override document per agent; runners built once | create, patch, delete; build a runner | agent construction |
| Agent construction and model routing (`config/loader.py`, `agents/factory.py`, `routing/`, `catalog/model_resolver.py`, `catalog/adk_builder.py`) | none | what prompt, model, tools, delegates and chain of models an agent gets | turns, configuration, catalog |
| Secrets and Copilot tokens (`catalog/secret_manager.py`, `migrate/seed_secrets.py`, `catalog/copilot_tokens.py`) | versions of secrets; a cache of session tokens | write, rotate, seed; exchange | providers |
| Skills (`skill/`, `api/skill_routes.py`) | skill documents | register what ships at start; create, patch, delete | agent construction |
| Tool catalog (`tools/catalog/`, `tools/mcp/`, `api/tool_routes.py`) | tool documents; toolsets of MCP servers, in memory | seed at start; create, update, delete; bind to an agent | agent construction, MCP servers |
| Guardrails (`guardrails/`) | none | the validators of a profile, and their verdict on an answer | every turn |
| Usage accounting (`usage/`, `dispatch/runner.py`, `api/usage_routes.py`) | usage records, transcripts | what a turn records; the usage page | turns, cost lookup |
| Authentication, voice, evaluation, CLI, web client | single documents or nothing | adapters | - |

**What is hard in each, and what makes it correct.**

- *Board.* Tools on the loop race with routes in threads, and one tool chains several
  get-decide-set steps (`complete` picks a task up, then completes it). Correct means: a status moves
  along the tables of `models/task.py` and `board/transitions.py`; a completion follows started work;
  a work summary belongs to DONE; an abandoned task is released; live events tell what happened.
- *Cron.* An execution holds the copy it read across the dispatch and the awaited delivery, while edits
  and other executions write the document. Correct means: counters and alerts follow the failures,
  a one-shot fires once, an edit is not undone.
- *Heartbeat and its queue.* A cycle may fail after its drain, overlap with a manual trigger, or die.
  Correct means: no event is lost before a run that was given it has succeeded, no event goes to
  another agent, and each is handled in the end.
- *Heartbeat loop.* Agents are served in turn by one coroutine that awaits whole runs. Correct means: a
  tick is not replayed, no agent is starved, a wake-up falls into the agent's active hours.
- *OAuth.* A refresh token that rotates may be used once; loop, routes and resolves compete for it over
  two event loops and an unreliable store. Correct means: a rotated token is not presented again, a
  replaced token is not served, renewal and resolution happen.
- *Turns and sessions.* The active user is a field of a shared service, written before the awaits of a
  turn; a fallback model repeats a turn whose tools have acted; sessions are read and written whole, around
  an awaited extraction. Correct means: tools, messages and memories of a turn belong to its user; an exchange
  is recorded whole, once, and only if it was answered; history is not lost; what is ended was extracted.
- *Connections.* Two records of one connection, written one after the other; check, then write.
- *Live feeds.* Subscribers share a queue; queues drop their oldest entries; worker threads put into a channel
  that they looked up earlier. Correct means: every event goes to one client, in order, or is counted as lost
  for a reason; streams stay on the channel that events are put into; idle channels go.
- *Agent runs.* Spans of parallel sub-agents end on several threads and merge into the same two documents.
  Correct means: the running totals are exact, tokens are not blanked, every turn has a start.
- *BigQuery writer.* A flush that times out goes on in its thread; rows come in during shutdown. Correct means:
  every row is in one place, a full buffer is flushed, what a shutdown leaves came late.
- *Prompt log.* Redaction may fail; workers race to make one client; the pool is shut down over a queue.
- *Catalog and cost lookup.* Cascades, whole-document edits, the price sync and the seeding overlap; any unknown
  name empties a cache that other threads read. Correct means: orphans, lost edits, missed prices and unknown costs
  need an overlap.
- *Onboarding.* A retry after a timeout, a question saved but not shown. Correct means: answers stay with their
  questions, the profile is of the stored answers, the interview goes forward.
- *Shared context.* Two stores without a transaction, and a bucket that deletes by age.
- *Memory.* Captures nobody waits for, against a wipe that lists and then deletes. Correct means: nothing that a
  pattern matches is stored, what was wiped stays gone, recall neither doubles nor drops a fact.
- *Configuration, construction, routing.* Read, change and write back; three readers that each merge the file with
  the override. Correct means: a patch stands, the pages show what is built, a reference resolves to a model in use.
- *Skills and tool catalog.* Starts seed next to what administrators stored; requests meet; a toolset outlives the
  record it was built from. Correct means: an edit survives a start, what is deleted or switched off stays so, nothing is
  seeded twice, a badge is true.
- *Guardrails and usage.* A validator that fails must not hide what the others see; a turn of several agents comes as one
  stream of events. Correct means: tokens and calls are booked once and under the right agent, no transcript holds what was to be
  redacted, totals and series agree.
- *Secrets and Copilot tokens.* Look, create and add in three calls; a double-checked lock around an exchange.

`PROJECT.json` lists these hazards at the lines where they bite, with the properties that cover them.

## 3. The modules

```
TaskLifecycle <--implements-- Board <-- BoardProofs, MC_Board
EventDelivery <--implements-- Heartbeat <-- DeliveryProofs
      ^                           |
      +-----implements------- Proactive (Cron + Heartbeat) <-- ProactiveProofs, MC_Proactive
                                  |
                                 Cron <-- CronProofs, MC_Cron
OAuthTokens <-- OAuthProofs, MC_OAuthTokens
Turns       <-- TurnProofs, MC_Turns

MC_Telemetry: LiveFeeds | AgentRuns | BatchWriter | PromptLog <-- TurnProofs (its second half)
MC_Services:  Catalog | CostLookup | Onboarding | SharedContext | AgentConfig | Secrets
              | CopilotTokens | Skills | ToolCatalog <-- ServiceProofs
MC_Contracts: Board and Cron, one request at a time | HeartbeatLoop | Connections | Memory
              | functions of MemoryText, AgentBuild (over ModelRouting), Guardrails and Usage
              <-- ContractProofs (board and crons: BoardProofs, CronProofs)
Lists: what the functions make of sequences (choosing, keeping, the first of each key)
```

`MC_Telemetry`, `MC_Services` and `MC_Contracts` check components that share no state. Their variable `part` is chosen
in the initial state and says which component moves, so that the state spaces are added, not multiplied, and each component's properties
are checked on its own behaviours.

**Board.** `board[t]` is the document or `None`; `op[p]` the operation that an event loop or a worker
thread is executing, with the copy it read (`seen`), the document it will set (`pending`) and what
follows (`then`). Each action is one call to Firestore, or one event, with the decision after it, so
everything may happen between the read and the set of an operation by another process. `fresh` are ids
never drawn, `old` the tasks whose `updated_at` is outside the sweep's window, `lastEvent` what the live
views heard last. `CreateTask`, `GetBoardTask`, `CompleteBoardTask`, `FailBoardTask`, `MoveStatus`,
`Approve`, `Reject`, `ForceFail`, `SweepStalled`, `DeleteTask` and `BulkDelete` begin an operation;
`PickUp`, `Complete`, `Fail`, `Delete`, `RepoUpdate`, `RepoDelete` and `Emit` carry it on.
`RequestApproval` is the writer of NEEDS_APPROVAL that `board/transitions.py:31-32` names and that no
file implements. Left out: titles, comments, priorities and time stamps except the age.

**TaskLifecycle.** What the board promises of a task: created once, moved along the tables, DONE never
left, never back after its deletion.

**Cron.** `exec[x]` is an execution with the copy it carries across its awaits, `route[h]` an edit in a
thread, `hist` what really happened to a cron (for the properties only). `Trigger`, `DispatchTask`,
`DispatchEvent`, `WriteRun`, `Delivered`, `WriteFailure` and `AlertSent` are the stretches
of `execute`; `Create`, `Update`, `Toggle`, `PauseOrResume`, `RouteWrite` and `Delete` the routes. The
kinds of cron are task, event, now and malformed: a PATCH stores any fields, and a document that does
not parse fails every listing of crons. Left out: the schedule (nothing in the process evaluates it, an
external scheduler calls the trigger route) and the content of messages.

**Heartbeat** and **EventDelivery.** `queue`, `target` and `unused` are the event queue; `cycle[p]` the
cycle of the loop or of a manual trigger. `Skip`, `GatherFails`, `NothingToDo` and `CallAgent` are the
outcomes of the stretch up to the awaited run; `AnswerOk`, `AnswerInFull`, `AgentFails` and `Tidied` the
rest. `EventDelivery` is the abstract at-least-once queue: pending, handled, gone.

**HeartbeatLoop.** The loop's passes with their single clock reading, due times, cycles of any length up
to a bound, stop and restart, with the integer arithmetic of `compute_next_due_ms` and the window of
`is_within_active_hours`. The phase, a hash modulo the interval, is a constant.

**Proactive.** `Cron` and `Heartbeat` on one queue and one event loop: a cycle moves only while no
execution holds the loop, and the gather of every cycle lists every cron.

**OAuthTokens.** One path. `secret` is the latest version, `cache` the manager's entry, `lock` the
asyncio lock with its holder, its waiters and the loop it bound itself to, `op[t]` the operation of the
refresh loop, of a refresh-now request or of the worker thread that a resolve starts. A coroutine of the
main loop moves only while no resolve blocks that loop (`Runs`); calls to Secret Manager and to the
endpoint end at any time (`ReadSecret`, `Exchange`, `WriteSecret`). Access tokens are numbered as they are
issued, so that old and new tokens can be told apart.

**Turns.** `active` is the context (user and session) that the last turn to start has written into the shared
services. `turn[t]` is a turn of the chat route or of a heartbeat: preparing (recall, ADK session), at its
model, at the guardrail, or over. While it is at its model its tools take their user from `active`
(`ToolContext`); what they do there is module `Board`. `Mirror` is the one stretch without an await that looks
for the session, creates it and appends the exchange, each under the user that the code uses for it. `closer[c]`
is an end of sessions: the route (`EndChat`) or the sweep of a heartbeat (`Sweep`), with the copy it holds
while memories are extracted; until it awaits, no other coroutine moves (`LoopFree`). `crossed[t]` are the
contexts that came to be active while `t` ran, for the properties only. Left out: texts, time stamps (any active
session may be stale), the per-turn memory capture, transcripts and usage records, which name their user.

**LiveFeeds.** `reg` holds both registries: the channel of each key, its queue, its count of subscribers, and, for the
properties, where events ended. `tab[b]` is a stream (opening, waiting, sending), `emit[h]` a put of a worker
thread between its look at the registry and its use of what it found; on the event loop a put is one step.

**AgentRuns.** `span[s]` is a span with the progress of its `on_end` and `upsert`; the three calls to the store are
`Session`, `LookTurn` and `Turn`, each of which may fail, on threads that interleave.

**BatchWriter.** `batches[w]` are the rows that a task (periodic, asked for, or the shutdown's) has taken: waited
for, left to their thread after the timeout, written or failed.

**PromptLog.** `blob[b]` is one of a span's two uploads, from its redaction to its end; `client` and `lock` are the lazily
made client and its lock.

**Catalog.** `prov` and `model` are the documents, reduced to what operations treat differently, with the calls that wrote
them; `call[c]` is a request between its reads and its writes. **CostLookup** is one lookup per step of its refresh.

**Onboarding.** `state` is the stored interview, `shown` the question that the user saw, `request[r]` a request that awaits
the agent. An answer is named by the question it answers, so a wrong filing is visible.

**SharedContext.** `entry[e]` is the writer and the document, `blobs[e]` the age of the blob, `bucket` what the bucket is and
what the process believes of it (`ready`), `deletion[c]` a deletion of one entry or of several.

**Memory** and **MemoryText.** `bank` (external) is what was stored, `capture[c]` and `wipe[w]` the calls in flight. What is
sent is computed by `MemoryText`: recall of both backends, prompt, consolidation, redaction, and the parsing of a
conversation, as functions over tokens that carry the categories of personal data they match.

**AgentConfig**, **AgentBuild** and **ModelRouting.** `doc[a]` is the override, each field the request that wrote it; `req[r]` a
request between its read and its write; `runner[a]` the agent built from it. The two others are functions: what the
loader, the factory and the pages make of a file and an override, which model a reference resolves to and
with which credentials it is called, and the rules of the router.

**Secrets** and **CopilotTokens.** `store[n]` are the versions of a secret, `req[r]` a write, a rotation or a seeding between
its calls. `cached`, `holder` and `caller[c]` are the token cache, its lock and its callers; `version` says when the
GitHub token was replaced. `resolve_api_key`, today's one caller, blocks the event loop and so never overlaps with itself;
the model checks the class for the concurrent callers it was written for.

**Skills.** `skill[n]` is a document whose fields name their writer, `req[r]` a request with the copy it read, `boot` the
directories that a start has yet to load. Left out: parsing, and the text of a skill.

**ToolCatalog.** `tool[t]` is a record, `boot` what a start has yet to seed, `toolset[t]` the cache of the MCP manager and
`bind[a]` the tool that an agent was built with. Left out: names and descriptions, and the connection
itself.

**Guardrails** and **Usage.** Functions: the verdict of a profile on an answer, given what becomes of each validator; the
records and the transcript of a stream of events, the lists, rows and series of the page. What a verdict does to the turn
is in `Turns`.

**Connections.** `record[u][i]` are the two documents of a connection, `call[c]` a request between its two writes, `tasks`
the requests that put a task on the peer's board.

## 4. The runs

Every run but the three `claim_` runs must pass.

| Run | Question | Bounds |
|---|---|---|
| `board_races` | do a tool and a route that race keep documents coherent, and is an abandoned task released? | 1 task, 2 agents (an assignee and another), 1 loop and 1 thread |
| `cron_races` | what can two executions and an edit in flight do to counters, alerts and edits? | 1 cron, 2 triggers, 1 thread, alert after 2 of at most 2 failures |
| `heartbeat` | is any event lost, strayed or never handled, with all faults, a manual trigger and crashes? | 2 agents (1 with active hours), 2 events, 1 loop, 1 trigger |
| `proactive` | does a cron's firing reach its agent, end to end? | 1 cron, 2 agents (1 without heartbeat), 1 event |
| `oauth` | are tokens spent, served and renewed rightly, and does a resolve end? | 3 tokens, 1 failure, 1 refresh-now request |
| `turns` | whose board, history and memories does a turn touch, and what can lose or split a history? | 2 users, 2 session ids, 3 turns, 1 closer, 1 fallback model, all faults |
| `telemetry` | does what ends with a span arrive: live, in the documents of runs, in BigQuery, in the prompt log? | 1 session and 1 user, 2 streams, 1 emitting thread, queues of 1, 2 events per key; 2 spans of 2 turns; 3 rows, buffer of 2; 2 spans of 2 uploads, 2 workers |
| `services` | which losses, orphans and stale writes can overlaps and failures cause, and no others? | 2 providers, 2 models, 3 requests; 2 lookups by each of 2 threads over 1 edit; 3 steps, 5 requests; 2 entries; 2 agents, 3 requests; 2 secrets, 2 requests; 3 callers, a token of life 3; 2 skills, 3 directories, 3 requests, restarts; 2 tools, 1 exported function, 3 requests, 2 agents |
| `contracts` | served one at a time, do board and cron keep their exact promises; is a tick ever replayed or an agent starved; do two records agree; do the functions match their definitions? | 2 tasks, 2 agents; 1 cron (task, event or malformed), 4 failures, 2 periods; 3 agents (1 disabled), intervals 2 and 3, cycles up to 2, clock up to 16 (a "day" is 6); 2 users, 2 connections, 4 requests; 2 captures, 2 wipes; sequences up to 3 memories, 2 lines, 2 providers, 2 models; every fate of 3 validators; 2 events of a turn, 3 of a talk, pages of 3 records |
| `claim_event_picked_up` | finding, see section 6 | as `proactive`, without faults of the cron |
| `claim_resolve_answers` | finding | as `oauth`, 2 tokens |
| `claim_turn_user` | finding | 2 users, 1 session id, 3 turns, no failures |

*Composite properties.* Most properties of the merged runs, and a few of the others, are conjunctions defined at the end of
the component's module (`RowsAreAccountedFor`, `CatalogStaysSound`): one per component, of its type invariant, its
invariants, its action properties and its liveness, each of which is a definition of its own with its comment. Where a theorem
states one (`LoopKeepsTime`, those of `telemetry`), liveness is left to a property of its own: `WhatWaitsIsServed` holds that of
the three parts of `telemetry` that have any. Each conjunct has its wrong variants in `PROJECT.json`.

*Why the bounds are enough.* A lost update needs two actors on one document; `board_races` has the loop
and a thread, and its safety properties are also proved for any number. Overlap of cycles needs two
cycles of one agent; strays need two agents; an event drained by one cycle and enqueued during another
needs two events. A replayed tick needs two passes with cycles that outlast an interval; the day of 6 and
the clock of 16 let windows and midnight pass twice. A second use of a rotated token needs three tokens
(the old one, its successor, and one more issued by a paste or a second exchange). To lose a history takes three
turns: one that wrote it, one that is overtaken, and the other user's that overtakes it; a sweep that goes on under
another user takes two session ids. An overlap takes two requests, and a third shows what stands afterwards, so the parts of
`services` have three; a lost cascade takes two models; the cache of costs takes two threads and one edit.
A queue of 1 overflows with 2 events, a buffer of 2 with 3 rows. The functions of `contracts` are compared with their
reference definitions on every input up to the bound; a fault in an order, a cut or a doublet shows with 2 or 3 elements. Turns and session ids are interchangeable, so `turns` uses symmetry. Each wrong variant
`Slip_...` breaks its property within these bounds, which is the evidence that the interesting case
occurs. Bounds on counters (`MaxFailures`, `MaxNow`, `MaxFaults`, `MaxToken`, `MaxRun`) are constants that the
guards name.

*Deadlock* is checked in every run but the two of `OAuthTokens`, where the process really may freeze
(section 6), and those whose requests are made once and are then used up: `claim_turn_user`, `telemetry`, `services` and
`contracts`.

**Fairness, and why the code justifies it.**

- `Board.FairSpec`: an operation that began runs on. The sweep is the periodic job its route is documented
  for; it waits for a worker thread with other requests, so it is strongly fair. Time passes.
- `Heartbeat.FairSpec`: a cycle ends, because the run is under a timeout. The loop returns to every agent
  (`LagIsBounded`, in `LoopKeepsTime` of `HeartbeatLoop`, shows that) and active hours open daily, so a cycle that carries the
  pending events starts again and again: strong fairness. An agent that gets its events again and again
  answers once, which is an assumption about the model behind it.
- `Proactive.FairSpec`: the same, plus that executions end. Cycles are strongly fair, because executions
  take the event loop again and again, but asyncio resumes ready coroutines in turn.
- `OAuthTokens.FairSpec`: calls to services return or time out, the cache ages, the refresh loop ticks.
  Tasks of the main loop are strongly fair, because resolves stop that loop again and again and it then runs
  what is ready in order. Nothing makes a user call a route or an endpoint rotate.
- `LiveFeeds.FeedFairness`: a stream that has an event takes it and sends it, as its generator loops without end. Nothing
  makes a client come or anybody emit.
- `BatchWriter.WriterFairness`: the periodic task wakes, tasks that were created run, and a wait ends at the latest with
  its timeout. A thread that was left may hang for ever.
- `PromptLog`: a worker goes on (`WorkerStep`). The library retries an upload and then gives up, so each ends.

## 5. What is proved

For all values of the constants, checked by TLAPS: sets of tasks, agents, processes, requests, events and triggers of any
size, any subset of the faults, any registry, intervals, phases and lengths of life.

**Assumptions.** Each is a named `ASSUME` of the module that declares the constants, and TLC evaluates it on every run. Those of `LiveFeeds`,
`AgentRuns` and `PromptLog` are definitions that `MC_Telemetry` assumes of its instances.

| Assumption | What it says, and why it holds |
|---|---|
| `BoardAssumption`, `HeartbeatAssumption`, `LoopAssumption`, `CronAssumption`, `ProactiveAssumption`, `BatchWriterAssumption`, `PromptsAssumption`, `FeedsAssumption` | kinds of process are disjoint, faults are faults, bounds and intervals are numbers; the registered agents are among those that a cron may name; rows, spans, streams and threads are finitely many; buffers, pools and queues are not of size 0; an alert threshold is positive (it is 3 unless configured, `models/cron.py:116`) |
| `TurnsAssumption`, `OAuthAssumption`, `ConnectionsAssumption` | likewise; `None` is no user, no task and no context |
| `NoneIsNoDocument`, `NoneIsNoBundle`, `NoneIsNoConnection`, `NoneIsNoDoc`, `NoneIsNoSkill`, `NoneIsNoTool`, `SecretsAssumption`, `RunsAssumption` | "no document" is not a document. Python's `None` differs from every object; an untyped `None` of TLA+ has to be told so |
| `RequestsAssumption`, `CatalogAssumption` | no request is called as the program's own writers (`seed`, `disk`) are; requests, providers and ids are finitely many, as the models count them; what is seeded by default is among the names |
| `OnboardingAssumption` | the last step is a number; no step, answer or stored interview is `None`, as in Python |
| `TextsAssumption`, `QuestionsAssumption` | a conversation is a list of lines; a question has the shape of what the program passes to its functions: a file, an override and a catalog with their fields, memories and hits with theirs, a profile of known validators, a stream of events of known agents |
| `ContextAssumption`, `TokenAssumption`, `CostAssumption` | ages and lives are numbers; the bound on ages lies beyond the age at which a blob expires, so that blobs do expire; a token lives longer than the margin by which it is renewed early (`catalog/copilot_tokens.py:32`: two minutes) |

**BoardProofs.** `IInv` joins `TypeOK` with facts on each operation in flight: what it is about to store is a
document that its copy may become, a work summary goes with DONE only, and DONE only follows a started
copy. Without them the stored documents say nothing about the writer that comes next. It gives
`TypeCorrect`, `WorkSummaryOnlyWithDone` and `CompletionsComeFromStartedWork`. `FreshOK` (an id not drawn has
no document and nobody works on it) gives `FreshIdsAreUnused` and then `StaleWritersOnly`: a step that is not
an edge of the tables writes over a document that changed since it was read. `SerialInv` (one process
at a time, whose copy is current) gives `SerialBoardImplementsLifecycle`. `EventsInv` adds what the operation has yet to
emit about what it has stored, and gives `SerialBoardIsExact`: the lifecycle, and live events that tell the outcome. It is what
`contracts` checks on its instance of the board.

**DeliveryProofs.** `DeliveryInv` adds to the properties that an id not drawn is nowhere and that a cycle
that is tidying has handled the events it carries. It gives `DeliveryTypeCorrect`, `QueueKeepsEvents`,
`EventsDoNotStray` and, mapping each step to `Post`, `Handle`, `Retire` or a stutter,
`HeartbeatImplementsDelivery`.

**ProactiveProofs.** `FiringsAreNeverLost` is the claim end to end: whatever crons, executions, edits, cycles and faults do, what
a firing put into the queue stays there until the agent it is for has handled it. The proof composes. Every cron, and every copy of one that is still held,
names an agent (`CronsNameAgents`), so a firing enqueues what `Heartbeat` allows anybody to enqueue. `ProactiveImplementsHeartbeat` then shows that each
step of `Proactive` is a step of `Heartbeat`, taken with all the agents a cron may name (those that are not registered start
no cycle) and with a gathering that may fail (that is what a listing of crons that raises does). The theorem of `DeliveryProofs` is cited through an
`INSTANCE` with these substitutions, whose assumption is proved from that of `Proactive`.

**ContractProofs, the loop.** `NextDueIsLeast`: `compute_next_due_ms` returns the least aligned tick that is not past, for
all natural numbers. `LoopInv` bounds how old the pass's reading and the due times are at each place in the
pass; from it `LoopAlwaysKeepsTime`: the loop looks at every agent within a bounded time, and, as the slots of due times grow,
begins one cycle per tick at most.

**CronProofs.** That the stored counter never claims more failures than there were is not inductive: the next write may come
from a copy read long ago. `IInv` therefore bounds the counter of every copy still held: an execution's copy claims no
more failures than the cron had, one less while a failing dispatch is not yet written, and at least the threshold while an
alert is on its way (`ExecsHonest`); an edit is about to store the counters of its copy (`EditsHonest`). As failures only
grow, copies stay honest. It gives `CountersFollowFailures` and, with what each kind of write leaves alone,
`EditsUndoneByLostUpdates`. `SerialCountsAreExact` is about crons served one request at a time: the counter equals the streak
of failures, a one-shot takes effect once, alerts keep their cooldown. Its hypothesis `Faults \subseteq {"create_task"}` is part of
the claim: the failure of a write loses the count that it was to store, so with a failing store no count can be exact. What holds then is
the bound of `CountersFollowFailures`.

**TurnProofs.** `TurnsStrayOnlyByOverlap`, that a turn touches the board, history and memories of its own user or of
one whose turn began meanwhile, is not inductive: a message gets into the memories from a copy that a closer
read from a document that a mirror wrote for the current user. `IInv` follows it along this way: the active context
is a context of every running turn (`ActiveInContext`), and each document, each closer's copy and each memory has
only messages of answered turns that can have worked for the user it is kept under (`Filed`). It also gives
`TurnsTypeCorrect`, with the bound on the attempts of a turn. A close puts back a copy that
it read before it awaited, so a message may be gone and come back: `HInv` therefore speaks of every copy, stored or held, and says that
each message of an answered turn has one place in all of them, the answer right after its question. From it `HistoriesAreKept` (a history loses a message only in a race with another
writer) and `EndedSessionsAreRemembered` (what is ended was handed to the memory, or a race explains it).

**TurnProofs, telemetry.** The parts of `MC_Telemetry` share no variable but `part`, and each has an invariant of its own.

- `FeedsStaySound`, about the live feeds: `FeedsInv` says where each event that was put can be. A channel serves one key
  (`OneKeyEach`), and one that a thread has just made is known to nobody else (`NewIsAlone`); a queue is in the order of the puts, and
  ahead of all that its streams have taken (`InPutOrder`); an event that was put is somewhere, and in one place only; while no put of a thread has raced, the channel of a
  stream is the one registered and its count is the number of its streams (`CountsExact`, `NoneIdleBut`). Most steps do several
  things to a registry, so the invariant and its lemmas are stated of any registry, streams and puts, and are followed one thing at a time.
- `RunDocumentsAlwaysAddUp`, about the documents of runs: who writes a turn brings its start, or finds its document there
  (`StartIsBrought`); costs add up over the spans whose write landed (`CostsOfLanded`), each of which lands once (`LandsOnce`), the
  throttle never holds back one with a cost (`CostlyAreWritten`), and tokens shown are those of a span that ended (`ShownAreOfAnEnd`).
- `RowsAreNeverLost`, about the BigQuery writer: every row that came is in the buffer or in a batch (`RowsAreKept`) and in one of them only
  (`BatchesAreApart`), whichever of the periodic, the asked-for and the last flush took it, in time or not; each flush that was asked for has a row
  of its own that asked (`AskedByRows`); after the last flush only rows that came later are left (`LateRowsOnly`).
- `PromptsLeaveRedacted`, about the prompt log: a span's payloads are redacted before its first upload is submitted (`RedactedFirst`), the queue
  holds each upload once, and whoever makes the client holds the lock while there is none (`MakerHasLock`).

**OAuthProofs.** That no rotated token is presented and no replaced one served rests on mutual exclusion that spans two event
loops, and on knowing, whenever secret or cache hold a token that is spent, who is about to replace it. `IInv` says so: a task
is in the body of a refresh exactly if it holds the lock (`LockExcludes`); what it has read there, and what it got for it, was issued and
not replaced, and may be presented until the endpoint rotated it (`CopyCurrent`); the bundle in the secret may be presented, or the
task that rotated it has yet to write its successor (`SecretCurrent`); the cache likewise, up to the step that fills it
(`CacheCurrent`). The only excuse is `lost`: the successor of a rotated token did not arrive or could not be written, which no code can
repair. It gives `TokensCurrent`.

**ContractProofs, the connections.** The two records of a connection are written one after the other, so their agreement breaks in every
call, and a call that is refused leaves no trace. `CInv` therefore speaks of the calls that have written (`Written`): two records differ only
while such a call is between its writes, or was left there by a failure, or two of them clashed; what is active was accepted by the
user who was asked, in the records and in the copies; and a connection opens again, or beside another one of the same users, only by a
request that met the one that changed it. It gives `ConnectionsStayInAgreement`.

**ServiceProofs.** The parts of `MC_Services` share no variable but `part`, so each gets an invariant of its own. The same idea carries
all of them: *what is said of a stored document is said of each copy that is yet to be written back.* Properties of the kind
"only an overlap does this" need in addition that overlaps are noticed: `met` of a call contains every other
call that wrote while it ran, which makes a copy of a call that met nobody equal to the document.

- `SecretsAreAlwaysWritten`: a write that is between its calls has left a container that it is about to fill.
- `ContextStaysWhole`: a blob is as old as its entry; a deletion removes the blob first; an entry without a blob, or a blob without an entry,
  is between two calls of somebody, or expired, or a failure left it.
- `SessionTokensStayFresh`: the lock has one holder, who found no good token behind it (`HolderNeedsToken`); a token is of the GitHub token that
  was the latest at most a timeout before the exchange (`ExchangedLatest`).
- `ConfigurationsStand`: a field of an override names the last request that patched it, unless one that met it wrote since.
- `ShelvesAlwaysStand`: skills and tools. What a start is yet to seed is not stored by it twice, whatever administrators do meanwhile;
  a toolset is of a tool that was enabled when it was bound.
- `CatalogIsAlwaysSound`: the largest. `CatMove` describes all a step can do to a document (nothing, a write by one call of its copy,
  a removal), each action is shown to be a `CatMove`, and every part of `CatInv` is shown to follow from a `CatMove` alone.
  Its part `InOrder` ties the numbers of requests to who met whom; `CatHeld` is the rule of the copies. `CostInv`, for the cost lookup
  next to it: a rate that is known is in the cache, or a refresh that will bring it is under way, or one failed or was crossed
  by another thread.
- `InterviewsAreKept`: `OnbInv` says that the steps behind the current one are answered, also in the copy that a compilation will
  store when its model answers; and, unless something slipped (a question saved but not shown, two requests at once), that one
  request waits at most and the question shown, or about to be, is that of the current step, so that an answer is filed under it.

**ContractProofs, the memory.** `MemInvariant` says of each call in flight what is said of the bank: what a capture is about to store was
scrubbed, so no pattern matches it; a wipe knows what its listing showed it, and what is stored and was not listed came from a capture that
stored it after the listing. `MemoriesAreAlwaysSafe` needs two facts about the functions that make the text: scrubbing leaves nothing that matches,
and the facts of agents are told apart from those of users.

**ContractProofs, the functions.** `contracts` compares the functions with their reference definitions on every input up to a bound; the theorems
say the same of every input that has the shape of the program's (`Questions`, of which only `QuestionOK` is assumed). A question
never changes, so what is needed is that the functions are right. The prover has no induction over an operator and nothing about
`SelectSeq`; two things take their place. What the code collects from a list, in `Lists`, is defined by the
places that are taken (`Kept`, `Firsts`: an increasing list of indices), not by a recursion over the list: that an order is kept, that nothing is taken twice and that
nothing is dropped are then facts about functions on `1 .. n`. And where the code really folds, `FoldLeft` is a
recursive function on the subsets of `1 .. n`; its value on `1 .. k` is followed by induction over `k`, which is an
induction over a set of numbers and needs no operator.

- `AgentsAreAlwaysAsConfigured`: references, credentials, rules of the router, merged configurations, tools, the chain of fallbacks and the
  privacy of profiles. It is a case analysis over what a file, an override and a catalog may leave out.
- `MemoryTextIsAlwaysExact`: recall of both backends, the prompt, candidates, pruning, redaction, and the reading of a conversation back from its text.
  The attempt to prove it corrected a property: `PromptShowsAll` compared the prompt with the memories one by one, which is false when one
  memory occurs twice in a recall; it now speaks of what is shown and in what order.

- `AnswersAreAlwaysAccounted`: the verdict on an answer, the records and the transcript of a turn, the totals of the usage page and its list of
  recent records. The sums are folds: one lemma says that a sum over a set of places is the sum over its parts, and every total
  of `Usage` is cut into the same parts, by name, by kind or by hour. That rows, which count model calls, and hours, which count
  all records, have one cost needs a fact of the records that the properties do not name: only `record_model_call` takes a cost, so records of
  other kinds have none. `QuestionOK` says so, and TLC checks it on the questions of `contracts`.

*Only model-checked*: all liveness (the prover has no fairness or `ENABLED`). Every property of a passing run that is not liveness is
a theorem here; `BoardIsExact` and `CountsAreExact` are `SerialBoardIsExact` and `SerialCountsAreExact`, under the names of their own modules.

## 6. Findings: what the repository says, and the code does not do

Each is refuted by a run (quotes and lines in `PROJECT.json`):

1. `claim_turn_user`: with turns of two users in flight, a turn works under the user whose turn started last. The
   mirror then looks for the session under the other user, creates it anew under its own, which erases a history
   that is there, and fails to append; or it appends to the other user's session of the same id.
2. `claim_event_picked_up`: a PATCH that stores a cron which does not parse fails every heartbeat of every
   agent until somebody repairs it, so queued events are not picked up.
3. `claim_resolve_answers`: `resolve_api_key` blocks the event loop on a worker that may wait for a lock held by
   a coroutine of that loop; the 30 s timeout does not help, because leaving the executor joins the worker.

Met while modelling, visible in the models, without a run of their own:

- `BoardService.complete` picks a QUEUED task up for any caller (`board/service.py:165`), though the tool's gate and
  its test (`src/tests/test_orchestrator.py:219`) say that a non-assignee must not.
- Active hours are compared with the UTC time of day (`heartbeat/service.py:105`); the window's timezone is never
  read, though `heartbeat/config.py:12` speaks of local time.
- `POST /chat/end` drops its user (`dispatch/runner.py:903`): it ends the session of the user who is active.
  An ended session to which a turn appends stays ended, so those messages are not swept again.
- Nothing reads `requires_approval` before a pick-up, though the dialog for new tasks offers "Requires approval
  before execution" (`src/web/src/components/board/new-task-modal.tsx:273`).
- DONE is called terminal and a deletion permanent, but a writer with an old copy undoes both
  (`firestore/board_repo.py:45`): `OnlyStaleWritersBreakLifecycle` allows exactly that.
- The sweep looks at a task's age only when it lists (`board/service.py:232`): it may fail a task picked up again.
- Overlapping executions of a cron may alert twice in a cooldown and fire a one-shot twice
  (`cron/service.py:255`, `:373`): `AlertsRespectCooldown` and `OneShotFiresOnce` hold only one request at a time.
- An alert whose sending failed is recorded as sent (`cron/delivery.py:277`), and a firing whose event could
  not be queued as a success (`cron/service.py:340`).
- The OAuth refresh loop starts only if a provider was stored at startup (`main.py:711`).
- A `SKILL.md` without a description never loads: `skill/registry.py` uses a name that is not defined there, and the error
  is swallowed with the ones it expects.
- When the model of an override does not resolve, the chain drops its first element anyway
  (`dispatch/runner.py:296-304`), so the first fallback that does resolve is skipped: `FallbacksAreTried` says what is tried.
- The page of an agent's effective configuration shows no heartbeat for an override that inherits one, and an empty prompt
  that is not used (`config/agent_config_service.py:212`): `PagesShowWhatIsBuilt` allows exactly these.
- With the catalog behind it the router has no rules: every agent that is routed by profile gets the fallback model.
- An agent without a file never gets a heartbeat, though the list shows it as enabled.
- Of an answer of several lines, the later ones are attributed to the user when memories are extracted.
- The timeout of a prompt-log upload is applied to a future that is done (`observability/prompt_log.py:193`).
- Nothing calls `delete_expired` of the shared context; nothing calls `invalidate` of the MCP manager.
- `PATCH /admin/tools` catches `ValueError` before pydantic's `ValidationError`, which is one: a configuration that does not
  validate is answered with 404, not 400 (`api/tool_routes.py:115`). A configuration of another kind changes the kind.
- A toolset stays in the MCP manager's cache when its record is changed or deleted: agents built later get the old
  server. A skill or function that ships and was deleted is back after the next start.
- `guardrails/service.py:10` says that a validator that raises is skipped; it yields a warning (`:171`). If the default
  profile is unknown, resolving it raises, the runner swallows that, and every answer passes.
- No validator of the profiles awaits, so their timeout cannot fire. `Guardrails` allows it all the same.
- The runner's comment says that the chat endpoint makes a 4xx of a blocked answer (`dispatch/runner.py:493`); nothing
  catches the exception. A blocked turn has already been recorded as a success.
- The usage summary adds up the rows that it shows, the names with most records: `TotalsAgree` has that condition. The
  list of one kind may hold fewer than asked for, though the comment says otherwise (`firestore/usage_repo.py:87`):
  `RecentIsNewest`.
- A model call with a count of 0 has no cost, as the count is passed on as none (`dispatch/runner.py:761`).
- Arguments of tools that are not strings go into the transcript as they are (`dispatch/runner.py:645`).
- `migrate/seed_secrets.py` calls itself idempotent: a second run without values adds a placeholder version over a real
  value.

## 7. Not modelled

- *OpenAPI bindings, code runners, probes of MCP servers, tools of agents*: adapters around processes and HTTP services. The
  board tools are in `Board`, the architect's writes of overrides in `AgentConfig`.
- *Authentication and application wiring*: construction at start; verification is Firebase's.
- *Voice socket*: it relays audio and reads no state that others write. *Context compactor*: nothing calls it.
- *Evaluation, CLI, migration, web client*: programs of their own that run to completion, or clients.
- Schedules and time zones of crons are data for an external scheduler. The text of messages, events and prompts is
  modelled only where its redaction, order or attribution is the point. What an agent does in a run is an arbitrary outcome.
- The models have one process: a second replica would share Firestore but no lock and no due times.

## 8. Plan

Done: all the modules of section 3, each with proofs.

Next: **an abstract specification of sessions** as append-only logs, which turns of a single user that do not overlap a close
implement.

The runs answer twelve questions; new components join existing runs of their neighbours, where that keeps them few.
