----------------------------- MODULE MC_Telemetry -----------------------------
(***************************************************************************)
(* What a span sets going when it ends, each part on its own: the live     *)
(* feeds, the documents of a session's runs, the BigQuery writer and the   *)
(* prompt log share no state.  A behaviour begins with a choice of the     *)
(* part that moves, so their state spaces are added, not multiplied.       *)
(***************************************************************************)
EXTENDS BatchWriter

CONSTANTS
  Chats, Viewers, Tabs, Threads, MaxQueue, MaxEvents,   \* LiveFeeds
  AgentSpans, Traces, MaxNow, StoreFails,               \* AgentRuns
  Spans, MaxWorkers,                                    \* PromptLog
  Nil

VARIABLES
  part,
  reg, tab, emit, raced,                        \* LiveFeeds
  runNow, agentSpan, lastWrite, runDoc, turns,  \* AgentRuns
  span, blob, queue, client, lock, open         \* PromptLog

F == INSTANCE LiveFeeds WITH Sessions <- Chats, Users <- Viewers, None <- Nil
R == INSTANCE AgentRuns WITH Spans <- AgentSpans, span <- agentSpan, now <- runNow, doc <- runDoc, None <- Nil
G == INSTANCE PromptLog WITH None <- Nil

\* A queue without a bound would drop nothing, and no model value is a document.
ASSUME FeedsAssumption == F!FeedAssumption
ASSUME RunsAssumption == R!RunAssumption
ASSUME PromptsAssumption == G!PromptLogAssumption

feeds == <<reg, tab, emit, raced>>
runs == <<runNow, agentSpan, lastWrite, runDoc, turns>>
prompts == <<span, blob, queue, client, lock, open>>
telemetry == <<part, feeds, runs, writerVars, prompts>>

TelemetryInit ==
  /\ part \in {"feeds", "runs", "writer", "prompts"}
  /\ F!FeedInit /\ R!RunInit /\ WriterInit /\ G!PromptInit

TelemetryNext ==
  /\ UNCHANGED part
  /\ \/ part = "feeds" /\ F!FeedNext /\ UNCHANGED <<runs, writerVars, prompts>>
     \/ part = "runs" /\ R!RunNext /\ UNCHANGED <<feeds, writerVars, prompts>>
     \/ part = "writer" /\ WriterNext /\ UNCHANGED <<feeds, runs, prompts>>
     \/ part = "prompts" /\ G!PromptNext /\ UNCHANGED <<feeds, runs, writerVars>>

\* Each part's own fairness; that of a part which does not move asks for nothing.
TelemetrySpec ==
  /\ TelemetryInit /\ [][TelemetryNext]_telemetry
  /\ F!FeedFairness /\ WriterFairness /\ WF_prompts(G!WorkerStep)

-----------------------------------------------------------------------------
(* The parts' properties, under their own names; RowsAreAccountedFor is    *)
(* BatchWriter's.                                                          *)

\* LiveFeeds: events are sent once and in order, on the channel they are put into.
FeedsAreExact == F!FeedsAreExact

\* AgentRuns: the documents of runs add up, are complete and never blanked.
RunDocumentsAddUp == R!RunDocumentsAddUp

\* PromptLog: only what is redacted leaves the process, over one client.
PromptLogIsSafe == G!PromptLogIsSafe

\* The queue of a feed that somebody watches moves, rows leave the buffer, and
\* uploads that were accepted end.
WhatWaitsIsServed == F!WatchedEventsMove /\ RowsLeave /\ G!AcceptedUploadsEnd
=============================================================================
