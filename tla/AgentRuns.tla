------------------------------ MODULE AgentRuns -----------------------------
(***************************************************************************)
(* The live view of one chat session: what LiveSpanProcessor.on_end and    *)
(* AgentRunsRepo.upsert make of the AGENT spans that end in it.            *)
(*                                                                         *)
(* A span ends on the thread that ran it, and the processor works there:   *)
(* it puts an event into the session's channel (module LiveFeeds), decides *)
(* about the throttle, and merges the span into the document of the        *)
(* session and then into the document of the turn.  Spans of parallel      *)
(* sub-agents may end at the same time, so every call to the store is a    *)
(* step.  Each failure is swallowed.                                       *)
(* Definitions named Slip_... are wrong variants, used by no specification *)
(* (see module Board).                                                     *)
(***************************************************************************)
EXTENDS Integers, FiniteSets

CONSTANTS
  Spans,         \* span ids; each ends once (bound)
  Traces,        \* trace ids: one per turn of the session
  MaxNow,        \* readings of the clock (bound); one unit is throttle_seconds
  StoreFails,    \* whether calls to the store may fail
  None

VARIABLES
  now,
  span,          \* span[s]: the progress and the attributes of s
  lastWrite,     \* _last_firestore_write of the session, or None
  doc,           \* the document agent_runs/{session_id}
  turns          \* turns[t]: the document turns/{trace_id}, or None

runVars == <<now, span, lastWrite, doc, turns>>

\* What the event of a span says: a model call has a model and tokens, and a
\* cost if the catalog knows a price.  user: whether user.id is set; agent:
\* whether the span is of kind AGENT and of a session.
Attributes ==
  {a \in [agent : BOOLEAN, user : BOOLEAN, trace : Traces, tokens : BOOLEAN, cost : 0 .. 1] :
     a.cost > 0 => a.tokens}

\* landed: the documents that took the span; failed: whether a call failed (both
\* for properties only).
Progress ==
  [pc : {"running", "session", "look", "turn", "over"}, attrs : Attributes \cup {None},
   first : BOOLEAN, landed : SUBSET {"session", "turn"}, failed : BOOLEAN]

Unended == [pc |-> "running", attrs |-> None, first |-> FALSE, landed |-> {}, failed |-> FALSE]

\* started: the span that wrote started_at.
EmptyDoc == [tokens |-> None, cost |-> 0, started |-> None]

Document == [tokens : Spans \cup {None}, cost : Nat, started : Spans \cup {None}]

\* None is no span, and no document.
RunAssumption == IsFiniteSet(Spans) /\ None \notin Spans /\ None \notin Document

-----------------------------------------------------------------------------

\* Slip: the throttle holds for every span.
Slip_ThrottleAll(a) == lastWrite = None \/ now - lastWrite >= 1

\* A span with a model or tokens is always written; the others once per interval.
Passes(a) == a.tokens \/ lastWrite = None \/ now - lastWrite >= 1

\* on_end: the event into the channel, then the throttle.
EndSpan(s, a) ==
  LET goes == a.agent /\ a.user /\ Passes(a)
  IN /\ span[s].pc = "running"
     /\ span' = [span EXCEPT ![s].pc = IF goes THEN "session" ELSE "over",
                             ![s].attrs = a]
     /\ lastWrite' = IF goes THEN now ELSE lastWrite
     /\ UNCHANGED <<now, doc, turns>>

\* Slip: the missing tokens of a sub-span are written as nulls.
Slip_NullTokens(d, s) ==
  [d EXCEPT !.tokens = IF span[s].attrs.tokens THEN s ELSE None,
            !.cost = @ + span[s].attrs.cost]

\* set(merge=True): fields without a value are left alone, the cost is added to
\* what is stored.
Merged(d, s) ==
  [d EXCEPT !.tokens = IF span[s].attrs.tokens THEN s ELSE @,
            !.cost = @ + span[s].attrs.cost]

WriteSession(s) ==
  /\ span[s].pc = "session"
  /\ \/ /\ doc' = Merged(doc, s)
        /\ span' = [span EXCEPT ![s].pc = "look", ![s].landed = @ \cup {"session"}]
     \/ StoreFails /\ UNCHANGED doc /\ span' = [span EXCEPT ![s].pc = "look", ![s].failed = TRUE]
  /\ UNCHANGED <<now, lastWrite, turns>>

\* Slip: a look that fails is taken for a document that is there.
Slip_LookSwallowed(s) ==
  /\ span[s].pc = "look"
  /\ \E first \in {turns[span[s].attrs.trace] = None, FALSE} :
       span' = [span EXCEPT ![s].pc = "turn", ![s].first = first]
  /\ UNCHANGED <<now, lastWrite, doc, turns>>

\* The turn's document is read for its existence; a failure ends the upsert.
LookForTurn(s) ==
  /\ span[s].pc = "look"
  /\ \/ span' = [span EXCEPT ![s].pc = "turn", ![s].first = (turns[span[s].attrs.trace] = None)]
     \/ StoreFails /\ span' = [span EXCEPT ![s].pc = "over", ![s].failed = TRUE]
  /\ UNCHANGED <<now, lastWrite, doc, turns>>

\* started_at goes with the write of those who found no document.
WriteTurn(s) ==
  LET t == span[s].attrs.trace
      merged == Merged(IF turns[t] = None THEN EmptyDoc ELSE turns[t], s)
  IN /\ span[s].pc = "turn"
     /\ \/ /\ turns' = [turns EXCEPT ![t] = IF span[s].first THEN [merged EXCEPT !.started = s]
                                            ELSE merged]
           /\ span' = [span EXCEPT ![s].pc = "over", ![s].landed = @ \cup {"turn"}]
        \/ /\ StoreFails /\ UNCHANGED turns
           /\ span' = [span EXCEPT ![s].pc = "over", ![s].failed = TRUE]
     /\ UNCHANGED <<now, lastWrite, doc>>

Tick ==
  /\ now < MaxNow
  /\ now' = now + 1
  /\ UNCHANGED <<span, lastWrite, doc, turns>>

RunInit ==
  /\ now = 0
  /\ span = [s \in Spans |-> Unended]
  /\ lastWrite = None
  /\ doc = EmptyDoc
  /\ turns = [t \in Traces |-> None]

RunNext ==
  \/ \E s \in Spans : \/ \E a \in Attributes : EndSpan(s, a)
                      \/ WriteSession(s) \/ LookForTurn(s) \/ WriteTurn(s)
  \/ Tick

RunSpec == RunInit /\ [][RunNext]_runVars

-----------------------------------------------------------------------------
(* Properties.                                                             *)

RunTypeOK ==
  /\ span \in [Spans -> Progress]
  /\ lastWrite \in 0 .. now \cup {None}
  /\ doc.tokens \in Spans \cup {None} /\ doc.cost \in 0 .. Cardinality(Spans)
  /\ \A t \in Traces : turns[t] # None =>
       turns[t].tokens \in Spans \cup {None} /\ turns[t].started \in Spans \cup {None}

\* The sum of their costs, each 0 or 1.
Costs(S) == Cardinality({s \in S : span[s].attrs.cost = 1})

\* The agent spans of a user that have ended.
Counted == {s \in Spans : span[s].pc # "running" /\ span[s].attrs.agent /\ span[s].attrs.user}

\* The running totals are exact under any overlap: the costs of the spans whose
\* write landed, in the session's document and in each turn's; and when every
\* span is over without a failed call, the costs of them all: the throttle
\* loses none.
CostsAddUp ==
  /\ doc.cost = Costs({s \in Counted : "session" \in span[s].landed})
  /\ \A t \in Traces : turns[t] # None =>
       turns[t].cost = Costs({s \in Counted : "turn" \in span[s].landed /\ span[s].attrs.trace = t})
  /\ (\A s \in Counted : span[s].pc = "over" /\ ~span[s].failed) => doc.cost = Costs(Counted)

\* Tokens once shown stay or give way to a model call's: the spans of sub-agents,
\* which have none, never blank them.
TokensStay ==
  [][/\ doc.tokens # None => doc'.tokens # None /\ span[doc'.tokens].attrs.tokens
     /\ \A t \in Traces : turns[t] # None /\ turns[t].tokens # None => turns'[t].tokens # None]_runVars

\* No document of a turn is without its start, whatever calls overlap or fail.
TurnsHaveAStart == \A t \in Traces : turns[t] # None => turns[t].started # None

\* AgentRunsRepo: the documents of runs add up, are complete and never blanked.
RunDocumentsAddUp == []RunTypeOK /\ []CostsAddUp /\ []TurnsHaveAStart /\ TokensStay
=============================================================================
