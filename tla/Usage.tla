-------------------------------- MODULE Usage -------------------------------
(***************************************************************************)
(* What a turn leaves behind in usage records and in its transcript, and   *)
(* what the usage page makes of the records: AgentRunner's reading of the  *)
(* model's stream, _record_turn, UsageRecorder, UsageRepo and the routes.  *)
(*                                                                         *)
(* An event of the stream is [author, tin, tout, model, calls, text]:      *)
(* tokens, the tools it calls, and a piece of text.  A record is           *)
(* [kind, name, caller, tin, tout, cost, ok], and for the page has an hour. *)
(* Definitions named Slip_... are wrong variants, used by no specification *)
(* (see module Board).                                                     *)
(***************************************************************************)
EXTENDS Integers, Sequences, SequencesExt, FiniteSetsExt, Lists

Root == "root"
UsageKind == {"agent", "model", "tool", "skill"}

Total(s, Num(_)) == SumOf([k \in DOMAIN s |-> Num(s[k])])

-----------------------------------------------------------------------------
(* A turn.                                                                 *)

Author(e) == IF e.author = "" THEN Root ELSE e.author

Of(events, a) == Kept(events, LAMBDA e : Author(e) = a)

\* The authors in order of their first event, as the buckets are made.
Authors(events) == Firsts([k \in DOMAIN events |-> Author(events[k])])

\* What an author used in all, and the first model it answered with.
Bucket(events, a) ==
  LET mine   == Of(events, a)
      models == Kept(mine, LAMBDA e : e.model # None)
  IN [tin |-> Total(mine, LAMBDA e : e.tin), tout |-> Total(mine, LAMBDA e : e.tout),
      model |-> IF models = <<>> THEN None ELSE models[1].model]

\* Slip: an author whose model is not known is left out.
Slip_ModelsOnly(b) == b.model # None

Used(b) == b.tin > 0 \/ b.tout > 0 \/ b.model # None

\* record_model_call: no cost without both counts (a count of 0 is passed on as none).
Cost(b) == IF b.tin > 0 /\ b.tout > 0 /\ b.model # None THEN b.tin + 2 * b.tout ELSE None

Record(kind, name, caller, ok) ==
  [kind |-> kind, name |-> name, caller |-> caller, tin |-> 0, tout |-> 0, cost |-> None, ok |-> ok]

\* The records of an author: a sub-agent is an invocation of the root as well.
AuthorRecords(events, a, ok) ==
  LET b == Bucket(events, a)
      call == [Record("model", IF b.model = None THEN "unknown" ELSE b.model, a, ok)
                 EXCEPT !.tin = b.tin, !.tout = b.tout, !.cost = Cost(b)]
  IN IF ~Used(b) THEN <<>> ELSE IF a = Root THEN <<call>> ELSE <<Record("agent", a, Root, ok), call>>

\* Slip: every call of a tool is the root's.
Slip_RootCalls(events) == FlattenSeq([k \in DOMAIN events |->
  [j \in DOMAIN events[k].calls |-> Record("tool", events[k].calls[j], Root, TRUE)]])

ToolRecords(events) == FlattenSeq([k \in DOMAIN events |->
  [j \in DOMAIN events[k].calls |-> Record("tool", events[k].calls[j], Author(events[k]), TRUE)]])

\* _record_turn.  Every event with an author or without has a bucket, so that its
\* branch for streams without authors is not taken.
RecordTurn(events, ok) ==
  LET authors == Authors(events)
  IN <<Record("agent", Root, None, ok)>>
       \o FlattenSeq([k \in DOMAIN authors |-> AuthorRecords(events, authors[k], ok)])
       \o ToolRecords(events)

-----------------------------------------------------------------------------
(* The transcript.  The pieces "first" and "second" are the halves of an    *)
(* address that the model's stream has cut in two.                          *)

\* redact, on the whole text.
Redact(text) ==
  FoldLeft(LAMBDA out, piece : IF piece = "second" /\ out # <<>> /\ Last(out) = "first"
                               THEN Append(Front(out), "[redacted]") ELSE Append(out, piece), <<>>, text)

Said(events, a) == Kept([k \in DOMAIN Of(events, a) |-> Of(events, a)[k].text], LAMBDA t : t # "")

ToolCalls(events, a) == FlattenSeq([k \in DOMAIN Of(events, a) |-> Of(events, a)[k].calls])

\* Slip: each piece is redacted as it comes.
Slip_RedactPieces(events, a) ==
  [author |-> a, text |-> FlattenSeq([k \in DOMAIN Said(events, a) |-> Redact(<<Said(events, a)[k]>>)]),
   calls |-> ToolCalls(events, a)]

Message(events, a) == [author |-> a, text |-> Redact(Said(events, a)), calls |-> ToolCalls(events, a)]

\* _emit_turn_messages: what the user asked, and one message of each author that
\* said or called anything, the root first and the others by name.
Transcript(asked, events, byName) ==
  LET speaks(a) == Said(events, a) # <<>> \/ ToolCalls(events, a) # <<>>
      order == Kept(byName, LAMBDA a : Contains(Authors(events), a) /\ speaks(a))
  IN (IF asked = <<>> THEN <<>> ELSE <<[author |-> "user", text |-> Redact(asked), calls |-> <<>>]>>)
       \o [k \in DOMAIN order |-> Message(events, order[k])]

-----------------------------------------------------------------------------
(* The usage page.  Records are given newest first.                        *)

OverFetch == 5

OfKind(records, kind) == Kept(records, LAMBDA r : r.kind = kind)

\* list_recent: the newest are fetched, several times as many as are wanted, and
\* those of other kinds then dropped.
Recent(records, kind, limit) ==
  Cut(OfKind(Cut(records, limit * OverFetch), kind), limit)

RowOf(records, name) ==
  LET mine == Kept(records, LAMBDA r : r.name = name)
  IN [name |-> name, count |-> Len(mine), cost |-> Total(mine, LAMBDA r : IF r.cost = None THEN 0 ELSE r.cost)]

\* aggregate_by_name: the names with most records, up to a limit.
ByName(records, kind, limit) ==
  LET rs    == OfKind(records, kind)
      names == Firsts([k \in DOMAIN rs |-> rs[k].name])
  IN  Cut(Sorted([k \in DOMAIN names |-> RowOf(rs, names[k])], LAMBDA x, y : x.count > y.count), limit)

\* Slip: the last hour is left out.
Slip_BeforeNow(records, hour) ==
  LET rs == Kept(records, LAMBDA r : r.hour = hour /\ hour < 1)
  IN [count |-> [kind \in UsageKind |-> Len(OfKind(rs, kind))],
      cost  |-> Total(rs, LAMBDA r : IF r.cost = None THEN 0 ELSE r.cost)]

\* aggregate_by_hour.
ByHour(records, hour) ==
  LET rs == Kept(records, LAMBDA r : r.hour = hour)
  IN [count |-> [kind \in UsageKind |-> Len(OfKind(rs, kind))],
      cost  |-> Total(rs, LAMBDA r : IF r.cost = None THEN 0 ELSE r.cost)]

\* The totals of the summary route, which adds up the rows it shows.
TotalOf(records, kind, top) == Total(ByName(records, kind, top), LAMBDA row : row.count)

TotalCost(records, top) == Total(ByName(records, "model", top), LAMBDA row : row.cost)

-----------------------------------------------------------------------------
(* Properties.                                                             *)

\* The tokens of a turn are those of its model calls, whoever used them.
TokensAreAccounted(events, ok) ==
  LET called == OfKind(RecordTurn(events, ok), "model")
  IN /\ Total(called, LAMBDA r : r.tin) = Total(events, LAMBDA e : e.tin)
     /\ Total(called, LAMBDA r : r.tout) = Total(events, LAMBDA e : e.tout)

\* Each agent that used tokens is listed once, and each call of a tool is listed
\* once, under the agent that made it.
WorkIsAttributed(events, ok) ==
  \A a \in ToSet(Authors(events)) \cup {Root} :
    LET rs == RecordTurn(events, ok)
    IN /\ Len(Kept(rs, LAMBDA r : r.kind = "agent" /\ r.name = a))
            = IF a = Root \/ Used(Bucket(events, a)) THEN 1 ELSE 0
       /\ Len(Kept(rs, LAMBDA r : r.kind = "tool" /\ r.caller = a))
            = Total(Of(events, a), LAMBDA e : Len(e.calls))

\* No transcript holds an address, not even one that came in two pieces, and it
\* holds all that was said and called.
TranscriptIsRedacted(asked, events, byName) ==
  LET ms == Transcript(asked, events, byName)
  IN /\ \A k \in DOMAIN ms : \A j \in 1 .. Len(ms[k].text) - 1 :
          ~(ms[k].text[j] = "first" /\ ms[k].text[j + 1] = "second")
     /\ Total(ms, LAMBDA m : Len(m.calls)) = Total(events, LAMBDA e : Len(e.calls))
     /\ \A a \in ToSet(Authors(events)) : Said(events, a) # <<>> => \E k \in DOMAIN ms : ms[k].author = a

\* The totals of the page are those of its time series, unless there are more
\* names than it shows.
TotalsAgree(records, top) ==
  LET hours == Firsts([k \in DOMAIN records |-> records[k].hour])
      names(kind) == {OfKind(records, kind)[k].name : k \in DOMAIN OfKind(records, kind)}
  IN /\ \A kind \in UsageKind : Cardinality(names(kind)) <= top =>
          TotalOf(records, kind, top) = Total(hours, LAMBDA h : ByHour(records, h).count[kind])
     /\ Cardinality(names("model")) <= top =>
          TotalCost(records, top) = Total(hours, LAMBDA h : ByHour(records, h).cost)

\* The events of a kind that the page lists are the newest of it, and fewer than
\* it was asked for only if there are no more or others crowd them out.
RecentIsNewest(records, kind, limit) ==
  LET got == Recent(records, kind, limit)
      all == OfKind(records, kind)
  IN /\ IsPrefix(got, all)
     /\ Len(got) < Min({limit, Len(all)}) => Len(records) > limit * OverFetch
=============================================================================
