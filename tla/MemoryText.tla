------------------------------ MODULE MemoryText ----------------------------
(***************************************************************************)
(* What the memory services compute: which memories a recall returns, how  *)
(* they are written into a prompt, what the consolidator groups and prunes, *)
(* and what becomes of a conversation before it leaves the process.         *)
(*                                                                         *)
(* A memory is [fact, topics, importance, score]; a conversation is a       *)
(* sequence of lines [speaker, token], a token being the set of categories  *)
(* of personal data whose pattern it matches ({} for plain words), Blank,   *)
(* or Redacted.  Numbers are the integers that keep their order.            *)
(* Definitions named Slip_... are wrong variants, used by no specification  *)
(* (see module Board).                                                      *)
(***************************************************************************)
EXTENDS Integers, Sequences, SequencesExt, FiniteSetsExt, Lists

NoScore == -1
General == "general"
Blank == {"blank"}
Redacted == {"redacted"}

Facts(ms) == {ms[k].fact : k \in DOMAIN ms}

-----------------------------------------------------------------------------
(* Recall.                                                                 *)

AppendNew(ms, m) == IF m.fact \in Facts(ms) THEN ms ELSE Append(ms, m)

\* Slip: a later memory replaces the earlier one of the same fact.
Slip_LastWins(agentHits, userHits) ==
  Reverse(FoldLeft(AppendNew, <<>>, Reverse(agentHits \o userHits)))

\* recall of MemoryService, with merge_user_scope: the first memory of a fact.
Merged(agentHits, userHits) == FoldLeft(AppendNew, <<>>, agentHits \o userHits)

AppendNamed(ms, m) == IF m.fact = "" THEN ms ELSE AppendNew(ms, m)

\* Slip: the agent's hits are not looked at.
Slip_NativeAppendAll(primary, user, topK) ==
  Cut(primary, topK) \o Cut(user, topK)

\* recall of NativeMemoryService: both hit lists are cut to top_k here.
NativeMerged(primary, user, topK) ==
  FoldLeft(AppendNamed, Cut(primary, topK), Cut(user, topK))

\* _parse_memory_item and the validator of Memory: an old record's single topic
\* is promoted, unless it has a list (the service sends "" for no topic).
ParsedTopics(topics, topic) ==
  IF topics # <<"absent">> THEN Kept(topics, LAMBDA t : t # "")
  ELSE IF topic = "" THEN <<>> ELSE <<topic>>

-----------------------------------------------------------------------------
(* The prompt, and the consolidator.                                       *)

PrimaryTopic(m) == IF m.topics = <<>> THEN General ELSE m.topics[1]

\* The topics of ms in order of their first memory, as dict.setdefault keeps them.
TopicOrder(ms) == Firsts([k \in DOMAIN ms |-> PrimaryTopic(ms[k])])

GroupOf(ms, topic) == Kept(ms, LAMBDA m : PrimaryTopic(m) = topic)

MoreImportant(a, b) == a.importance > b.importance

SortByImportance(ms) == Sorted(ms, MoreImportant)

\* Slip: the groups are left in the order of the search.
Slip_Unsorted(ms) == [k \in DOMAIN TopicOrder(ms) |->
  [topic |-> TopicOrder(ms)[k], facts |-> GroupOf(ms, TopicOrder(ms)[k])]]

\* format_for_prompt, as its groups.
PromptGroups(ms) == [k \in DOMAIN TopicOrder(ms) |->
  [topic |-> TopicOrder(ms)[k], facts |-> SortByImportance(GroupOf(ms, TopicOrder(ms)[k]))]]

\* Slip: a group of one is a candidate too.
Slip_AllGroups(ms) == PromptGroups(ms)

\* gather_signal: the groups with something to merge.  A blank first topic counts
\* as general, like none.
Gathered(ms) ==
  LET named == [k \in DOMAIN ms |-> IF PrimaryTopic(ms[k]) = "" THEN [ms[k] EXCEPT !.topics = <<>>] ELSE ms[k]]
      groups == [k \in DOMAIN TopicOrder(named) |->
                   [topic |-> TopicOrder(named)[k], facts |-> GroupOf(named, TopicOrder(named)[k])]]
  IN  Kept(groups, LAMBDA g : Len(g.facts) >= 2)

KeepBefore(a, b) == a.importance > b.importance \/ (a.importance = b.importance /\ a.score > b.score)

\* Slip: the least important ones are kept.
Slip_KeepLast(ms, max) == Cut(Reverse(Sorted(ms, KeepBefore)), max)

\* prune: the max best, by importance and then by score, none below any.
Pruned(ms, max) == Cut(Sorted(ms, KeepBefore), max)

\* run: what the consolidator reports; it changes nothing.
Consolidation(ms, max) ==
  [scanned |-> Len(ms), merged |-> Len(Gathered(ms)), pruned |-> Len(ms) - Len(Pruned(ms, max))]

-----------------------------------------------------------------------------
(* Conversations.                                                          *)

\* The patterns of scrub_pii, in the order in which they are applied.
Patterns == <<"api_key", "aws_key", "google_token", "jwt", "private_key", "credit_card", "ssn", "phone", "email">>

\* The lines of a conversation, before it is scrubbed and after.
Tokens == (SUBSET Range(Patterns)) \cup {Blank}
Line(tokens) == [speaker : {"User", "Agent", ""}, token : tokens]
RawLine == Line(Tokens)
ScrubbedLine == Line(Tokens \cup {Redacted})

Matches(token, category) == category \in token

\* One pattern over the whole text: what it matches is replaced, and counted.
Applied(acc, category) ==
  LET hit == {k \in DOMAIN acc.text : Matches(acc.text[k].token, category)}
  IN  [text   |-> [k \in DOMAIN acc.text |-> IF k \in hit THEN [acc.text[k] EXCEPT !.token = Redacted] ELSE acc.text[k]],
       report |-> IF hit = {} THEN acc.report
                  ELSE [c \in DOMAIN acc.report \cup {category} |-> IF c = category THEN Cardinality(hit) ELSE acc.report[c]]]

\* What scrubbing starts from: nothing is reported yet.
Unscrubbed(text) == [text |-> text, report |-> [c \in {} |-> 0]]

\* Slip: the last pattern is not applied.
Slip_ScrubFront(text) == FoldLeft(Applied, Unscrubbed(text), Front(Patterns))

\* scrub_pii: the text, and how often each category was found.
Scrubbed(text) == FoldLeft(Applied, Unscrubbed(text), Patterns)

Reported(report, category) == IF category \in DOMAIN report THEN report[category] ELSE 0

\* A line without a speaker, such as the second of an answer, is the user's.
Role(line) == IF line.speaker = "Agent" THEN "model" ELSE "user"

\* _parse_conversation_to_events of the client: blank lines are skipped, a
\* speaker without words is not.
ClientEvents(text) ==
  LET lines == Kept(text, LAMBDA l : ~(l.speaker = "" /\ l.token = Blank))
  IN  [k \in DOMAIN lines |-> [role |-> Role(lines[k]), token |-> lines[k].token]]

\* Slip: the speaker's prefix is looked for after the words have been.
Slip_NativeUserOnly(text) ==
  LET lines == Kept(text, LAMBDA l : l.token # Blank)
  IN  [k \in DOMAIN lines |-> [role |-> "user", token |-> lines[k].token]]

\* The native service's: lines without words are skipped, whoever speaks.
NativeEvents(text) ==
  LET lines == Kept(text, LAMBDA l : l.token # Blank)
  IN  [k \in DOMAIN lines |-> [role |-> Role(lines[k]), token |-> lines[k].token]]

-----------------------------------------------------------------------------
(* Properties, for every input.                                            *)

\* A recall names each fact once, leaves none out, and lists what the agent knows
\* before what is known of the user alone, each in the order of its search.
MergeIsExact(agentHits, userHits) ==
  LET all == agentHits \o userHits
      ms == Merged(agentHits, userHits)
      First(fact) == Min({k \in DOMAIN all : all[k].fact = fact})
  IN  /\ Facts(ms) = Facts(all) /\ Len(ms) = Cardinality(Facts(all))
      /\ \A j, k \in DOMAIN ms : j < k => First(ms[j].fact) < First(ms[k].fact)
      /\ \A j \in DOMAIN ms : ms[j] = all[First(ms[j].fact)]

\* The two backends return the same recall when no search returns more than top_k
\* memories, a fact twice, or a memory without a fact.
BackendsRecallAlike(agentHits, userHits, topK) ==
  (/\ Max({Len(agentHits), Len(userHits)}) <= topK
   /\ IsInjective([k \in DOMAIN agentHits |-> agentHits[k].fact])
   /\ "" \notin Facts(agentHits \o userHits))
  => NativeMerged(agentHits, userHits, topK) = Merged(agentHits, userHits)

\* The prompt shows every memory once, under its first topic, the more important
\* first and equally important ones in the order of the search.
PromptShowsAll(ms) ==
  LET gs == PromptGroups(ms)
  IN  /\ IsInjective([g \in DOMAIN gs |-> gs[g].topic])
      /\ {gs[g].topic : g \in DOMAIN gs} = {PrimaryTopic(ms[k]) : k \in DOMAIN ms}
      /\ \A g \in DOMAIN gs :
           LET shown == gs[g].facts
           IN  /\ \A j, k \in DOMAIN shown : j < k => shown[j].importance >= shown[k].importance
               /\ \A v \in {m.importance : m \in Range(ms) \cup Range(shown)} :
                    Kept(shown, LAMBDA m : m.importance = v)
                      = Kept(ms, LAMBDA m : PrimaryTopic(m) = gs[g].topic /\ m.importance = v)

\* A memory as the client parses it from a record.
Parsed(record) ==
  [fact |-> record.fact, topics |-> ParsedTopics(record.topics, record.topic),
   importance |-> record.importance, score |-> record.score]

\* The consolidator's candidates are the groups of two and more that the prompt
\* shows, with the same members: no memory parsed from a record, old or new, is
\* under another topic here than there.
CandidatesAreShown(records) ==
  LET ms == [k \in DOMAIN records |-> Parsed(records[k])]
      shown == {<<g.topic, Range(g.facts)>> : g \in {h \in Range(PromptGroups(ms)) : Len(h.facts) >= 2}}
  IN  {<<g.topic, Range(g.facts)>> : g \in Range(Gathered(ms))} = shown

\* No memory the consolidator would drop is worth more than one it would keep, and
\* it reports what it would drop.
PruneKeepsTheBest(ms, max) ==
  LET kept == Pruned(ms, max)
      dropped == {k \in DOMAIN ms : ~Contains(kept, ms[k])}
  IN  /\ Len(kept) = Min({max, Len(ms)}) /\ Consolidation(ms, max).pruned = Max({0, Len(ms) - max})
      /\ \A k \in dropped, j \in DOMAIN kept : ~KeepBefore(ms[k], kept[j])

\* What reaches the memory bank matches no pattern, the report counts every
\* redaction once, and a second scrub finds nothing.
ScrubIsComplete(text) ==
  LET s == Scrubbed(text)
  IN  /\ \A k \in DOMAIN s.text : \A c \in Range(Patterns) : ~Matches(s.text[k].token, c)
      /\ Scrubbed(s.text) = Unscrubbed(s.text)
      /\ SumOf([p \in DOMAIN Patterns |-> Reported(s.report, Patterns[p])])
           = Cardinality({k \in DOMAIN s.text : s.text[k].token = Redacted})

\* Both backends send the same events, but for those without words, which one of
\* them leaves out; neither loses or reorders a line.
BackendsSendAlike(text) ==
  NativeEvents(text) = Kept(ClientEvents(text), LAMBDA e : e.token # Blank)
=============================================================================
