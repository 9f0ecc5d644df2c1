------------------------------ MODULE CostLookup ----------------------------
(***************************************************************************)
(* build_catalog_cost_lookup: the cache of model rates that the usage      *)
(* recorder, the live view and the BigQuery rows all ask, from whichever   *)
(* thread ended the span, over a catalog that changes.                     *)
(*                                                                         *)
(* Nothing guards the cache.  Any unknown name clears it and fills it      *)
(* again, entry by entry, so the steps of two lookups can interleave.      *)
(* build_catalog_context_lookup has the same shape.                        *)
(* Definitions named Slip_... are wrong variants, used by no specification *)
(* (see module Board).                                                     *)
(***************************************************************************)
EXTENDS Integers, Sequences, FiniteSets

CONSTANTS
  Names,         \* model_ids a span may name
  Threads,       \* threads that end spans; each looks up MaxLookups times (bound)
  MaxLookups,
  MaxEdits,      \* changes of the catalog (bound)
  None

VARIABLES
  catalog,       \* catalog[n]: the rate of the enabled model n, or None
  cache,         \* cache[n]: the rate cached for n, or None if n has no entry
  thread,        \* thread[t]: the progress of t's lookup
  edits          \* the changes made to the catalog

costVars == <<catalog, cache, thread, edits>>

Rates == 1 .. (MaxEdits + 1)

Empty == [n \in Names |-> None]

\* todo: what a refresh has still to store.  From here only properties read:
\* known: the name was in the catalog when the lookup began and nothing changed
\* since; crossed: another thread was refreshing during this lookup; failed: the
\* listing failed.
Rest == [pc |-> "rest", n |-> None, todo |-> Empty, known |-> FALSE, crossed |-> FALSE,
         failed |-> FALSE, cost |-> None, left |-> MaxLookups]

Refreshing(t) == thread[t].pc \in {"clear", "list", "fill"}

Others(t) == Threads \ {t}

\* t goes on at pc; if it begins to refresh, the lookups in progress are crossed.
Goto(t, r) ==
  thread' = [u \in Threads |->
               IF u = t THEN r
               ELSE IF r.pc = "clear" /\ thread[u].pc \notin {"rest"} THEN [thread[u] EXCEPT !.crossed = TRUE]
               ELSE thread[u]]

\* Slip: only an empty cache is filled.
Slip_RefreshOnce(t, n) ==
  /\ thread[t].pc = "rest" /\ thread[t].left > 0
  /\ Goto(t, [Rest EXCEPT !.pc = IF cache = Empty THEN "clear" ELSE "again", !.n = n,
                          !.known = catalog[n] # None, !.left = thread[t].left - 1,
                          !.crossed = \E u \in Others(t) : Refreshing(u)])
  /\ UNCHANGED <<catalog, cache, edits>>

\* A lookup: the first look into the cache.
Lookup(t, n) ==
  /\ thread[t].pc = "rest" /\ thread[t].left > 0
  /\ Goto(t, [Rest EXCEPT !.pc = IF cache[n] = None THEN "clear" ELSE "again", !.n = n,
                          !.known = catalog[n] # None, !.left = thread[t].left - 1,
                          !.crossed = \E u \in Others(t) : Refreshing(u)])
  /\ UNCHANGED <<catalog, cache, edits>>

Clear(t) ==
  /\ thread[t].pc = "clear"
  /\ cache' = Empty
  /\ Goto(t, [thread[t] EXCEPT !.pc = "list"])
  /\ UNCHANGED <<catalog, edits>>

\* list_models; a failure leaves the cache empty.
List(t) ==
  /\ thread[t].pc = "list"
  /\ \E fails \in BOOLEAN :
       Goto(t, IF fails THEN [thread[t] EXCEPT !.pc = "again", !.failed = TRUE]
                        ELSE [thread[t] EXCEPT !.pc = "fill", !.todo = catalog])
  /\ UNCHANGED <<catalog, cache, edits>>

\* Slip: an entry that is there ends the refresh.
Slip_StopAtEntry(t) ==
  /\ thread[t].pc = "fill"
  /\ IF \E n \in Names : cache[n] # None
     THEN UNCHANGED cache /\ Goto(t, [thread[t] EXCEPT !.pc = "again"])
     ELSE \E n \in Names : /\ thread[t].todo[n] # None
                           /\ cache' = [cache EXCEPT ![n] = thread[t].todo[n]]
                           /\ Goto(t, [thread[t] EXCEPT !.todo[n] = None])
  /\ UNCHANGED <<catalog, edits>>

\* The listed models one by one, in any order; entries that are there stay.
Fill(t) ==
  /\ thread[t].pc = "fill"
  /\ \/ \E n \in Names :
          /\ thread[t].todo[n] # None
          /\ cache' = [cache EXCEPT ![n] = IF @ = None THEN thread[t].todo[n] ELSE @]
          /\ Goto(t, [thread[t] EXCEPT !.todo[n] = None])
     \/ /\ thread[t].todo = Empty /\ UNCHANGED cache
        /\ Goto(t, [thread[t] EXCEPT !.pc = "again"])
  /\ UNCHANGED <<catalog, edits>>

\* The second look: without an entry the cost is unknown.
LookAgain(t) ==
  /\ thread[t].pc = "again"
  /\ Goto(t, [thread[t] EXCEPT !.pc = IF cache[thread[t].n] = None THEN "unknown" ELSE "read"])
  /\ UNCHANGED <<catalog, cache, edits>>

\* The read: an entry that went meanwhile is a KeyError, which the callers
\* swallow as an unknown cost.
Read(t) ==
  LET rate == cache[thread[t].n]
  IN /\ thread[t].pc = "read"
     /\ Goto(t, [thread[t] EXCEPT !.pc = IF rate = None THEN "unknown" ELSE "told", !.cost = rate])
     /\ UNCHANGED <<catalog, cache, edits>>

Return(t) ==
  /\ thread[t].pc \in {"unknown", "told"}
  /\ Goto(t, [Rest EXCEPT !.left = thread[t].left])
  /\ UNCHANGED <<catalog, cache, edits>>

\* A model is added, priced anew, or disabled.
Edit(n) ==
  /\ edits < MaxEdits /\ edits' = edits + 1
  /\ \E rate \in {None, edits + 2} : catalog' = [catalog EXCEPT ![n] = rate]
  /\ thread' = [t \in Threads |-> IF thread[t].n = n THEN [thread[t] EXCEPT !.known = FALSE] ELSE thread[t]]
  /\ UNCHANGED cache

CostInit ==
  /\ catalog \in [Names -> {None, 1}]
  /\ cache = Empty /\ edits = 0
  /\ thread = [t \in Threads |-> Rest]

CostNext ==
  \/ \E t \in Threads : \/ \E n \in Names : Lookup(t, n)
                        \/ Clear(t) \/ List(t) \/ Fill(t) \/ LookAgain(t) \/ Read(t) \/ Return(t)
  \/ \E n \in Names : Edit(n)

CostSpec == CostInit /\ [][CostNext]_costVars

-----------------------------------------------------------------------------
(* Properties.                                                             *)

CostTypeOK ==
  /\ {catalog, cache} \subseteq [Names -> Rates \cup {None}]
  /\ \A t \in Threads : /\ thread[t].pc \in {"rest", "clear", "list", "fill", "again", "read", "unknown", "told"}
                        /\ thread[t].todo # Empty => thread[t].pc = "fill"
                        /\ thread[t].pc = "told" => thread[t].cost \in Rates

\* A model the catalog has all along is only unknown if the listing failed, or
\* another thread emptied the cache during the lookup.
UnknownNeedsARace ==
  \A t \in Threads :
    (thread[t].pc = "unknown" /\ thread[t].known) => thread[t].failed \/ thread[t].crossed

\* The cost lookup: a model that has a price is found.
CostsAreFound == CostTypeOK /\ UnknownNeedsARace
=============================================================================
