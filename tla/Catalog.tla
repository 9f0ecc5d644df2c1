------------------------------- MODULE Catalog ------------------------------
(***************************************************************************)
(* The model catalog: the providers and models of CatalogService, the      *)
(* routes that edit them, the seeding at start and the price sync.         *)
(*                                                                         *)
(* The routes are plain functions and run in worker threads, the sync in   *)
(* another: every call to the store is a step, and steps of different      *)
(* calls interleave.  A write replaces the whole document.  A document is  *)
(* abstracted to what the operations treat differently.  A request that is *)
(* refused at once changes nothing and is no step.                         *)
(* Definitions named Slip_... are wrong variants, used by no specification *)
(* (see module Board).                                                     *)
(***************************************************************************)
EXTENDS Integers, FiniteSets

CONSTANTS
  Providers,     \* ids of provider documents, each used once (bound)
  Models,        \* ids of model documents, each used once (bound)
  Names,         \* model_ids; those the seeding wants are Defaults
  Defaults,
  Calls,         \* requests, each made once (bound)
  None, Unused

VARIABLES
  prov,          \* prov[p]: the document of p, None if deleted, Unused before
  model,         \* model[m]: likewise
  call,          \* call[c]: the progress of the request c
  met            \* pairs of calls that overlapped (for properties only)

catalogVars == <<prov, model, call, met>>

Edits == Calls \cup {None}

ProviderDoc == [system : BOOLEAN, key : Edits]

\* price: whether the rates agree with upstream; rate: the call that wrote a rate
\* upstream does not know; note: the one that wrote the other fields; by: all
\* those that wrote (for properties only).
ModelDoc ==
  [prov : Providers, name : Names, price : {"old", "synced"}, rate : Edits, note : Edits, by : SUBSET Calls]

There(docs) == {d \in DOMAIN docs : docs[d] \notin {None, Unused}}

Idle == [pc |-> "idle", op |-> "none", p |-> None, m |-> None, field |-> None, copy |-> None,
         todo |-> {}, at |-> 0]

Busy(c) == call[c].pc \notin {"idle", "over"}

Begun == Cardinality({c \in Calls : call[c].pc # "idle"})

\* The call c begins as r says.
Begin(c, r) ==
  /\ call[c].pc = "idle"
  /\ call' = [call EXCEPT ![c] = [r EXCEPT !.at = Begun + 1]]
  /\ met' = met \cup {{c, d} : d \in {d \in Calls : Busy(d)}}

Goto(c, pc) == call' = [call EXCEPT ![c].pc = pc] /\ UNCHANGED met

-----------------------------------------------------------------------------
(* Providers.                                                              *)

CreateProvider(c, p) ==
  /\ prov[p] = Unused
  /\ Begin(c, [Idle EXCEPT !.pc = "over", !.op = "newProvider", !.p = p])
  /\ prov' = [prov EXCEPT ![p] = [system |-> FALSE, key |-> c]]
  /\ UNCHANGED model

\* update_provider: reads, and is refused if there is nothing to read.
EditProvider(c, p) ==
  /\ p \in There(prov)
  /\ Begin(c, [Idle EXCEPT !.pc = "editProvider", !.op = "editProvider", !.p = p, !.copy = prov[p]])
  /\ UNCHANGED <<prov, model>>

SaveProvider(c) ==
  /\ call[c].pc = "editProvider"
  /\ prov' = [prov EXCEPT ![call[c].p] = [call[c].copy EXCEPT !.key = c]]
  /\ Goto(c, "over") /\ UNCHANGED model

\* delete_provider, by the route: looks, then lists the models.
DeleteProvider(c, p) ==
  /\ p \in There(prov)
  /\ Begin(c, [Idle EXCEPT !.pc = "list", !.op = "deleteProvider", !.p = p])
  /\ UNCHANGED <<prov, model>>

ListModelsOf(c) ==
  /\ call[c].pc = "list"
  /\ call' = [call EXCEPT ![c].pc = "cascade",
                          ![c].todo = {m \in There(model) : model[m].prov = call[c].p}]
  /\ UNCHANGED <<prov, model, met>>

\* Slip: the provider goes alone.
Slip_NoCascade(c) ==
  /\ call[c].pc = "cascade"
  /\ prov' = [prov EXCEPT ![call[c].p] = None] /\ UNCHANGED model
  /\ Goto(c, "over")

\* Its models go one after the other, and the provider last.
Cascade(c) ==
  /\ call[c].pc = "cascade"
  /\ \/ \E m \in call[c].todo :
          /\ model' = [model EXCEPT ![m] = None]
          /\ call' = [call EXCEPT ![c].todo = @ \ {m}]
          /\ UNCHANGED <<prov, met>>
     \/ /\ call[c].todo = {}
        /\ prov' = [prov EXCEPT ![call[c].p] = None] /\ UNCHANGED model
        /\ Goto(c, "over")

-----------------------------------------------------------------------------
(* Models.                                                                 *)

NewModel(c, p, name) ==
  [prov |-> p, name |-> name, price |-> "old", rate |-> None, note |-> None, by |-> {c}]

\* create_model for one name, install_presets for several: the provider has to
\* be there, for the route and before each write.
CreateModels(c, p, names) ==
  /\ p \in There(prov)
  /\ Begin(c, [Idle EXCEPT !.pc = "check", !.op = "createModels", !.p = p, !.todo = names])
  /\ UNCHANGED <<prov, model>>

\* Slip: nothing ends the list of names.
Slip_CheckOnly(c) ==
  /\ call[c].pc = "check"
  /\ Goto(c, IF call[c].p \in There(prov) THEN "write" ELSE "over")
  /\ UNCHANGED <<prov, model>>

CheckProvider(c) ==
  /\ call[c].pc = "check"
  /\ Goto(c, IF call[c].p \in There(prov) /\ call[c].todo # {} THEN "write" ELSE "over")
  /\ UNCHANGED <<prov, model>>

WriteModel(c) ==
  /\ call[c].pc = "write"
  /\ \E m \in Models, name \in call[c].todo :
       /\ model[m] = Unused
       /\ model' = [model EXCEPT ![m] = NewModel(c, call[c].p, name)]
       /\ call' = [call EXCEPT ![c].pc = "check", ![c].todo = @ \ {name}]
  /\ UNCHANGED <<prov, met>>

\* update_model by the route: one field of the request is set.
EditModel(c, m, field) ==
  /\ m \in There(model)
  /\ Begin(c, [Idle EXCEPT !.pc = "edit", !.op = "edit", !.m = m, !.field = field, !.copy = model[m]])
  /\ UNCHANGED <<prov, model>>

\* Slip: the fields that the request leaves out are written as it has them, empty.
Slip_WriteUnset(c) ==
  LET doc == call[c].copy
  IN [doc EXCEPT !.rate = IF call[c].field = "rate" THEN c ELSE None,
                 !.note = IF call[c].field = "note" THEN c ELSE None, !.by = @ \cup {c}]

\* The copy with the fields of the request.
Edited(c) ==
  LET doc == call[c].copy
  IN [doc EXCEPT !.rate = IF call[c].field = "rate" THEN c ELSE @,
                 !.note = IF call[c].field = "note" THEN c ELSE @, !.by = @ \cup {c}]

SaveModel(c) ==
  /\ call[c].pc = "edit"
  /\ model' = [model EXCEPT ![call[c].m] = Edited(c)]
  /\ Goto(c, "over") /\ UNCHANGED prov

DeleteModel(c, m) ==
  /\ m \in There(model)
  /\ Begin(c, [Idle EXCEPT !.pc = "over", !.op = "deleteModel", !.m = m])
  /\ model' = [model EXCEPT ![m] = None]
  /\ UNCHANGED prov

-----------------------------------------------------------------------------
(* seed_system_defaults, run at the start of every process.                *)

Systems == {p \in There(prov) : prov[p].system}

Seed(c) ==
  /\ \/ /\ Systems = {}
        /\ Begin(c, [Idle EXCEPT !.pc = "seedProvider", !.op = "seed"])
     \/ \E p \in Systems : Begin(c, [Idle EXCEPT !.pc = "seedModels", !.op = "seed", !.p = p])
  /\ UNCHANGED <<prov, model>>

SeedProvider(c) ==
  /\ call[c].pc = "seedProvider"
  /\ \E p \in Providers :
       /\ prov[p] = Unused
       /\ prov' = [prov EXCEPT ![p] = [system |-> TRUE, key |-> None]]
       /\ call' = [call EXCEPT ![c].pc = "seedModels", ![c].p = p]
  /\ UNCHANGED <<model, met>>

\* Slip: every default is created, listed or not.
Slip_SeedAll(c) ==
  /\ call[c].pc = "seedModels"
  /\ call' = [call EXCEPT ![c].pc = "check", ![c].todo = Defaults]
  /\ UNCHANGED <<prov, model, met>>

\* The defaults that the provider does not have yet are created.
SeedModels(c) ==
  LET has == {model[m].name : m \in {m \in There(model) : model[m].prov = call[c].p}}
  IN /\ call[c].pc = "seedModels"
     /\ call' = [call EXCEPT ![c].pc = "check", ![c].todo = Defaults \ has]
     /\ UNCHANGED <<prov, model, met>>

-----------------------------------------------------------------------------
(* sync_catalog_prices.                                                    *)

\* One of the two price lists was fetched; without any there is no sync.
Sync(c) ==
  /\ Begin(c, [Idle EXCEPT !.pc = "sync", !.op = "sync"])
  /\ UNCHANGED <<prov, model>>

\* list_models: the documents as they are now, those that differ to be updated.
ListModels(c) ==
  /\ call[c].pc = "sync"
  /\ call' = [call EXCEPT ![c].pc = "next",
                ![c].todo = {<<m, model[m]>> : m \in {m \in There(model) : model[m].price = "old"}}]
  /\ UNCHANGED <<prov, model, met>>

NoneLeft(c) == call[c].todo = {} /\ Goto(c, "over") /\ UNCHANGED <<prov, model>>

\* Slip: the first model that is gone ends the sync.
Slip_StopAtError(c) ==
  /\ call[c].pc = "next"
  /\ \/ NoneLeft(c)
     \/ \E todo \in call[c].todo :
          /\ call' = [call EXCEPT
               ![c].pc = IF todo[1] \in There(model) THEN "price" ELSE "over", ![c].m = todo[1],
               ![c].copy = [fresh |-> model[todo[1]], listed |-> todo[2]], ![c].todo = @ \ {todo}]
          /\ UNCHANGED <<prov, model, met>>

\* update_model for the next of them: it reads the document again; one that is
\* gone is an error that is counted.
NextUpdate(c) ==
  /\ call[c].pc = "next"
  /\ \/ NoneLeft(c)
     \/ \E todo \in call[c].todo :
          /\ call' = [call EXCEPT
               ![c].pc = IF todo[1] \in There(model) THEN "price" ELSE "next", ![c].m = todo[1],
               ![c].copy = [fresh |-> model[todo[1]], listed |-> todo[2]], ![c].todo = @ \ {todo}]
          /\ UNCHANGED <<prov, model, met>>

\* Slip: only the rates upstream knows are written.
Slip_DropRate(c) == [call[c].copy.fresh EXCEPT !.price = "synced", !.rate = None, !.by = @ \cup {c}]

\* The cost is merged from the listed copy, the rest from the fresh one.
Priced(c) ==
  LET copy == call[c].copy
  IN [copy.fresh EXCEPT !.price = "synced", !.rate = copy.listed.rate, !.by = @ \cup {c}]

WritePrice(c) ==
  /\ call[c].pc = "price"
  /\ model' = [model EXCEPT ![call[c].m] = Priced(c)]
  /\ Goto(c, "next") /\ UNCHANGED prov

-----------------------------------------------------------------------------

\* The catalog is empty, or has a provider with a model.
CatalogInit ==
  /\ \E old \in SUBSET (Providers \X Models), name \in Names, system \in BOOLEAN :
       /\ Cardinality(old) <= 1
       /\ prov = [p \in Providers |-> IF \E o \in old : o[1] = p
                                      THEN [system |-> system, key |-> None] ELSE Unused]
       /\ model = [m \in Models |-> IF \E o \in old : o[2] = m
                     THEN [NewModel(None, (CHOOSE o \in old : TRUE)[1], name) EXCEPT !.by = {}]
                     ELSE Unused]
  /\ call = [c \in Calls |-> Idle]
  /\ met = {}

CatalogNext ==
  \E c \in Calls :
    \/ \E p \in Providers : \/ CreateProvider(c, p) \/ EditProvider(c, p) \/ DeleteProvider(c, p)
                            \/ \E names \in SUBSET Names \ {{}} : CreateModels(c, p, names)
    \/ \E m \in Models : \/ DeleteModel(c, m)
                         \/ \E field \in {"rate", "note"} : EditModel(c, m, field)
    \/ SaveProvider(c) \/ ListModelsOf(c) \/ Cascade(c)
    \/ CheckProvider(c) \/ WriteModel(c) \/ SaveModel(c)
    \/ Seed(c) \/ SeedProvider(c) \/ SeedModels(c)
    \/ Sync(c) \/ ListModels(c) \/ NextUpdate(c) \/ WritePrice(c)

CatalogSpec == CatalogInit /\ [][CatalogNext]_catalogVars

-----------------------------------------------------------------------------
(* Properties.                                                             *)

CatalogTypeOK ==
  /\ \A p \in Providers : prov[p] \in ProviderDoc \cup {None, Unused}
  /\ \A m \in Models : model[m] \in ModelDoc \cup {None, Unused}
  /\ \A c \in Calls : /\ call[c].pc = "over" => call[c].op # "none"
                      /\ call[c].pc = "write" => call[c].todo # {}

\* A model without its provider was written by a call that overlapped the
\* provider's deletion: the cascade leaves none behind, however it interleaves
\* with calls that began after it or ended before.
OrphansNeedOverlap ==
  \A m \in There(model) :
    model[m].prov \in There(prov)
      \/ \E d \in Calls : /\ call[d].op = "deleteProvider" /\ call[d].p = model[m].prov
                          /\ \E c \in model[m].by : {c, d} \in met

\* An edit that overlapped no other call stays, until the same field is edited
\* again: no edit of another field and no later price sync takes it back.
EditsSurvive ==
  \A c \in Calls :
    (/\ call[c].op = "edit" /\ call[c].pc = "over" /\ call[c].copy \in ModelDoc
     /\ \A d \in Calls : {c, d} \notin met \/ c = d)
      => LET doc == model[call[c].m]
             last == IF doc = None THEN c ELSE doc[call[c].field]
         IN last # None /\ call[last].at >= call[c].at

\* A sync that is over has brought every model up to date but those written by
\* calls that overlapped it or came later: a model deleted under it, or one
\* whose document somebody edits, does not keep the others from their prices.
SyncReachesAll ==
  \A c \in Calls : (call[c].op = "sync" /\ call[c].pc = "over") =>
    \A m \in There(model) :
      model[m].price = "synced" \/ \E w \in model[m].by : {c, w} \in met \/ call[w].at > call[c].at

\* Seeding again adds nothing: two system providers, or two of its models with
\* one name, need two seedings at once or a user's call that made the copy.
SeedsOnce ==
  LET together == \E c, d \in Calls : c # d /\ {c, d} \in met /\ call[c].op = "seed"
      seeded(m) == m \in There(model) /\ \E c \in model[m].by : call[c].op = "seed"
  IN \/ together
     \/ /\ Cardinality(Systems) <= 1
        /\ \A m, n \in Models : (seeded(m) /\ seeded(n) /\ m # n)
                                   => model[m].name # model[n].name \/ model[m].prov # model[n].prov

\* The catalog, whatever requests overlap: no orphans, lost edits, forgotten
\* prices or doubled defaults but those that an overlap explains.
CatalogStaysSound == CatalogTypeOK /\ OrphansNeedOverlap /\ EditsSurvive /\ SyncReachesAll /\ SeedsOnce
=============================================================================
