---------------------------- MODULE SharedContext ---------------------------
(***************************************************************************)
(* SharedContextService: entries in a store, large contents as blobs in a  *)
(* bucket that deletes them after 30 days.                                 *)
(*                                                                         *)
(* Routes run in worker threads and agents' tools on the event loop, of    *)
(* several processes: every call to either store is a step, may fail, and  *)
(* then ends its request.  An entry says when it expires; delete_expired,  *)
(* which would remove it then, has no caller and is left out.              *)
(* Definitions named Slip_... are wrong variants, used by no specification *)
(* (see module Board).                                                     *)
(***************************************************************************)
EXTENDS Integers, FiniteSets

CONSTANTS
  Entries,       \* ids of entries, each written once (bound)
  Calls,         \* deletions and readings, each made once (bound)
  MaxAge         \* readings of the clock (bound); blobs older than 1 expire

VARIABLES
  entry,         \* entry[e]: the progress of e's writer, and the document
  blobs,         \* blobs[e]: the age of e's blob in the bucket, or Gone
  bucket,        \* the bucket, as it is and as the process knows it
  deletion,      \* deletion[c]: the progress of a deletion
  faults         \* entries one of whose calls failed (for properties only)

contextVars == <<entry, blobs, bucket, deletion, faults>>

Gone == -1

Doc == {"none", "inline", "blob"}

NoDeletion == [pc |-> "idle", of |-> {}, doc |-> "none"]

Fault(e) == faults' = faults \cup {e}

-----------------------------------------------------------------------------
(* BlobStore.                                                              *)

\* Slip: a bucket is made without the rule.
Slip_NoRule ==
  /\ ~bucket.ready
  /\ bucket' = [exists |-> TRUE, rule |-> bucket.rule, ready |-> TRUE, patched |-> bucket.patched]
  /\ UNCHANGED <<entry, blobs, deletion, faults>>

\* ensure_bucket, before an upload: a bucket that is there is ready; a new one
\* gets its rule in a second call.  patched: that call did not fail.
EnsureBucket ==
  /\ ~bucket.ready
  /\ \/ bucket.exists /\ bucket' = [bucket EXCEPT !.ready = TRUE]
     \/ ~bucket.exists /\ bucket' = [exists |-> TRUE, rule |-> TRUE, ready |-> TRUE, patched |-> TRUE]
     \/ ~bucket.exists /\ bucket' = [bucket EXCEPT !.exists = TRUE, !.patched = FALSE]
  /\ UNCHANGED <<entry, blobs, deletion, faults>>

\* The process begins anew and knows of no bucket.
Restart ==
  /\ bucket.ready /\ bucket' = [bucket EXCEPT !.ready = FALSE]
  /\ faults' = faults \cup {e \in Entries : entry[e].pc \in {"upload", "create"}}
                      \cup UNION {deletion[c].of : c \in {c \in Calls : deletion[c].pc \in {"blob", "doc"}}}
  /\ entry' = [e \in Entries |-> IF entry[e].pc \in {"upload", "create"} THEN [entry[e] EXCEPT !.pc = "over"]
                                 ELSE entry[e]]
  /\ deletion' = [c \in Calls |-> IF deletion[c].pc \in {"blob", "doc"} THEN [deletion[c] EXCEPT !.pc = "over"]
                                  ELSE deletion[c]]
  /\ UNCHANGED blobs

\* A day passes, while nobody writes: the bucket's rule removes what is too old.
Age ==
  /\ \E e \in Entries : blobs[e] \in 0 .. MaxAge - 1
  /\ \A e \in Entries : entry[e].pc \notin {"upload", "create"}
  /\ entry' = [e \in Entries |-> [entry[e] EXCEPT !.age = IF @ < MaxAge /\ entry[e].had THEN @ + 1 ELSE @]]
  /\ blobs' = [e \in Entries |-> IF blobs[e] = Gone \/ (bucket.rule /\ blobs[e] >= 1) THEN Gone
                                 ELSE IF blobs[e] < MaxAge THEN blobs[e] + 1 ELSE blobs[e]]
  /\ UNCHANGED <<bucket, deletion, faults>>

-----------------------------------------------------------------------------
(* Writing.                                                                *)

\* write_text and write_image: what is small enough goes into the document.
BeginWrite(e) ==
  /\ entry[e].pc = "idle"
  /\ \E kind \in {"inline", "blob"} :
       entry' = [entry EXCEPT ![e] = [pc |-> IF kind = "blob" THEN "upload" ELSE "create",
                                      kind |-> kind, doc |-> "none", had |-> FALSE, age |-> 0]]
  /\ UNCHANGED <<blobs, bucket, deletion, faults>>

Upload(e) ==
  /\ entry[e].pc = "upload" /\ bucket.ready
  /\ blobs' = [blobs EXCEPT ![e] = 0]
  /\ entry' = [entry EXCEPT ![e].pc = "create"]
  /\ UNCHANGED <<bucket, deletion, faults>>

\* Slip: the document is written before the blob.
Slip_CreateFirst(e) ==
  /\ entry[e].pc \in {"upload", "create"} /\ entry[e].doc = "none"
  /\ entry' = [entry EXCEPT ![e].pc = IF @ = "upload" THEN @ ELSE "over", ![e].doc = entry[e].kind,
                            ![e].had = TRUE]
  /\ UNCHANGED <<blobs, bucket, deletion, faults>>

Create(e) ==
  /\ entry[e].pc = "create"
  /\ entry' = [entry EXCEPT ![e].pc = "over", ![e].doc = entry[e].kind, ![e].had = TRUE]
  /\ UNCHANGED <<blobs, bucket, deletion, faults>>

WriteFails(e) ==
  /\ entry[e].pc \in {"upload", "create"}
  /\ entry' = [entry EXCEPT ![e].pc = "over"]
  /\ Fault(e) /\ UNCHANGED <<blobs, bucket, deletion>>

-----------------------------------------------------------------------------
(* Deleting.                                                               *)

BeginDelete(c, e) ==
  /\ deletion[c].pc = "idle" /\ entry[e].doc # "none"
  /\ deletion' = [deletion EXCEPT ![c] = [of |-> {e}, doc |-> entry[e].doc,
                                          pc |-> IF entry[e].doc = "blob" THEN "blob" ELSE "doc"]]
  /\ UNCHANGED <<entry, blobs, bucket, faults>>

\* A failure to delete the blob is logged, and the document goes all the same.
DeleteBlob(c) ==
  /\ deletion[c].pc = "blob"
  /\ \E e \in deletion[c].of :
       \/ blobs' = [blobs EXCEPT ![e] = Gone] /\ UNCHANGED faults
       \/ UNCHANGED blobs /\ Fault(e)
  /\ deletion' = [deletion EXCEPT ![c].pc = "doc"]
  /\ UNCHANGED <<entry, bucket>>

\* Slip: the document alone is deleted.
Slip_KeepBlob(c) ==
  /\ deletion[c].pc \in {"blob", "doc"}
  /\ deletion' = [deletion EXCEPT ![c].pc = "over"]
  /\ entry' = [e \in Entries |-> IF e \in deletion[c].of THEN [entry[e] EXCEPT !.doc = "none"] ELSE entry[e]]
  /\ UNCHANGED <<blobs, bucket, faults>>

DeleteDoc(c) ==
  /\ deletion[c].pc = "doc"
  /\ deletion' = [deletion EXCEPT ![c].pc = "over"]
  /\ \/ /\ entry' = [e \in Entries |-> IF e \in deletion[c].of THEN [entry[e] EXCEPT !.doc = "none"] ELSE entry[e]]
        /\ UNCHANGED faults
     \/ faults' = faults \cup deletion[c].of /\ UNCHANGED entry
  /\ UNCHANGED <<blobs, bucket>>

-----------------------------------------------------------------------------

ContextInit ==
  /\ entry = [e \in Entries |-> [pc |-> "idle", kind |-> "inline", doc |-> "none", had |-> FALSE, age |-> 0]]
  /\ blobs = [e \in Entries |-> Gone]
  /\ bucket = [exists |-> FALSE, rule |-> FALSE, ready |-> FALSE, patched |-> TRUE]
  /\ deletion = [c \in Calls |-> NoDeletion]
  /\ faults = {}

ContextNext ==
  \/ \E e \in Entries : BeginWrite(e) \/ Upload(e) \/ Create(e) \/ WriteFails(e)
  \/ \E c \in Calls : DeleteBlob(c) \/ DeleteDoc(c) \/ \E e \in Entries : BeginDelete(c, e)
  \/ EnsureBucket \/ Restart \/ Age

ContextSpec == ContextInit /\ [][ContextNext]_contextVars

-----------------------------------------------------------------------------
(* Properties.                                                             *)

ContextTypeOK ==
  /\ \A e \in Entries : /\ entry[e].pc \in {"idle", "upload", "create", "over"} /\ entry[e].doc \in Doc
                        /\ entry[e].doc # "none" => entry[e].had /\ entry[e].doc = entry[e].kind
  /\ blobs \in [Entries -> Gone .. MaxAge]
  /\ bucket.ready => bucket.exists

Deleting(e) == {c \in Calls : e \in deletion[c].of /\ deletion[c].pc \in {"blob", "doc"}}

\* An entry that has not expired has the blob that it names, unless a deletion
\* has begun or was cut off: the bucket removes no blob before its entry's time.
EntriesHaveBlobs ==
  \A e \in Entries :
    (entry[e].doc = "blob" /\ Deleting(e) = {} /\ e \notin faults /\ entry[e].age <= 1) => blobs[e] # Gone

\* A blob has its entry: but for one being written or deleted, and those of a
\* call that failed.
BlobsHaveEntries ==
  \A e \in Entries :
    (blobs[e] # Gone /\ e \notin faults /\ entry[e].pc = "over") => entry[e].doc = "blob"

\* A bucket that is in use removes old blobs, unless the call that would have
\* set its rule failed: then no later start sets it.
UsedBucketsExpire == (bucket.ready /\ bucket.patched) => bucket.rule

\* The index and the store of blobs agree, but for what the bucket's rule expires.
ContextIsWhole == ContextTypeOK /\ EntriesHaveBlobs /\ BlobsHaveEntries /\ UsedBucketsExpire
=============================================================================
