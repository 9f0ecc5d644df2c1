------------------------------ MODULE PromptLog -----------------------------
(***************************************************************************)
(* The prompt log: at the end of a model call's span, on the thread that   *)
(* ran it, PromptLogSpanProcessor builds and redacts two payloads and      *)
(* PromptLogWriter hands each to a pool of worker threads to upload.       *)
(*                                                                         *)
(* The workers share one client, made by the first who needs it.  An       *)
(* upload has no deadline of its own: the timeout in the done-callback is  *)
(* applied to a future that is done.  The library ends every upload, well  *)
(* or not.  The pool outlives shutdown until its queue is empty.           *)
(* Definitions named Slip_... are wrong variants, used by no specification *)
(* (see module Board).                                                     *)
(***************************************************************************)
EXTENDS Integers, Sequences, FiniteSets, SequencesExt

CONSTANTS
  Spans,         \* spans; each ends once (bound)
  MaxWorkers,    \* max_workers
  None

VARIABLES
  span,          \* span[s]: where on_end is with s
  blob,          \* blob[b]: the upload b and the payload it was given
  queue,         \* uploads no worker has taken yet
  client,        \* _client: the upload that made it, or None
  lock,          \* _client_lock: its holder, or None
  open           \* whether the pool takes uploads

promptVars == <<span, blob, queue, client, lock, open>>

Blobs == Spans \X {"prompt", "response"}

PromptLogAssumption ==
  IsFiniteSet(Spans) /\ MaxWorkers \in Nat \ {0} /\ None \notin Blobs

AtWork == {"start", "wait", "make", "upload"}

Working == {b \in Blobs : blob[b].pc \in AtWork}

-----------------------------------------------------------------------------

\* Slip: a failing redaction is swallowed on its own, and the upload goes on.
Slip_UploadAnyway(s) ==
  /\ span[s] = "running"
  /\ \E payload \in {"redacted", "raw", "none"} :
       /\ span' = [span EXCEPT ![s] = IF payload = "none" THEN "over" ELSE "prompt"]
       /\ blob' = [b \in Blobs |-> IF b[1] = s THEN [blob[b] EXCEPT !.payload = payload] ELSE blob[b]]
  /\ UNCHANGED <<queue, client, lock, open>>

\* on_end of a span that is no model call, or whose payloads cannot be built,
\* redacted or encoded, ends here; the others have two payloads to submit.
EndSpan(s) ==
  /\ span[s] = "running"
  /\ \E payload \in {"redacted", "none"} :
       /\ span' = [span EXCEPT ![s] = IF payload = "none" THEN "over" ELSE "prompt"]
       /\ blob' = [b \in Blobs |-> IF b[1] = s THEN [blob[b] EXCEPT !.payload = payload] ELSE blob[b]]
  /\ UNCHANGED <<queue, client, lock, open>>

\* _submit, first of the prompt and then of the response: a pool that was shut
\* down refuses.
Submit(s) ==
  LET b == <<s, span[s]>>
  IN /\ span[s] \in {"prompt", "response"}
     /\ span' = [span EXCEPT ![s] = IF @ = "prompt" THEN "response" ELSE "over"]
     /\ blob' = [blob EXCEPT ![b].pc = IF open THEN "queued" ELSE "refused"]
     /\ queue' = IF open THEN Append(queue, b) ELSE queue
     /\ UNCHANGED <<client, lock, open>>

\* An idle worker takes the oldest upload.
TakeUpload ==
  /\ queue # <<>> /\ Cardinality(Working) < MaxWorkers
  /\ blob' = [blob EXCEPT ![Head(queue)].pc = "start"]
  /\ queue' = Tail(queue)
  /\ UNCHANGED <<span, client, lock, open>>

Move(b, pc) == blob' = [blob EXCEPT ![b].pc = pc] /\ UNCHANGED <<span, queue, open>>

\* _get_bucket's first look, without the lock.
LookForClient(b) ==
  /\ blob[b].pc = "start"
  /\ Move(b, IF client = None THEN "wait" ELSE "upload")
  /\ UNCHANGED <<client, lock>>

\* Slip: no second look under the lock.
Slip_LookOnce(b) ==
  /\ blob[b].pc = "wait" /\ lock = None
  /\ Move(b, "make") /\ lock' = b
  /\ UNCHANGED client

\* The second look, under the lock.
LookAgain(b) ==
  /\ blob[b].pc = "wait" /\ lock = None
  /\ IF client = None THEN Move(b, "make") /\ lock' = b
                      ELSE Move(b, "upload") /\ UNCHANGED lock
  /\ UNCHANGED client

\* The client is made, or cannot be: then this upload fails.
MakeClient(b) ==
  /\ blob[b].pc = "make" /\ lock' = None
  /\ \/ Move(b, "upload") /\ client' = b
     \/ Move(b, "failed") /\ UNCHANGED client

\* upload_from_string returns or raises; the callback logs the latter.
Upload(b) ==
  /\ blob[b].pc = "upload"
  /\ Move(b, "done") \/ Move(b, "failed")
  /\ UNCHANGED <<client, lock>>

\* Slip: shutdown cancels what is queued.
Slip_CancelQueued ==
  /\ open /\ open' = FALSE /\ queue' = <<>>
  /\ UNCHANGED <<span, blob, client, lock>>

\* shutdown(wait=False, cancel_futures=False).
ClosePool ==
  /\ open /\ open' = FALSE
  /\ UNCHANGED <<span, blob, queue, client, lock>>

-----------------------------------------------------------------------------

PromptInit ==
  /\ span = [s \in Spans |-> "running"]
  /\ blob = [b \in Blobs |-> [pc |-> "none", payload |-> "none"]]
  /\ queue = <<>> /\ client = None /\ lock = None /\ open = TRUE

WorkerStep == TakeUpload \/ \E b \in Blobs : LookForClient(b) \/ LookAgain(b) \/ MakeClient(b) \/ Upload(b)

PromptNext == (\E s \in Spans : EndSpan(s) \/ Submit(s)) \/ WorkerStep \/ ClosePool

\* The operating system runs the workers, the library ends each upload.
PromptSpec == PromptInit /\ [][PromptNext]_promptVars /\ WF_promptVars(WorkerStep)

-----------------------------------------------------------------------------
(* Properties.                                                             *)

PromptTypeOK ==
  /\ span \in [Spans -> {"running", "prompt", "response", "over"}]
  /\ \A b \in Blobs : /\ blob[b].pc \in AtWork \cup {"none", "queued", "refused", "done", "failed"}
                      /\ blob[b].pc = "queued" <=> b \in ToSet(queue)
  /\ Cardinality(Working) <= MaxWorkers
  /\ lock # None => blob[lock].pc = "make"
  /\ {client, lock} \subseteq Blobs \cup {None} /\ open \in BOOLEAN

\* What is handed to the workers was redacted, whatever fails in on_end:
\* PromptLogSpanProcessor.on_end, "Redaction MUST run before upload".
OnlyRedactedLeaves == \A b \in Blobs : blob[b].pc # "none" => blob[b].payload = "redacted"

\* The workers never replace a client that another already uses: _get_bucket's
\* two looks around the lock.
ClientIsMadeOnce == [][client # None => client' = client]_promptVars

\* An upload the pool accepted is carried out or fails, a shutdown and a client
\* that cannot be made notwithstanding.
AcceptedUploadsEnd == \A b \in Blobs : (blob[b].pc = "queued") ~> (blob[b].pc \in {"done", "failed"})

\* The prompt log: only what is redacted leaves the process, over one client.
PromptLogIsSafe == []PromptTypeOK /\ []OnlyRedactedLeaves /\ ClientIsMadeOnce
=============================================================================
