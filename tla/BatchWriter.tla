----------------------------- MODULE BatchWriter ----------------------------
(***************************************************************************)
(* BigQueryAnalyticsWriter: rows wait in a buffer; the periodic task, the  *)
(* tasks that a full buffer asks for, and the shutdown take them off it    *)
(* and have a worker thread write them.                                    *)
(*                                                                         *)
(* The tasks are coroutines of one event loop and interleave at the waits  *)
(* for their threads; the buffer is swapped under a lock.  A wait ends     *)
(* after a second; the thread goes on.  enqueue is called at the end of    *)
(* every span, on any thread.                                              *)
(* Definitions named Slip_... are wrong variants, used by no specification *)
(* (see module Board).                                                     *)
(***************************************************************************)
EXTENDS Integers, FiniteSets

CONSTANTS
  Rows,          \* rows; each is enqueued once (bound)
  MaxBuffer,     \* max_buffer_rows
  WriteFaults    \* what may happen to a write: "error", "timeout"

VARIABLES
  buffer,        \* rows waiting
  batches,       \* batches[w]: those taken by the task w
  flusher,       \* the state of the tasks
  lateRows,      \* rows enqueued after shutdown had begun (for properties only)
  fresh          \* rows that are still to come

writerVars == <<buffer, batches, flusher, lateRows, fresh>>

ASSUME BatchWriterAssumption ==
  /\ IsFiniteSet(Rows) /\ MaxBuffer \in Nat \ {0} /\ WriteFaults \subseteq {"error", "timeout"}

Flushers == {"loop", "asked", "stop"}

\* state: waited for, left to its thread, or over; told: reported as dropped.
Batch == [rows : SUBSET Rows, state : {"waited", "left", "written", "failed"}, told : BOOLEAN]

Waited(w) == \E b \in batches[w] : b.state = "waited"

\* Slip: a flush is asked for only when the buffer is over its bound.
Slip_FullAfter(rows) == Cardinality(rows) > MaxBuffer

Full(rows) == Cardinality(rows) >= MaxBuffer

\* enqueue, and _schedule_flush if the buffer is full and there is a loop.
Enqueue(r) ==
  /\ r \in fresh
  /\ buffer' = buffer \cup {r}
  /\ flusher' = IF Full(buffer') /\ flusher.loop # "none"
                THEN [flusher EXCEPT !.asked = @ + 1] ELSE flusher
  /\ lateRows' = IF flusher.stop = "none" THEN lateRows ELSE lateRows \cup {r}
  /\ fresh' = fresh \ {r}
  /\ UNCHANGED batches

\* start: once, and not after shutdown.
Start ==
  /\ flusher.loop = "none" /\ flusher.stop = "none"
  /\ flusher' = [flusher EXCEPT !.loop = "sleep"]
  /\ UNCHANGED <<buffer, batches, lateRows, fresh>>

\* Slip: the rows stay in the buffer until their write is over.
Slip_CopyBuffer(w) ==
  /\ UNCHANGED buffer
  /\ batches' = IF buffer = {} THEN batches
                ELSE [batches EXCEPT ![w] = @ \cup
                        {[rows |-> buffer, state |-> "waited", told |-> FALSE]}]

\* _flush_once up to its wait: the buffer is swapped for an empty one.
TakeBatch(w) ==
  /\ buffer' = {}
  /\ batches' = IF buffer = {} THEN batches
                ELSE [batches EXCEPT ![w] = @ \cup
                        {[rows |-> buffer, state |-> "waited", told |-> FALSE]}]

\* The sleep of the loop is over.
PeriodicFlush ==
  /\ flusher.loop = "sleep"
  /\ TakeBatch("loop")
  /\ flusher' = [flusher EXCEPT !.loop = "flush"]
  /\ UNCHANGED <<lateRows, fresh>>

\* Slip: a flush that timed out ends the loop.
Slip_LoopDies ==
  /\ flusher.loop = "flush" /\ ~Waited("loop")
  /\ flusher' = [flusher EXCEPT !.loop = IF \E b \in batches["loop"] : b.told THEN "stopped" ELSE "sleep"]
  /\ UNCHANGED <<buffer, batches, lateRows, fresh>>

\* Its flush is over: it sleeps again, unless the writer was closed.
LoopTurns ==
  /\ flusher.loop = "flush" /\ ~Waited("loop")
  /\ flusher' = [flusher EXCEPT !.loop = IF flusher.stop = "none" THEN "sleep" ELSE "stopped"]
  /\ UNCHANGED <<buffer, batches, lateRows, fresh>>

\* A flush that a full buffer asked for, in a task of its own.
AskedFlush ==
  /\ flusher.asked > 0
  /\ TakeBatch("asked")
  /\ flusher' = [flusher EXCEPT !.asked = @ - 1]
  /\ UNCHANGED <<lateRows, fresh>>

BatchEnds(w, b, state, told) ==
  /\ batches' = [batches EXCEPT ![w] = (@ \ {b}) \cup {[b EXCEPT !.state = state, !.told = told]}]
  /\ UNCHANGED <<buffer, flusher, lateRows, fresh>>

\* The thread has written the rows, or has not: for an error, which is
\* reported, or for want of a client, which is not.
WriteBatch(w, b) ==
  /\ b.state \in {"waited", "left"}
  /\ \/ BatchEnds(w, b, "written", b.told)
     \/ /\ "error" \in WriteFaults
        /\ \E told \in {b.told, TRUE} : BatchEnds(w, b, "failed", told)

\* The wait is over first: the rows are reported as dropped, the thread goes on.
FlushTimesOut(w, b) ==
  /\ b.state = "waited" /\ "timeout" \in WriteFaults
  /\ BatchEnds(w, b, "left", TRUE)

\* Slip: shutdown cancels the loop's task without a flush.
Slip_NoLastFlush ==
  /\ flusher.stop = "none"
  /\ flusher' = [flusher EXCEPT !.stop = IF flusher.loop = "none" THEN "done" ELSE "flush"]
  /\ UNCHANGED <<buffer, batches, lateRows, fresh>>

\* shutdown: closed; if there is a loop's task, one last flush.
Shutdown ==
  /\ flusher.stop = "none"
  /\ IF flusher.loop = "none"
     THEN flusher' = [flusher EXCEPT !.stop = "done"] /\ UNCHANGED <<buffer, batches>>
     ELSE flusher' = [flusher EXCEPT !.stop = "flush"] /\ TakeBatch("stop")
  /\ UNCHANGED <<lateRows, fresh>>

\* The last flush is over: the loop's task is cancelled, and a batch it waits
\* for is left to its thread.
Stopped ==
  /\ flusher.stop = "flush" /\ ~Waited("stop")
  /\ flusher' = [flusher EXCEPT !.stop = "done", !.loop = "stopped"]
  /\ batches' = [batches EXCEPT !["loop"] =
                   {IF b.state = "waited" THEN [b EXCEPT !.state = "left"] ELSE b : b \in @}]
  /\ UNCHANGED <<buffer, lateRows, fresh>>

-----------------------------------------------------------------------------

WriterInit ==
  /\ buffer = {} /\ lateRows = {} /\ fresh = Rows
  /\ batches = [w \in Flushers |-> {}]
  /\ flusher = [loop |-> "none", asked |-> 0, stop |-> "none"]

BatchStep == \E w \in Flushers : \E b \in batches[w] : WriteBatch(w, b) \/ FlushTimesOut(w, b)

WriterNext ==
  \/ \E r \in Rows : Enqueue(r)
  \/ Start \/ PeriodicFlush \/ LoopTurns \/ AskedFlush \/ BatchStep \/ Shutdown \/ Stopped

\* The event loop runs its tasks, and each wait for a write ends.
WriterFairness ==
  /\ WF_writerVars(PeriodicFlush) /\ WF_writerVars(LoopTurns) /\ WF_writerVars(AskedFlush)
  /\ WF_writerVars(Stopped) /\ WF_writerVars(BatchStep)

WriterSpec == WriterInit /\ [][WriterNext]_writerVars /\ WriterFairness

-----------------------------------------------------------------------------
(* Properties.                                                             *)

WriterTypeOK ==
  /\ buffer \subseteq Rows /\ lateRows \subseteq Rows /\ fresh \subseteq Rows
  /\ \A w \in Flushers : batches[w] \subseteq Batch
  /\ flusher.loop \in {"none", "sleep", "flush", "stopped"}
  /\ flusher.stop \in {"none", "flush", "done"} /\ flusher.asked \in 0 .. Cardinality(Rows)

\* Every row enqueued is in the buffer or in one batch: concurrent flushes, a
\* timeout or the shutdown neither write a row twice nor forget it.
RowsHaveOnePlace ==
  \A r \in Rows \ fresh :
    LET holders == {w \in Flushers \X UNION {batches[w] : w \in Flushers} :
                      w[2] \in batches[w[1]] /\ r \in w[2].rows}
    IN Cardinality(holders) + Cardinality(buffer \cap {r}) = 1

\* What a shutdown that flushes leaves in the buffer came after it began.
ShutdownDrains ==
  (flusher.stop = "done" /\ flusher.loop = "stopped") => buffer \subseteq lateRows

\* A full buffer has a flush coming, once the writer was started: even late
\* rows cannot pile up.
FullBufferIsFlushed ==
  (Cardinality(buffer) >= MaxBuffer /\ flusher.loop # "none") => flusher.asked > 0 \/ flusher.loop \in {"sleep", "flush"}

\* With the loop started, a row leaves the buffer, or the writer is shut down.
RowsLeave ==
  \A r \in Rows : (r \in buffer /\ flusher.loop # "none") ~> (r \notin buffer \/ flusher.stop # "none")

\* BigQueryAnalyticsWriter: every row is accounted for, through full buffers,
\* timeouts and a shutdown.
RowsAreAccountedFor == WriterTypeOK /\ RowsHaveOnePlace /\ ShutdownDrains /\ FullBufferIsFlushed
=============================================================================
