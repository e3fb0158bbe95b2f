---------------------------- MODULE FetchQueue ----------------------------
(***************************************************************************)
(* The main loop of the archived backfill (archive-ts/scripts/backfill.ts  *)
(* main, fetchAndProcessBatch): the blocks are cut into jobs, fetch        *)
(* workers turn a job into a buffer of rows and push it to a queue, flush  *)
(* workers take buffers from the queue and store them.                     *)
(*                                                                         *)
(* The program is single-threaded: what a worker does between two awaits   *)
(* is one step, which here runs from the end of one await (a fetch, a      *)
(* flush, a timer of 50 ms) to the start of the next.  Blocks are counted  *)
(* from the first of the range.                                            *)
(***************************************************************************)
EXTENDS Integers, Sequences, FiniteSets

CONSTANTS
    Fetcher,   \* CONCURRENCY
    Flusher,   \* FLUSH_WORKERS
    QueueMax,  \* QUEUE_MAX
    MaxSpan,   \* bound: end - start
    MaxBatch   \* bound: BLOCKS_PER_BATCH

ASSUME QueueAssumption ==
    /\ IsFiniteSet(Fetcher) /\ IsFiniteSet(Flusher) /\ Fetcher # {} /\ Flusher # {}
    /\ QueueMax \in Nat \ {0} /\ MaxSpan \in Nat /\ MaxBatch \in Nat \ {0}

VARIABLES
    span,         \* end - start, fixed
    batch,        \* BLOCKS_PER_BATCH, fixed
    next,         \* the jobs are taken in order: the first that is left
    fetcher,      \* worker -> where it is, and on which job
    flushQueue,   \* jobs whose buffers wait
    flusher,      \* worker -> where it is, and on which job
    fetchersDone,
    stored,       \* jobs whose rows were written
    lost,         \* jobs given up: nothing is retried
    ended

queueVars == <<span, batch, next, fetcher, flushQueue, flusher, fetchersDone, stored, lost, ended>>

\* for (from = start; from < end; from += BLOCKS_PER_BATCH)
JobCount == (span + batch - 1) \div batch

\* Mutant: a batch begins at the last block of the one before.
OverlappingBlocks(k) ==
    {b \in k * batch .. span : b <= (k + 1) * batch}

\* from .. min(from + BLOCKS_PER_BATCH - 1, end)
BlocksOf(k) ==
    {b \in k * batch .. span : b <= k * batch + batch - 1}

Jobs == 0 .. JobCount - 1

QueueTypeOK ==
    /\ span \in 0..MaxSpan /\ batch \in 1..MaxBatch
    /\ next \in 0..JobCount
    /\ fetcher \in [Fetcher -> [pc : {"start", "gate", "fetch", "done"}, job : 0..JobCount]]
    /\ flushQueue \in Seq(Jobs)
    /\ flusher \in [Flusher -> [pc : {"poll", "flush", "done"}, job : 0..JobCount]]
    /\ fetchersDone \in BOOLEAN /\ ended \in BOOLEAN
    /\ stored \subseteq Jobs /\ lost \subseteq Jobs

QueueInit ==
    /\ span \in 0..MaxSpan /\ batch \in 1..MaxBatch
    /\ next = 0
    /\ fetcher = [f \in Fetcher |-> [pc |-> "start", job |-> 0]]
    /\ flushQueue = <<>>
    /\ flusher = [w \in Flusher |-> [pc |-> "poll", job |-> 0]]
    /\ fetchersDone = FALSE
    /\ stored = {} /\ lost = {} /\ ended = FALSE

-----------------------------------------------------------------------------
(***************************************************************************)
(* Fetch workers                                                           *)
(***************************************************************************)

\* Mutant: one more buffer is let in.
LateGate(q) == IF Len(q) <= QueueMax THEN "fetch" ELSE "gate"

\* The backpressure: a look at the queue before the fetch, none before the push.
Gate(q) == IF Len(q) < QueueMax THEN "fetch" ELSE "gate"

\* The loop up to its next await, with q in the queue.
TakeJob(f, q) ==
    IF next < JobCount
      THEN /\ fetcher' = [fetcher EXCEPT ![f] = [pc |-> Gate(q), job |-> next]]
           /\ next' = next + 1
      ELSE /\ fetcher' = [fetcher EXCEPT ![f].pc = "done"]
           /\ UNCHANGED next

FetchWorker(f) ==
    /\ fetcher[f].pc = "start"
    /\ TakeJob(f, flushQueue)
    /\ UNCHANGED <<span, batch, flushQueue, flusher, fetchersDone, stored, lost, ended>>

\* The timer of a worker that found the queue full.
PassGate(f) ==
    /\ fetcher[f].pc = "gate" /\ Gate(flushQueue) = "fetch"
    /\ fetcher' = [fetcher EXCEPT ![f].pc = "fetch"]
    /\ UNCHANGED <<span, batch, next, flushQueue, flusher, fetchersDone, stored, lost, ended>>

\* fetchAndProcessBatch returns a buffer, or throws when one of its seven calls fails; a
\* log that cannot be processed is counted and skipped.
FetchAndProcessBatch(f) ==
    /\ fetcher[f].pc = "fetch"
    /\ \/ /\ flushQueue' = Append(flushQueue, fetcher[f].job)
          /\ UNCHANGED lost
       \/ /\ lost' = lost \cup {fetcher[f].job}
          /\ UNCHANGED flushQueue
    /\ TakeJob(f, flushQueue')
    /\ UNCHANGED <<span, batch, flusher, fetchersDone, stored, ended>>

\* Promise.all(fetchTasks) has resolved.
FetchersDone ==
    /\ ~fetchersDone /\ \A f \in Fetcher : fetcher[f].pc = "done"
    /\ fetchersDone' = TRUE
    /\ UNCHANGED <<span, batch, next, fetcher, flushQueue, flusher, stored, lost, ended>>

-----------------------------------------------------------------------------
(***************************************************************************)
(* Flush workers                                                           *)
(***************************************************************************)

\* Mutant: a worker stops when the fetchers have, whatever is in the queue.
StopEarly(w) ==
    CASE fetchersDone ->
           /\ flusher' = [flusher EXCEPT ![w].pc = "done"]
           /\ UNCHANGED flushQueue
      [] ~fetchersDone /\ flushQueue # <<>> ->
           /\ flusher' = [flusher EXCEPT ![w] = [pc |-> "flush", job |-> Head(flushQueue)]]
           /\ flushQueue' = Tail(flushQueue)
      [] OTHER ->
           /\ flusher' = [flusher EXCEPT ![w].pc = "poll"]
           /\ UNCHANGED flushQueue

\* The loop up to its next await.
TakeBuffer(w) ==
    CASE flushQueue # <<>> ->
           /\ flusher' = [flusher EXCEPT ![w] = [pc |-> "flush", job |-> Head(flushQueue)]]
           /\ flushQueue' = Tail(flushQueue)
      [] flushQueue = <<>> /\ fetchersDone ->
           /\ flusher' = [flusher EXCEPT ![w].pc = "done"]
           /\ UNCHANGED flushQueue
      [] OTHER ->
           /\ flusher' = [flusher EXCEPT ![w].pc = "poll"]
           /\ UNCHANGED flushQueue

FlushWorker(w) ==
    /\ flusher[w].pc = "poll"
    /\ TakeBuffer(w)
    /\ UNCHANGED <<span, batch, next, fetcher, fetchersDone, stored, lost, ended>>

\* flushBatchBufferToStaging or flushBatchBufferSwapsOnly returns or throws.
FlushBatchBuffer(w) ==
    /\ flusher[w].pc = "flush"
    /\ \/ stored' = stored \cup {flusher[w].job} /\ UNCHANGED lost
       \/ lost' = lost \cup {flusher[w].job} /\ UNCHANGED stored
    /\ TakeBuffer(w)
    /\ UNCHANGED <<span, batch, next, fetcher, fetchersDone, ended>>

\* Promise.all(flushTasks) has resolved; migration and rebuild follow.
QueueEnds ==
    /\ ~ended /\ fetchersDone /\ \A w \in Flusher : flusher[w].pc = "done"
    /\ ended' = TRUE
    /\ UNCHANGED <<span, batch, next, fetcher, flushQueue, flusher, fetchersDone, stored, lost>>

FetchStep(f) == FetchWorker(f) \/ PassGate(f) \/ FetchAndProcessBatch(f)
FlushStep(w) == FlushWorker(w) \/ FlushBatchBuffer(w)

QueueNext ==
    \/ \E f \in Fetcher : FetchStep(f)
    \/ \E w \in Flusher : FlushStep(w)
    \/ FetchersDone \/ QueueEnds

\* Every await ends: the RPC client has a timeout, and so has a timer.
QueueFairness ==
    /\ \A f \in Fetcher : WF_queueVars(FetchStep(f))
    /\ \A w \in Flusher : WF_queueVars(FlushStep(w))
    /\ WF_queueVars(FetchersDone) /\ WF_queueVars(QueueEnds)

QueueSpec == QueueInit /\ [][QueueNext]_queueVars /\ QueueFairness

-----------------------------------------------------------------------------
(***************************************************************************)
(* Properties                                                              *)
(***************************************************************************)

\* The queue is longer than QUEUE_MAX by at most the workers that looked at it before it
\* was full: the memory the comment at backfill.ts:88 speaks of is that of
\* QUEUE_MAX - 1 + CONCURRENCY buffers.
QueueBound == Len(flushQueue) <= QueueMax - 1 + Cardinality(Fetcher)

\* When the loop ends, each block of the range was in one batch that was stored or given
\* up, whatever the workers did and at whatever point the fetchers stopped, but for the
\* last block when the size of a batch divides the range: from < end leaves it out.
AllBlocksAccounted ==
    ended =>
      /\ stored \cap lost = {}
      /\ \A b \in 0..span :
           Cardinality({k \in stored \cup lost : b \in BlocksOf(k)})
             = IF b = span /\ span % batch = 0 THEN 0 ELSE 1

Ledger ==
    INSTANCE BatchLedger WITH
        Batch <- 0..MaxSpan, open <- Jobs \ (stored \cup lost),
        kept <- stored, dropped <- lost, closed <- ended

\* The queue of the backfill settles every batch once and comes to its end, however its
\* workers interleave (backfill.ts fetchWorker, flushWorker).
QueueImplementsLedger == Ledger!LedgerSpec
=============================================================================
