------------------------------ MODULE Backfill ------------------------------
(***************************************************************************)
(* The pipeline of the backfill binary (src/bin/backfill.rs main): one     *)
(* future per batch of blocks, at most `concurrency` past the fetch        *)
(* semaphore; a bounded channel; a collector task that spawns a flush task *)
(* per batch; a flush semaphore; then the migration and the rebuild.       *)
(*                                                                         *)
(* The order in the channel is left out, and so are the numbers of swaps   *)
(* in a batch.  What the migration and the rebuild do to the tables is     *)
(* module SwapStore.                                                       *)
(***************************************************************************)
EXTENDS Integers, FiniteSets

CONSTANTS
    Jobs,          \* the batches of blocks
    Concurrency,   \* BF_CONCURRENCY
    QueueMax,      \* BF_QUEUE_MAX, the capacity of the channel
    FlushWorkers,  \* BF_FLUSH_WORKERS
    ChildFactor,   \* the 4 of flush_workers * 4
    MaxErrors,     \* bound: failed fetches and failed flushes of a run
    MaxKills       \* bound: runs that are killed or end with an error

ASSUME BackfillAssumption ==
    /\ IsFiniteSet(Jobs)
    /\ Concurrency \in Nat \ {0}
    /\ QueueMax \in Nat \ {0}
    /\ FlushWorkers \in Nat \ {0}
    /\ ChildFactor \in Nat \ {0}
    /\ MaxErrors \in Nat
    /\ MaxKills \in Nat

VARIABLES
    phase,      \* how far each batch is
    main,       \* what main is waiting for
    collector,  \* what the collector task is doing
    staged,     \* batches whose swaps are in swaps_staging
    stored,     \* batches whose swaps are in swaps
    errors,     \* total_errors
    unflushed,  \* flush failures, which the program only logs
    kills

vars == <<phase, main, collector, staged, stored, errors, unflushed, kills>>

In(ph) == {j \in Jobs : phase[j] \in ph}
Count(ph) == Cardinality(In(ph))

\* todo -> fetching -> sending -> queued -> spawned -> flushing -> done, or failed
Running == {"fetching", "sending"}
Unfetched == {"todo"} \cup Running
Children == {"spawned", "flushing"}
MaxChildren == ChildFactor * FlushWorkers

Fresh ==
    /\ phase = [j \in Jobs |-> "todo"]
    /\ main = "fetch"
    /\ collector = "receive"
    /\ errors = 0
    /\ unflushed = 0

Init == Fresh /\ staged = {} /\ stored = {} /\ kills = 0

Move(j, ph) == phase' = [phase EXCEPT ![j] = ph]
Tables == <<staged, stored>>

-----------------------------------------------------------------------------
\* sem.acquire_owned: the permit is held until the future ends, over the send.
Acquire(j) ==
    /\ main = "fetch"
    /\ phase[j] = "todo"
    /\ Count(Running) < Concurrency
    /\ Move(j, "fetching")
    /\ UNCHANGED <<main, collector, Tables, errors, unflushed, kills>>

Fetched(j) ==
    /\ phase[j] = "fetching"
    /\ Move(j, "sending")
    /\ UNCHANGED <<main, collector, Tables, errors, unflushed, kills>>

\* A failed batch is counted and not tried again.
FetchFails(j) ==
    /\ phase[j] = "fetching"
    /\ errors + unflushed < MaxErrors
    /\ errors' = errors + 1
    /\ Move(j, "failed")
    /\ UNCHANGED <<main, collector, Tables, unflushed, kills>>

\* Mutant: an unbounded channel.
SendUnbounded(j) ==
    /\ phase[j] = "sending"
    /\ Move(j, "queued")
    /\ UNCHANGED <<main, collector, Tables, errors, unflushed, kills>>

\* tx.send(buffer).await
Send(j) ==
    /\ phase[j] = "sending"
    /\ Count({"queued"}) < QueueMax
    /\ Move(j, "queued")
    /\ UNCHANGED <<main, collector, Tables, errors, unflushed, kills>>

\* The futures are all done: drop(tx), and join the collector.
FetchedAll ==
    /\ main = "fetch"
    /\ In(Unfetched) = {}
    /\ main' = "join"
    /\ UNCHANGED <<phase, collector, Tables, errors, unflushed, kills>>

-----------------------------------------------------------------------------
\* rx.recv and spawn.  The loop waits while all of MaxChildren handles are of unfinished
\* children; a finished one is reaped first.
Receive(j) ==
    /\ collector = "receive"
    /\ phase[j] = "queued"
    /\ Count(Children) < MaxChildren
    /\ Move(j, "spawned")
    /\ UNCHANGED <<main, collector, Tables, errors, unflushed, kills>>

\* Mutant: main keeps its sender until it returns.
ChannelClosedLate ==
    /\ collector = "receive"
    /\ main = "done"
    /\ In({"queued"}) = {}
    /\ collector' = "drain"
    /\ UNCHANGED <<phase, main, Tables, errors, unflushed, kills>>

\* No sender and no message left.
ChannelClosed ==
    /\ collector = "receive"
    /\ main = "join"
    /\ In({"queued"}) = {}
    /\ collector' = "drain"
    /\ UNCHANGED <<phase, main, Tables, errors, unflushed, kills>>

\* Mutant: the spawned tasks are not awaited.
CollectorEndsEarly ==
    /\ collector = "drain"
    /\ collector' = "ended"
    /\ UNCHANGED <<phase, main, Tables, errors, unflushed, kills>>

CollectorEnds ==
    /\ collector = "drain"
    /\ In(Children) = {}
    /\ collector' = "ended"
    /\ UNCHANGED <<phase, main, Tables, errors, unflushed, kills>>

StartFlush(j) ==
    /\ phase[j] = "spawned"
    /\ Count({"flushing"}) < FlushWorkers
    /\ Move(j, "flushing")
    /\ UNCHANGED <<main, collector, Tables, errors, unflushed, kills>>

\* Mutant: the COPY is not finished before its writer is dropped.
FlushUnfinished(j) ==
    /\ phase[j] = "flushing"
    /\ Move(j, "done")
    /\ UNCHANGED <<main, collector, Tables, errors, unflushed, kills>>

\* One COPY: all of the batch or nothing.  (The prices of the batch are a second insert that
\* no table here depends on.)
Flush(j) ==
    /\ phase[j] = "flushing"
    /\ Move(j, "done")
    /\ staged' = staged \cup {j}
    /\ UNCHANGED <<main, collector, stored, errors, unflushed, kills>>

\* A warning, and the batch is gone.
FlushFails(j) ==
    /\ phase[j] = "flushing"
    /\ errors + unflushed < MaxErrors
    /\ unflushed' = unflushed + 1
    /\ Move(j, "failed")
    /\ UNCHANGED <<main, collector, Tables, errors, kills>>

-----------------------------------------------------------------------------
Joined ==
    /\ main = "join"
    /\ collector = "ended"
    /\ main' = "migrate"
    /\ UNCHANGED <<phase, collector, Tables, errors, unflushed, kills>>

\* migrate_staging_to_swaps; without BF_SKIP_MIGRATE.
Migrate ==
    /\ main = "migrate"
    /\ main' = "rebuild"
    /\ stored' = stored \cup staged
    /\ staged' = {}
    /\ UNCHANGED <<phase, collector, errors, unflushed, kills>>

Rebuild ==
    /\ main = "rebuild"
    /\ main' = "done"
    /\ UNCHANGED <<phase, collector, Tables, errors, unflushed, kills>>

\* Killed, or `?` in main, and run again from the first block.
KillAndRerun ==
    /\ main # "done"
    /\ kills < MaxKills
    /\ kills' = kills + 1
    /\ phase' = [j \in Jobs |-> "todo"]
    /\ main' = "fetch"
    /\ collector' = "receive"
    /\ errors' = 0
    /\ unflushed' = 0
    /\ UNCHANGED Tables

-----------------------------------------------------------------------------
JobStep(j) ==
    \/ Acquire(j)
    \/ Fetched(j)
    \/ Send(j)
    \/ Receive(j)
    \/ StartFlush(j)
    \/ Flush(j)

TaskStep == FetchedAll \/ ChannelClosed \/ CollectorEnds \/ Joined \/ Migrate \/ Rebuild

Next ==
    \/ \E j \in Jobs : JobStep(j) \/ FetchFails(j) \/ FlushFails(j)
    \/ TaskStep
    \/ KillAndRerun

Spec == Init /\ [][Next]_vars

\* The runtime polls every woken task; an RPC call and a COPY return or fail.  The semaphores
\* are fair, but no more is needed than that some waiting job gets the permit.
FairSpec == Spec /\ WF_vars(\E j \in Jobs : JobStep(j)) /\ WF_vars(TaskStep)

-----------------------------------------------------------------------------
(***************************************************************************)
(* Properties                                                              *)
(***************************************************************************)

TypeOK ==
    /\ phase \in [Jobs -> {"todo", "fetching", "sending", "queued", "spawned", "flushing",
                           "done", "failed"}]
    /\ main \in {"fetch", "join", "migrate", "rebuild", "done"}
    /\ collector \in {"receive", "drain", "ended"}
    /\ staged \subseteq Jobs
    /\ stored \subseteq Jobs
    /\ errors \in 0 .. MaxErrors
    /\ unflushed \in 0 .. MaxErrors
    /\ kills \in 0 .. MaxKills

\* The batches held in memory: bounded by the two semaphores, the channel and the limit on
\* children together, however slow the database is.
MemoryBound ==
    Count(Running \cup {"queued"} \cup Children) <= Concurrency + QueueMax + MaxChildren

\* When the migration starts no batch is under way: what is not in the tables was logged as
\* a failed fetch or as a failed flush.
NothingUnderWay ==
    main \in {"migrate", "rebuild", "done"} =>
        /\ In(Unfetched \cup {"queued"} \cup Children) = {}
        /\ Cardinality(Jobs \ (staged \cup stored)) <= errors + unflushed

\* A completed run has stored every batch it did not log as failed, whatever earlier runs
\* left behind.
CompleteRun == main = "done" => In({"done"}) \subseteq stored

\* The pipeline drains: neither the channel, the semaphores nor the limit on children can
\* wait for each other for ever.
Ends == <>(main = "done")
=============================================================================
