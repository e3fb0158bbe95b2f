--------------------------- MODULE BackfillTables ---------------------------
(***************************************************************************)
(* The tables of swaps and of their minutes, as the archived programs that *)
(* are not the listener write them (archive-ts/scripts, db/queries.ts):    *)
(* shards of backfill.ts, which flush to a staging table, migrate it and   *)
(* rebuild; backfill-range.ts, which adds a range with retries and         *)
(* rebuilds; rebuild-buckets.ts.                                           *)
(*                                                                         *)
(* A swap is the time it happened at: one pool, one swap per unit of time, *)
(* each known to the pool table, so that the minutes of the pool and of    *)
(* its token count the same rows.  Every statement outside a transaction   *)
(* commits alone.  The listener is in module LiveSwap.                     *)
(***************************************************************************)
EXTENDS Integers, FiniteSets

CONSTANTS
    Shard,           \* processes of backfill.ts
    PerMinute,       \* units of time in a minute
    MaxRetry,        \* MAX_RETRY of backfill-range.ts
    MaxStamp,        \* bound: the time of a swap
    MaxTableFaults   \* bound: statements that fail

ASSUME TablesAssumption ==
    /\ IsFiniteSet(Shard)
    /\ PerMinute \in Nat \ {0} /\ MaxRetry \in Nat \ {0}
    /\ MaxStamp \in Nat /\ MaxTableFaults \in Nat

Stamp == 0..MaxStamp
MinuteOf(s) == s \div PerMinute
Minute == 0..MinuteOf(MaxStamp)
Stats == {"pool", "token"}  \* pool_1min_stats, token_1min_stats

VARIABLES
    swapRows,    \* swaps
    staging,     \* swaps_staging; rows there twice are one, as DISTINCT ON makes them
    minutes,     \* table -> minute -> swap_count
    unfetched,   \* swaps the shards have still to fetch
    since,       \* rangeStartMs of the shards, fixed
    shard,       \* shard -> where it is, its BF_SKIP_MIGRATE and its BF_STAGING
    script,      \* backfill-range.ts: where it is, its range, its attempt to flush
    inFlight,    \* its statements that have not returned: the attempt and the table
    tool,        \* rebuild-buckets.ts: where it is, its rangeStartMs
    tableFaults,
    staged,      \* history: rows that reached the staging table
    exposed,     \* history: those that did between a copy and the truncate after it
    disturbed    \* history: others wrote after the script began to rebuild

tableVars == <<swapRows, staging, minutes, unfetched, since, shard, script, inFlight, tool,
               tableFaults, staged, exposed, disturbed>>

TablesTypeOK ==
    /\ swapRows \subseteq Stamp /\ staging \subseteq Stamp /\ unfetched \subseteq Stamp
    /\ minutes \in [Stats -> [Minute -> Nat]]
    /\ since \in Stamp
    /\ shard \in [Shard -> [pc : {"flush", "count", "copy", "truncate", "pool", "token", "done", "dead"},
                            skips : BOOLEAN, stages : BOOLEAN]]
    /\ script \in [pc : {"fetch", "flush", "pool", "token", "done", "dead"},
                   from : Stamp, to : Stamp, attempt : 1..MaxRetry]
    /\ inFlight \subseteq (1..MaxRetry) \X (Stats \cup {"swaps"})
    /\ tool \in [pc : {"idle", "token", "done"}, from : Stamp]
    /\ tableFaults \in 0..MaxTableFaults
    /\ staged \subseteq Stamp /\ exposed \subseteq Stamp /\ disturbed \in BOOLEAN

CountIn(m, S) == Cardinality({s \in S : MinuteOf(s) = m})

\* Any of the programs may be one that is not run.
TablesInit ==
    /\ swapRows \in SUBSET Stamp
    /\ staging = {}
    /\ minutes = [x \in Stats |-> [m \in Minute |-> CountIn(m, swapRows)]]
    /\ unfetched \in SUBSET Stamp
    /\ since \in Stamp
    /\ shard \in [Shard -> [pc : {"flush", "dead"}, skips : BOOLEAN, stages : BOOLEAN]]
    /\ script \in [pc : {"fetch", "dead"}, from : Stamp, to : Stamp, attempt : {1}]
    /\ script.from <= script.to
    /\ inFlight = {}
    /\ tool \in [pc : {"idle", "done"}, from : {0}]
    /\ tableFaults = 0 /\ staged = {} /\ exposed = {} /\ disturbed = FALSE

TableFault == tableFaults < MaxTableFaults /\ tableFaults' = tableFaults + 1

\* The script has rebuilt a table, and its minutes should stay as they are.
Rebuilding == script.pc \in {"token", "done"}
Disturb(yes) == disturbed' = (disturbed \/ (Rebuilding /\ yes))

-----------------------------------------------------------------------------
(***************************************************************************)
(* rebuildBucketsFromSwaps, the same statements in three files             *)
(***************************************************************************)

\* One transaction under a lock: delete the minutes that begin at start or later, insert
\* the counts of the swaps at start or later, over what is there.  A minute that start
\* falls into is not deleted, and is overwritten by the count of its later part.
Rebuild(x, start) ==
    LET counted == {s \in swapRows : s >= start}
    IN  minutes' = [minutes EXCEPT ![x] = [m \in Minute |->
            IF m * PerMinute >= start \/ CountIn(m, counted) > 0 THEN CountIn(m, counted)
                                                                 ELSE @[m]]]

\* A start that is not the beginning of a minute.
Cuts(start) == start % PerMinute # 0

-----------------------------------------------------------------------------
(***************************************************************************)
(* A shard of backfill.ts, once its queue runs                             *)
(***************************************************************************)
ShardAt(k, pc) == shard[k].pc = pc
ShardGoes(k, pc) == shard' = [shard EXCEPT ![k].pc = pc]

\* bulkInsertSwapsStaging or bulkInsertSwaps; a flush that fails is not tried again.
ShardFlush(k, s) ==
    /\ ShardAt(k, "flush") /\ s \in unfetched
    /\ unfetched' = unfetched \ {s}
    /\ \/ /\ shard[k].stages
          /\ staging' = staging \cup {s} /\ staged' = staged \cup {s}
          /\ exposed' = IF \E j \in Shard : ShardAt(j, "truncate") THEN exposed \cup {s} ELSE exposed
          /\ UNCHANGED <<swapRows, tableFaults, disturbed>>
       \/ /\ ~shard[k].stages
          /\ swapRows' = swapRows \cup {s} /\ Disturb(TRUE)
          /\ UNCHANGED <<staging, staged, exposed, tableFaults>>
       \/ TableFault /\ UNCHANGED <<swapRows, staging, staged, exposed, disturbed>>
    /\ UNCHANGED <<minutes, since, shard, script, inFlight, tool>>

\* The queue has ended.
ShardQueueEnds(k) ==
    /\ ShardAt(k, "flush")
    /\ ShardGoes(k, IF shard[k].stages /\ ~shard[k].skips THEN "count" ELSE "pool")
    /\ UNCHANGED <<swapRows, staging, minutes, unfetched, since, script, inFlight, tool,
                   tableFaults, staged, exposed, disturbed>>

\* migrateStagingToSwaps: nothing to do for an empty table.
MigrateCount(k) ==
    /\ ShardAt(k, "count")
    /\ ShardGoes(k, IF staging = {} THEN "pool" ELSE "copy")
    /\ UNCHANGED <<swapRows, staging, minutes, unfetched, since, script, inFlight, tool,
                   tableFaults, staged, exposed, disturbed>>

\* Mutant: an error of the INSERT does not stop the migration.
CopyOrGoOn(k) ==
    /\ ShardAt(k, "copy")
    /\ \/ swapRows' = swapRows \cup staging /\ Disturb(TRUE) /\ UNCHANGED tableFaults
       \/ TableFault /\ UNCHANGED <<swapRows, disturbed>>
    /\ ShardGoes(k, "truncate")
    /\ UNCHANGED <<staging, minutes, unfetched, since, script, inFlight, tool, staged, exposed>>

MigrateCopy(k) ==
    /\ ShardAt(k, "copy")
    /\ \/ /\ swapRows' = swapRows \cup staging /\ Disturb(TRUE)
          /\ ShardGoes(k, "truncate") /\ UNCHANGED tableFaults
       \/ TableFault /\ ShardGoes(k, "dead") /\ UNCHANGED <<swapRows, disturbed>>
    /\ UNCHANGED <<staging, minutes, unfetched, since, script, inFlight, tool, staged, exposed>>

\* TRUNCATE, in a statement of its own.
MigrateTruncate(k) ==
    /\ ShardAt(k, "truncate")
    /\ \/ staging' = {} /\ ShardGoes(k, "pool") /\ UNCHANGED tableFaults
       \/ TableFault /\ ShardGoes(k, "dead") /\ UNCHANGED staging
    /\ UNCHANGED <<swapRows, minutes, unfetched, since, script, inFlight, tool, staged, exposed,
                   disturbed>>

\* The rebuild of a shard without BF_SKIP_REBUILD, a table at a time.
ShardRebuild(k) ==
    /\ \/ /\ ShardAt(k, "pool") /\ Rebuild("pool", since)
          /\ ShardGoes(k, "token") /\ Disturb(Cuts(since)) /\ UNCHANGED tableFaults
       \/ /\ ShardAt(k, "token") /\ Rebuild("token", since)
          /\ ShardGoes(k, "done") /\ Disturb(Cuts(since)) /\ UNCHANGED tableFaults
       \/ /\ ShardAt(k, "pool") \/ ShardAt(k, "token")
          /\ TableFault /\ ShardGoes(k, "dead") /\ UNCHANGED <<minutes, disturbed>>
       \/ /\ ShardAt(k, "pool") /\ ShardGoes(k, "done")
          /\ UNCHANGED <<minutes, disturbed, tableFaults>>
    /\ UNCHANGED <<swapRows, staging, unfetched, since, script, inFlight, tool, staged, exposed>>

-----------------------------------------------------------------------------
(***************************************************************************)
(* backfill-range.ts, with one range                                       *)
(***************************************************************************)
Buffer == script.from..script.to
Attempt(i) == {i} \X (Stats \cup {"swaps"})

\* processRange up to its flush; a range that cannot be read is skipped.
ProcessRange ==
    /\ script.pc = "fetch"
    /\ \/ /\ script' = [script EXCEPT !.pc = "flush"]
          /\ inFlight' = Attempt(1) /\ UNCHANGED tableFaults
       \/ /\ TableFault
          /\ script' = [script EXCEPT !.pc = "pool"] /\ UNCHANGED inFlight
    /\ UNCHANGED <<swapRows, staging, minutes, unfetched, since, shard, tool, staged, exposed,
                   disturbed>>

\* One statement of flushBatchBuffer returns.  The rows dedupe, the minutes add up.
Lands(i, x) ==
    /\ <<i, x>> \in inFlight
    /\ inFlight' = inFlight \ {<<i, x>>}
    /\ IF x = "swaps"
         THEN swapRows' = swapRows \cup Buffer /\ UNCHANGED minutes
         ELSE /\ minutes' = [minutes EXCEPT ![x] = [m \in Minute |-> @[m] + CountIn(m, Buffer)]]
              /\ UNCHANGED swapRows
    /\ Disturb(TRUE)
    /\ UNCHANGED <<staging, unfetched, since, shard, script, tool, tableFaults, staged, exposed>>

\* Mutant: there is no limit on the attempts.
FlushFailsForever(i, x) ==
    /\ <<i, x>> \in inFlight
    /\ TableFault
    /\ IF script.pc = "flush" /\ i = script.attempt
         THEN /\ script' = [script EXCEPT !.attempt = i + 1]
              /\ inFlight' = (inFlight \ {<<i, x>>}) \cup Attempt(i + 1)
         ELSE inFlight' = inFlight \ {<<i, x>>} /\ UNCHANGED script
    /\ UNCHANGED <<swapRows, staging, minutes, unfetched, since, shard, tool, staged, exposed,
                   disturbed>>

\* One fails: Promise.all rejects, the others stay under way, and the whole is sent again
\* unless this was the third time.
FlushFails(i, x) ==
    /\ <<i, x>> \in inFlight
    /\ TableFault
    /\ CASE script.pc = "flush" /\ i = script.attempt /\ i < MaxRetry ->
              /\ script' = [script EXCEPT !.attempt = i + 1]
              /\ inFlight' = (inFlight \ {<<i, x>>}) \cup Attempt(i + 1)
         [] script.pc = "flush" /\ i = script.attempt /\ i = MaxRetry ->
              /\ script' = [script EXCEPT !.pc = "pool"]
              /\ inFlight' = inFlight \ {<<i, x>>}
         [] OTHER -> inFlight' = inFlight \ {<<i, x>>} /\ UNCHANGED script
    /\ UNCHANGED <<swapRows, staging, minutes, unfetched, since, shard, tool, staged, exposed,
                   disturbed>>

FlushReturns ==
    /\ script.pc = "flush" /\ inFlight \cap Attempt(script.attempt) = {}
    /\ script' = [script EXCEPT !.pc = "pool"]
    /\ UNCHANGED <<swapRows, staging, minutes, unfetched, since, shard, inFlight, tool,
                   tableFaults, staged, exposed, disturbed>>

\* Mutant: the rebuild begins at the first block, not a minute before it.
NoMargin == script.from

\* rangeStartMs
ScriptStart == script.from - PerMinute

ScriptRebuild ==
    /\ \/ /\ script.pc = "pool" /\ Rebuild("pool", ScriptStart)
          /\ script' = [script EXCEPT !.pc = "token"] /\ UNCHANGED tableFaults
       \/ /\ script.pc = "token" /\ Rebuild("token", ScriptStart)
          /\ script' = [script EXCEPT !.pc = "done"] /\ UNCHANGED tableFaults
       \/ /\ script.pc \in {"pool", "token"} /\ TableFault
          /\ script' = [script EXCEPT !.pc = "dead"] /\ UNCHANGED minutes
    /\ UNCHANGED <<swapRows, staging, unfetched, since, shard, inFlight, tool, staged, exposed,
                   disturbed>>

-----------------------------------------------------------------------------
\* rebuild-buckets.ts, from a number of hours ago, or from 0 for ALL.
RebuildBuckets ==
    /\ \/ /\ tool.pc = "idle"
          /\ \E start \in Stamp :
               /\ tool' = [pc |-> "token", from |-> start]
               /\ Rebuild("pool", start) /\ Disturb(Cuts(start))
       \/ /\ tool.pc = "token"
          /\ tool' = [tool EXCEPT !.pc = "done"]
          /\ Rebuild("token", tool.from) /\ Disturb(Cuts(tool.from))
    /\ UNCHANGED <<swapRows, staging, unfetched, since, shard, script, inFlight, tableFaults,
                   staged, exposed>>

TablesNext ==
    \/ \E k \in Shard :
         \/ \E s \in Stamp : ShardFlush(k, s)
         \/ ShardQueueEnds(k)
         \/ MigrateCount(k) \/ MigrateCopy(k) \/ MigrateTruncate(k) \/ ShardRebuild(k)
    \/ ProcessRange \/ FlushReturns \/ ScriptRebuild \/ RebuildBuckets
    \/ \E i \in 1..MaxRetry, x \in Stats \cup {"swaps"} : Lands(i, x) \/ FlushFails(i, x)

TablesSpec == TablesInit /\ [][TablesNext]_tableVars

-----------------------------------------------------------------------------
\* A row that reached the staging table is there or in swaps, whatever fails, unless it
\* was written between the copy and the truncate of another shard: the loss the comment at
\* backfill.ts:77 warns of, and the only one (queries.ts migrateStagingToSwaps).
StagedIsKept == staged \ exposed \subseteq staging \cup swapRows

\* However often the script sent its additions again, the minutes of its range count the
\* rows when it is done: the rebuild washes the repetitions out, if it begins early enough
\* for the first minute to be whole.  Only what is written later breaks it: rows of a
\* shard, a statement of a failed attempt that lands after the rebuild, or another rebuild
\* that begins inside a minute (backfill-range.ts:159, main).
RetriesWashOut ==
    script.pc = "done" /\ ~disturbed =>
      \A x \in Stats, s \in Buffer : minutes[x][MinuteOf(s)] = CountIn(MinuteOf(s), swapRows)
=============================================================================
