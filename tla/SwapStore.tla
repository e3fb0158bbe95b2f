----------------------------- MODULE SwapStore -----------------------------
(***************************************************************************)
(* The tables swaps, swaps_staging and token_1min_stats and everything     *)
(* that writes them (src/stream_listener.rs, src/db/queries.rs, the end of *)
(* src/bin/backfill.rs, scripts/mid_migrate.sh).                           *)
(*                                                                         *)
(* The stream stores a swap with two autocommit statements: the row, then  *)
(* its volume into the bucket of its minute.  Backfill processes COPY rows *)
(* into staging, migrate them, and rebuild the buckets from the rows in    *)
(* one transaction that locks the buckets.  The statements of all of them  *)
(* interleave; the stream may lose its connection, or the radar process    *)
(* die, and leave a statement with the server, and a backfill may be       *)
(* killed and run again.                                                   *)
(*                                                                         *)
(* The swaps are those of one token's main pool.  bucket[r] is how many    *)
(* times the volume of row r is part of the sums in token_1min_stats.      *)
(***************************************************************************)
EXTENDS Integers, FiniteSets

CONSTANTS
    Logs,           \* the swaps on the chain, up to the columns of the unique key
    Times,          \* the timestamps given to them
    NoRow,
    Shards,         \* the backfill processes
    NoShard,
    SkipMigrate,    \* those run with BF_SKIP_MIGRATE=1
    SkipRebuild,    \* those run with BF_SKIP_REBUILD=1
    MaxDeliveries,  \* bound: logs the node pushes to the stream
    MaxAbandoned,   \* bound: second statements abandoned to the server
    MaxRuns         \* bound: starts of backfill processes

\* The unique key of swaps: (tx_hash, pool_address, amount0, amount1) and the timestamp.
Row == [log : Logs, at : Times]

ASSUME SwapStoreAssumption ==
    /\ NoRow \notin Row
    /\ NoShard \notin Shards
    /\ SkipMigrate \subseteq Shards
    /\ SkipRebuild \subseteq Shards
    /\ MaxDeliveries \in Nat
    /\ MaxAbandoned \in Nat
    /\ MaxRuns \in Nat

VARIABLES
    swaps,      \* the rows of swaps
    staging,    \* the rows of swaps_staging
    bucket,     \* row -> how often token_1min_stats counts it
    stream,     \* the row of the stream's pending second statement, or NoRow
    orphans,    \* second statements the server has without a caller, numbered
    pc,         \* shard -> what it does next
    lock,       \* the shard holding LOCK ... IN EXCLUSIVE MODE, or NoShard
    snapshot,   \* the rows its INSERT ... SELECT saw
    copied,     \* history: rows whose COPY was acknowledged
    owed,       \* history: rows no statement is going to count before a rebuild
    raced,      \* history: rows the last rebuild counted with their second statement pending
    repeated,   \* history: rows the stream stored when they were there already
    killed,     \* history: a backfill process did not get to its end
    deliveries, abandoned, runs

tables == <<swaps, staging, bucket>>
streamVars == <<stream, orphans>>
shardVars == <<pc, lock, snapshot>>
history == <<copied, owed, raced, repeated, killed>>
counters == <<deliveries, abandoned, runs>>
vars == <<tables, streamVars, shardVars, history, counters>>

Init ==
    /\ swaps = {} /\ staging = {} /\ bucket = [r \in Row |-> 0]
    /\ stream = NoRow /\ orphans = {}
    /\ pc = [s \in Shards |-> "off"] /\ lock = NoShard /\ snapshot = {}
    /\ copied = {} /\ owed = {} /\ raced = {} /\ repeated = {} /\ killed = FALSE
    /\ deliveries = 0 /\ abandoned = 0 /\ runs = 0

\* The rows whose second statement was sent, or is about to be.
InFlight == {o[2] : o \in orphans} \cup ({stream} \ {NoRow})

-----------------------------------------------------------------------------
(***************************************************************************)
(* The stream: insert_swap                                                 *)
(***************************************************************************)

\* Mutant: an error of the first statement does not keep the second from running.
InsertSwapOrFail(r) ==
    /\ stream = NoRow
    /\ deliveries < MaxDeliveries
    /\ deliveries' = deliveries + 1
    /\ swaps' \in {swaps, swaps \cup {r}}
    /\ repeated' = IF r \in swaps THEN repeated \cup {r} ELSE repeated

\* INSERT INTO swaps ... ON CONFLICT DO NOTHING.  The node may push a log twice, and two
\* equal swaps of a transaction are one row when they are processed in one millisecond.
InsertSwap(r) ==
    /\ stream = NoRow
    /\ deliveries < MaxDeliveries
    /\ deliveries' = deliveries + 1
    /\ swaps' = swaps \cup {r}
    /\ repeated' = IF r \in swaps THEN repeated \cup {r} ELSE repeated

StoreSwap(r) ==
    /\ InsertSwap(r)
    /\ stream' = r
    /\ UNCHANGED <<staging, bucket, orphans, shardVars, copied, owed, raced, killed, abandoned, runs>>

\* It commits, but the caller gets an error and `?` skips the second statement.
StoreSwapUnacknowledged(r) ==
    /\ InsertSwap(r)
    /\ owed' = owed \cup {r}
    /\ UNCHANGED <<staging, bucket, streamVars, shardVars, copied, raced, killed, abandoned, runs>>

\* Mutant: the upsert is retried when its answer is lost.
AddToBucketRetried ==
    /\ stream # NoRow
    /\ lock = NoShard
    /\ bucket' = [bucket EXCEPT ![stream] = @ + 1]
    /\ stream' \in {NoRow, stream}
    /\ UNCHANGED <<swaps, staging, orphans, shardVars, history, counters>>

\* Mutant: the rebuild takes no lock on token_1min_stats.
AddToBucketUnlocked ==
    /\ stream # NoRow
    /\ bucket' = [bucket EXCEPT ![stream] = @ + 1]
    /\ stream' = NoRow
    /\ UNCHANGED <<swaps, staging, orphans, shardVars, history, counters>>

\* INSERT INTO token_1min_stats ... ON CONFLICT DO UPDATE: adds to the sums, whether the
\* first statement inserted a row or not.  Waits for a rebuild's lock.
AddToBucket ==
    /\ stream # NoRow
    /\ lock = NoShard
    /\ bucket' = [bucket EXCEPT ![stream] = @ + 1]
    /\ stream' = NoRow
    /\ UNCHANGED <<swaps, staging, orphans, shardVars, history, counters>>

\* The second statement ends without its answer, by an error of which the caller warns or
\* with the radar process, and the stream goes on with another log.  Either the server never
\* runs it; or the connection is gone while it waits for the lock, and it stays with the
\* server, which notices that only after it has run it.
AddToBucketFails ==
    /\ stream # NoRow
    /\ stream' = NoRow
    /\ \/ /\ owed' = owed \cup {stream}
          /\ UNCHANGED <<orphans, abandoned>>
       \/ /\ abandoned < MaxAbandoned
          /\ abandoned' = abandoned + 1
          /\ orphans' = orphans \cup {<<abandoned', stream>>}
          /\ UNCHANGED owed
    /\ UNCHANGED <<tables, shardVars, copied, raced, repeated, killed, deliveries, runs>>

\* The server gets to run an abandoned statement.
OrphanRuns(o) ==
    /\ lock = NoShard
    /\ bucket' = [bucket EXCEPT ![o[2]] = @ + 1]
    /\ orphans' = orphans \ {o}
    /\ UNCHANGED <<swaps, staging, stream, shardVars, history, counters>>

-----------------------------------------------------------------------------
(***************************************************************************)
(* A backfill process: COPY, migrate_staging_to_swaps,                     *)
(* rebuild_buckets_from_swaps                                              *)
(***************************************************************************)

Goto(s, where) == pc' = [pc EXCEPT ![s] = where]

\* The operator starts a process, again after a kill: CREATE TABLE IF NOT EXISTS keeps what
\* staging holds.  The rule of archive-ts/scripts/backfill.ts:77: processes that run together
\* have BF_SKIP_MIGRATE=1, and one without it runs alone.
Start(s) ==
    /\ pc[s] = "off"
    /\ runs < MaxRuns
    /\ \A q \in Shards : pc[q] = "off" \/ {q, s} \subseteq SkipMigrate
    /\ runs' = runs + 1
    /\ Goto(s, "copy")
    /\ UNCHANGED <<tables, streamVars, lock, snapshot, history, deliveries, abandoned>>

\* One row of a COPY batch.  Its timestamp is interpolated between blocks, so any of Times.
CopyRow(s, r) ==
    /\ pc[s] = "copy"
    /\ staging' = staging \cup {r}
    /\ copied' = copied \cup {r}
    /\ UNCHANGED <<swaps, bucket, streamVars, shardVars, owed, raced, repeated, killed, counters>>

\* Mutant: with nothing in staging there is nothing to do.
StartMigrateOrStop(s) ==
    /\ pc[s] = "copy"
    /\ Goto(s, IF staging = {} THEN "off"
               ELSE IF s \in SkipMigrate THEN "lock" ELSE "insert")
    /\ UNCHANGED <<tables, streamVars, lock, snapshot, history, counters>>

\* The collector has been awaited: migrate, unless told not to or the count is 0.
StartMigrate(s) ==
    /\ pc[s] = "copy"
    /\ Goto(s, IF s \in SkipMigrate \/ staging = {} THEN "lock" ELSE "insert")
    /\ UNCHANGED <<tables, streamVars, lock, snapshot, history, counters>>

\* Rows that arrive in swaps from staging are not in the buckets yet.
MoveToSwaps(rows) ==
    /\ swaps' = swaps \cup rows
    /\ owed' = owed \cup (rows \ swaps)

InsertStaged(s) ==
    /\ pc[s] = "insert"
    /\ MoveToSwaps(staging)
    /\ Goto(s, "truncate")
    /\ UNCHANGED <<staging, bucket, streamVars, lock, snapshot, copied, raced, repeated, killed, counters>>

TruncateStaging(s) ==
    /\ pc[s] = "truncate"
    /\ staging' = {}
    /\ Goto(s, "lock")
    /\ UNCHANGED <<swaps, bucket, streamVars, lock, snapshot, history, counters>>

\* Mutant: the DELETE does not repeat the condition of the batch.
MidMigrateAll(rows) ==
    /\ rows # {}
    /\ MoveToSwaps(rows)
    /\ staging' = {}
    /\ UNCHANGED <<bucket, streamVars, shardVars, copied, raced, repeated, killed, counters>>

\* mid_migrate.sh, in a loop beside the backfills: one statement moves a batch of rows.
MidMigrate(rows) ==
    /\ rows # {}
    /\ MoveToSwaps(rows)
    /\ staging' = staging \ rows
    /\ UNCHANGED <<bucket, streamVars, shardVars, copied, raced, repeated, killed, counters>>

SkipsRebuild(s) ==
    /\ pc[s] = "lock"
    /\ s \in SkipRebuild
    /\ Goto(s, "off")
    /\ UNCHANGED <<tables, streamVars, lock, snapshot, history, counters>>

\* BEGIN and LOCK: pool_1min_stats first, so one rebuild at a time, then token_1min_stats.
LockBuckets(s) ==
    /\ pc[s] = "lock"
    /\ s \notin SkipRebuild
    /\ lock = NoShard
    /\ lock' = s
    /\ Goto(s, "read")
    /\ UNCHANGED <<tables, streamVars, snapshot, history, counters>>

\* INSERT ... SELECT ... FROM swaps sees what is committed now; swaps is not locked.
ReadSwaps(s) ==
    /\ pc[s] = "read"
    /\ snapshot' = swaps
    /\ Goto(s, "commit")
    /\ UNCHANGED <<tables, streamVars, lock, history, counters>>

ReleaseLock == lock' = NoShard /\ snapshot' = {}

CommitRebuild(s) ==
    /\ pc[s] = "commit"
    /\ bucket' = [r \in Row |-> IF r \in snapshot THEN 1 ELSE 0]
    /\ owed' = owed \ snapshot
    /\ raced' = snapshot \cap InFlight
    /\ repeated' = repeated \ snapshot
    /\ ReleaseLock
    /\ Goto(s, "off")
    /\ UNCHANGED <<swaps, staging, streamVars, copied, killed, counters>>

\* Mutant: the lock outlives the killed session.
KillKeepsLock(s) ==
    /\ pc[s] # "off"
    /\ killed' = TRUE
    /\ Goto(s, "off")
    /\ UNCHANGED <<tables, streamVars, lock, snapshot, copied, owed, raced, repeated, counters>>

\* The process is killed, or an error ends main: an open transaction is rolled back.
Kill(s) ==
    /\ pc[s] # "off"
    /\ killed' = TRUE
    /\ Goto(s, "off")
    /\ IF lock = s THEN ReleaseLock ELSE UNCHANGED <<lock, snapshot>>
    /\ UNCHANGED <<tables, streamVars, copied, owed, raced, repeated, counters>>

-----------------------------------------------------------------------------
StreamStep == AddToBucket \/ \E o \in orphans : OrphanRuns(o)

ShardStep(s) ==
    \/ StartMigrate(s)
    \/ InsertStaged(s)
    \/ TruncateStaging(s)
    \/ SkipsRebuild(s)
    \/ LockBuckets(s)
    \/ ReadSwaps(s)
    \/ CommitRebuild(s)

Next ==
    \/ \E r \in Row : StoreSwap(r) \/ StoreSwapUnacknowledged(r)
    \/ StreamStep
    \/ AddToBucketFails
    \/ \E s \in Shards : \/ Start(s)
                         \/ \E r \in Row : CopyRow(s, r)
                         \/ ShardStep(s)
                         \/ Kill(s)
    \/ \E rows \in SUBSET staging : MidMigrate(rows)

Spec == Init /\ [][Next]_vars

\* The server runs a statement that is not blocked, and a backfill that is not killed gets
\* to its end.
FairSpec ==
    /\ Spec
    /\ WF_vars(StreamStep)
    /\ \A s \in Shards : WF_vars(ShardStep(s))

-----------------------------------------------------------------------------
(***************************************************************************)
(* Properties                                                              *)
(***************************************************************************)

TypeOK ==
    /\ swaps \subseteq Row
    /\ staging \subseteq Row
    /\ bucket \in [Row -> Nat]
    /\ stream \in Row \cup {NoRow}
    /\ orphans \subseteq (1 .. abandoned) \X Row
    /\ pc \in [Shards -> {"copy", "insert", "truncate", "lock", "read", "commit",
                          "off"}]
    /\ lock \in Shards \cup {NoShard}
    /\ snapshot \subseteq Row
    /\ copied \subseteq Row
    /\ owed \subseteq Row
    /\ raced \subseteq Row
    /\ repeated \subseteq Row
    /\ deliveries \in 0 .. MaxDeliveries
    /\ abandoned \in 0 .. MaxAbandoned
    /\ killed \in BOOLEAN
    /\ runs \in 0 .. MaxRuns

\* The sums never hold a swap that is not stored (insert_swap: the row first).
CountedIsStored == \A r \in Row : bucket[r] > 0 => r \in swaps

\* A stored swap is counted, or a statement in flight is going to count it, unless it was
\* backfilled or its second statement was lost since the last rebuild read swaps: a rebuild
\* never undoes an addition it did not see.
StoredIsCounted == \A r \in swaps : bucket[r] > 0 \/ r \in InFlight \/ r \in owed

\* A swap is counted twice only if the stream stored it again, or the last rebuild read it
\* between its two statements; there is one such swap, and one more per statement that was
\* abandoned to the server by a lost connection or a dead process, however many rebuilds
\* there were.
DoubleCountBound ==
    /\ \A r \in Row : bucket[r] > 1 => r \in raced \cup repeated
    /\ Cardinality(raced) <= 1 + abandoned

\* No row whose COPY was acknowledged is lost, whatever is killed and run again
\* (migrate_staging_to_swaps: INSERT, then TRUNCATE, as two transactions).
CopiedIsKept == copied \subseteq swaps \cup staging

\* The stream gets past a rebuild, killed or not.
StreamGoesOn == (stream # NoRow) ~> (stream = NoRow)

\* A process that migrates and rebuilds brings everything copied so far into the buckets,
\* unless a process was killed.
CopiedIsCounted ==
    \A s \in Shards \ (SkipMigrate \cup SkipRebuild), r \in Row :
        (pc[s] = "copy" /\ r \in copied) ~> (bucket[r] > 0 \/ killed)

\* backfill.ts:861 and rebuild-buckets.ts:6: the rebuild rules out that a swap is
\* accumulated twice, and is safe beside the stream.
NoDoubleCount == \A r \in Row : bucket[r] <= 1

\* backfill.ts:9: the unique key keeps stream and backfill from storing a swap twice.
OneRowPerSwap == \A r, q \in swaps : r.log = q.log => r = q
=============================================================================
