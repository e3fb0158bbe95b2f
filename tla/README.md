# TLA+ models of bsc-binance-radar

A radar for unusual trading of Binance-listed tokens on BSC: a live Rust process listens to swap
logs over a websocket, keeps one-minute volume buckets in PostgreSQL/TimescaleDB, compares each
token's last five minutes with its last day every 30 seconds, and posts alerts to a Feishu
webhook. A second Rust binary backfills history from an archive node. `src/archive-ts` is the
previous generation of the same system in TypeScript. Paths below are relative to the
repository; line numbers are those of the modelled commit.

## 1. Inventory

| Component | Code | State | Operations | What makes it correct |
|---|---|---|---|---|
| Detector and notifier | `src/anomaly`, `src/bin/radar.rs`, `src/notifier` | `anomaly_events`; a bounded channel of alerts; the token in hand | tick, cooldown query, insert, send; receive, post | one alert per token and rule and cooldown; none lost without a reason; a slow webhook stops nothing |
| Baseline | `src/anomaly/aggregator.rs`, `detector.rs` 27-90 | `token_1min_stats` | two window sums, coverage, two rules | the windows span what they say; no false alarm for lack of history |
| Swap tables | `src/stream_listener.rs` 58-94, `src/db/queries.rs`, `scripts/mid_migrate.sh` | `swaps`, `swaps_staging`, `token_1min_stats`; the lock of a rebuild | store, add to bucket; COPY, migrate, rebuild | buckets agree with stored swaps; a swap is stored once; copied rows are kept |
| Backfill pipeline | `src/bin/backfill.rs` | batches; two semaphores, a channel, a set of flush tasks | fetch, send, receive, flush, join, migrate, rebuild | bounded memory; it ends; it migrates after the last flush |
| Stream listener | `src/stream_listener.rs` 108-260, `radar.rs` 73-99 | six subscriptions, pool cache, BNB price, time of the last swap | receive one log of any, reconnect, probe | each swap is counted or has a reason not to be; a stream that ended is opened again |
| Swap processing | `src/swap_processor.rs`, `fetch_one_batch` | the shared BNB price | USD values, time interpolation | times in the order of blocks; a price of the own batch |
| Watchlist, seeds | `src/token_tracker` | a set of tokens behind a lock | load at start | replaced in one step |
| Discovery, pool, schema, clients, ABIs | `src/discovery.rs`, `src/db/pool.rs`, `src/clients`, ... | none | scans, DDL, wrappers | ranges that cover |
| Archived listener and probe | `archive-ts/src/core` | listener handles, pool caches, lookups under way | mount, unmount, remount after silence, look up, prefetch, write a swap | one subscription per kind; a silence ends; no pool is hidden or let in wrongly; an event means three writes |
| Archived backfill | `archive-ts/scripts/backfill*.ts`, `rebuild-buckets.ts` | a shared array of jobs and one of buffers, flags; staging | scan for pools, workers that poll, flush, migrate, rebuild, retry | the queue limit; each block settled once; no pool or staged row is lost; retries do not add up |
| Archived detector | `archive-ts/src/anomaly` | tick flag, evaluations under way, `anomaly_events` | tick, evaluate a slice, check cooldown, insert | one alert per token, rule and cooldown |
| Archived tracker, caches | `archive-ts/src/token-tracker`, `utils` | watchlist, TTL caches | refresh, enrich, get/set, evict | who is refused, and when; a hit is the last value |

How they interact. In the radar process four tokio tasks share the database and little else: the
stream task is the only writer of `swaps` and `token_1min_stats`, the detector task reads the
latter and is the only writer of `anomaly_events`, and sends each alert on an
`mpsc::channel(64)` to the notifier task; a probe task reads the time of the last swap. Backfill
processes, `mid_migrate.sh` (in a loop) and rebuild scripts are further processes on the same
tables. PostgreSQL runs with `synchronous_commit=off`.

What is hard: two autocommit statements per swap against a rebuild that replaces all buckets in one
transaction; a migration of two transactions against other processes' COPY; a cooldown that is checked,
waited over and then recorded; exits and kills at any await; commits that a database crash undoes; four
nested limits around a slow database; windows in milliseconds over minutes; a select loop that ends only
when all its streams have; lookups, ticks and refreshes of a single-threaded program that interleave at
every await. The `hazards` of `PROJECT.json` give each with its line and the properties that cover it.

## 2. Modules

| Module | Models | Kind |
|---|---|---|
| `Detector` | detector task, channel, notifier task, `anomaly_events`, exits, database crashes | component |
| `AlertLog` | what detector and notifier promise: recorded, then delivered in order or lost | abstract specification |
| `SwapStore` | `insert_swap`, COPY, migration, `mid_migrate.sh`, rebuild, interleaved | component |
| `Baseline` | buckets, windows, coverage, both rules | component |
| `Backfill` | the pipeline of the backfill binary | component |
| `BatchRows` | the cutting of its range, the times and the price of a batch | component |
| `StreamListener` | subscriptions, select loop, backlog, reconnect, pool cache against `main_pools` | component |
| `TTLCache` | the archived cache | component |
| `PoolLookup` | archived pool lookups and prefetches over memory, table and chain | component |
| `Watchlist` | archived refresh of the watchlist, and the tool that writes its table | component |
| `LiveSwap` | a log on its way through the archived listener; extends `Watchlist` | composition |
| `ListenerProbe` | archived listener handles and liveness probe | component |
| `AnomalyTick` | the archived detector | component |
| `FetchQueue` | the archived queue of batches with its polling workers | component |
| `BatchLedger` | what a backfill promises about its batches | abstract specification |
| `Discovery` | the archived scan for pools | component |
| `BackfillTables` | archived shards, migration, retry script and rebuild tool on shared tables | component |
| `LiveProofs` | theorems about `Detector` (with `AlertLog`) and `StreamListener` | proofs |
| `SwapStoreProofs` | theorems about `SwapStore` | proofs |
| `BaselineProofs` | theorems about `Baseline` | proofs |
| `BackfillProofs` | theorems about `Backfill` and `BatchRows` | proofs |
| `CacheProofs` | theorems about `PoolLookup` and `TTLCache` | proofs |
| `ArchiveLiveProofs` | theorems about `AnomalyTick`, `ListenerProbe`, `Watchlist` with `LiveSwap`, and about `MCArchive` | proofs |
| `ArchiveBackfillProofs` | theorems about `FetchQueue` (with `BatchLedger`), `Discovery` and `BackfillTables` | proofs |
| `NaturalFacts` | lemmas about natural numbers, finite sets and sums that several proofs use | proofs |
| `MCDetector`, `MCSwapStore`, `MCBaseline`, `MCBackfill`, `MCArchive`, `MCArchiveProgress` | the instances TLC checks; the last three compose several components | model checking |

### The live program

**Detector.** `pc` is where `run_one_tick`/`try_trigger` is suspended: `check` before the cooldown
query, `record` before the insert, `send` before `tx.send`. Each await is a step boundary. The set
of tokens over the thresholds is an input of a tick (`StartTick`). An alert holds the fields of
its row, so the row's id stands for it. `events` keeps every row ever inserted; `lost` are those
that a database crash took away (a suffix of the rows not yet flushed), which the cooldown query no
longer sees. The clock is read once per tick and may have been stepped either way since the last.
`listening` is the receiver of the channel: the notifier task may panic without the process, which
nobody joins it to notice, and from then on `Send` gets its alert back (`refused`) and the tick goes
on. A post that fails may have been accepted all the same, by a timeout for instance.

**SwapStore.** One row per log and timestamp, as `uq_swaps_dedup` has it. `bucket[r]` counts how often the
volume of `r` is part of the sums: the sums themselves are the image of these counts. `stream` is the row
between its two statements. A second statement that ends in an error, or with the process, was either
never run (`owed`), or its connection went while it waited for the lock of a rebuild, and it stays with
the server, which runs it later (`orphans`, counted by `abandoned`). A backfill process goes through
`copy`, `insert`, `truncate`, `lock`, `read`, `commit`; mid-migration moves any part of staging in one
statement. `Start` carries the one rule the program leaves to its operator
(`archive-ts/scripts/backfill.ts` 77-78): processes that run together have `BF_SKIP_MIGRATE=1`. The Rust
binary does not enforce it, and the invocation in its header (`backfill.rs` 15) does not mention it: two
processes that both migrate do lose rows. `copied`, `owed`, `raced`, `repeated`, `killed` are history
variables, read by properties only.

**Baseline.** Time in half minutes, volume in units; the quotients of the code are compared by
cross-multiplication, so rounding of floating point is left out. `stats` is the bucket table,
`trades` what really happened. The detector may look at any tick, so its findings are state
functions. The source's defaults (5, 1440, 288, ratio 10, APR 100, 60 minutes) are used as they
are in two of the runs; `docker-compose.yml` 59 sets the ratio to 5, see below.

**Backfill.** Each batch is in one of eight phases; the semaphores, the channel and the limit on
children are counts of phases. The order of the channel does not matter to any property and is
left out. A permit is held over the send, as in the code.

**BatchRows.** What happens inside `fetch_one_batch`, which `Backfill` takes as one step. All
futures are polled by the one task of `main`, so a batch whose answers are in is processed without
interruption, and the batches in any order. Block times are any non-decreasing function, headers
may be missing (`unwrap_or`), a price is named by the block it is of, and division is the integer
division of `interpolate_log_ts`.

**StreamListener.** A feed is a subscription with its one pool; `backlog` is what the client
library keeps for a reader that is busy with an insert, bounded, dropping the oldest. A log goes
through `row` and `bucket`, the two statements of `insert_swap`. `cached` is `main_pools` as it was
when the process started; `touched` are the pools that entered or left it since the first start.
The order of the six subscribe calls does not matter to a property and is open.

### The archived program

Node runs one callback at a time, so a step goes from one await to the next.

**PoolLookup** follows one of the three families of pools; a lookup goes memory, row, factory (V3 only),
chain, store. `Alien` are identifiers that are no pools of the exchange; the factory check of V3 asks the
contract itself, so an `Impostor` that answers with the exchange's factory is `Believed`. `firstRows` are
the rows the table had when the program started. `addresses` are the pools the discovery found: the node
filters logs by them, so a prefetch, which skips the factory, gets nothing else. With
`BF_SKIP_DISCOVERY=1`, or when the discovery finds nothing, the list is empty, the scan is of the whole
chain, and a V3 prefetch takes in whatever emitted a swap: the history `unchecked` has those it took.
**TTLCache** is the map with its order of use, its bound and lifetimes; `Kept`, what deletions leave of a
sequence, is a recursive function so that theorems can be stated about it. **Watchlist** has the table,
the refresh with its partial upserts (`Promise.all` stops nothing) and the enrichment tool; **LiveSwap**
extends it with logs under way, so that the gap between `clear` and the refill meets swaps that are
waiting for their pool or price. **ListenerProbe** counts ages that saturate at their threshold, so no
clock bounds a behaviour. Block numbers and subscriptions share one websocket (`socketUp`), which may be
lost, or stay open and silent; the transport may bring it back, with its subscriptions or without.
**AnomalyTick** evaluates a slice of tokens side by side.

**FetchQueue** has the jobs by number; a fetch worker takes a job, waits at the gate, fetches and
pushes; a flush worker polls. **BatchLedger** is the promise behind it: each batch settled once and
the run closed when none is open. **Discovery** names a pool by the block of its creation.
**BackfillTables** puts two shards, the retry script and the rebuild tool on the same tables; each
statement outside a transaction commits alone, a failed attempt may have committed part of its
statements, and the others may still land.

**Compositions.** `MCArchive`, `MCArchiveProgress` and `MCBackfill` check components that share no
variable in one run: a behaviour is of one of them, and the others rest, in an initial state that
the variable `part` keeps from moving, or at an end where nothing is enabled. The invariants
are over one component each, so the sum of the state spaces shows what the product would; weak
and strong fairness of a component at rest holds trivially. `LiveSwap` is a composition that does
interact. `MCArchive` also restricts the initial states of parts that rest (`PoolsStart`,
`IngestStart`) and picks the scenarios of the tables (`TablesStart`): two shards, a script beside
a shard, a script beside the tool. Of the pools it keeps the tables that are empty or hold all but the
impostor, and a list of addresses for V3 only, since in the other families the list only takes steps
away. Lookups are symmetric: they differ in the log they serve and nothing chooses among them.

## 3. Runs

| Run | Checks | Bounds |
|---|---|---|
| `detector` | cooldown spacing, combo after spike, refinement of `AlertLog` | one token, three readings of the clock around a cooldown of 1, one exit, one database crash |
| `detector_live` | delivery order, bound on lost alerts, ticks end, delivery | two tokens, channel of one, one failure, one exit or panic of the notifier |
| `detector_repeat` (violation) | no repeated alert | one database crash |
| `store` | accounting between rows and buckets, the bound on double counting, copied rows kept, liveness | two swaps, three processes (one migrates and rebuilds, one rebuilds, one does neither), two runs, two deliveries, one abandoned statement, any kills |
| `store_race` (violation) | no swap counted twice | one swap, one rebuild |
| `store_twice` (violation) | one row per swap | one swap, two timestamps |
| `baseline_window` | window span, grace, bursts are seen | every pattern of up to four swaps in seven minutes, a day of six minutes |
| `baseline_steady` | quiet after Day / Ratio | default constants of the program, three volumes, 200 minutes |
| `baseline_cold` (violation) | no alarm of a steady token | default constants of the program |
| `backfill` | memory bound, join before migration, completeness, termination; order of times, price of a batch | five batches, limits 1 and 2 (capacity four), one error, one rerun; six blocks in batches of two and four, every clock of three readings, two price logs, two gaps |
| `archive` | cache, pool lookups, live swaps and watchlist, alert spacing, staging, retries | a cache of two for three keys; one genuine pool, an alien and an impostor with two lookups, a prefetch and one fault; two logs of one token; two tokens in two ticks; two shards, two attempts, two faults (1,569,540 states) |
| `archive_progress` | subscriptions, queue bound, blocks, discovery, explained swaps; liveness of probe and stream; `FetchQueue` implements `BatchLedger` | two fetch and two flush workers, ranges up to five blocks; two scanners; one kind of pool and the BNB price, three logs, backlog of one, two ends, one fault, one change of `main_pools`; two waiting checks, three listeners that fail to start, which is a whole remount (301,414 states) |

The bounds let the interesting case happen, which the mutants confirm: each property of a passing run is
broken by a small change to a modelled definition under the same configuration. One token is enough for
the cooldown, which never compares two; two tokens are needed for a tick that is given up half way and for
a full channel. Two swaps are the least for two of them in flight at a rebuild (one of the stream, one
that was abandoned to the server). Five batches exceed the capacity of the pipeline by one. Batches of
four leave a short one at the end of six blocks. In `archive_progress` a stream with one kind of pool and
the price has two feeds, so that one can end alone, and three logs overflow the backlog of one. `MaxRetry`
is 2 where the code has 3: the first repetition is the one that adds twice. The ledger of a run that never
started is closed. `CHECK_DEADLOCK FALSE` is set where the modelled world may stop: all deliveries made, a
backfill done, the clock at its bound.

Types: a module whose types are a theorem of its own has no type invariant in a run; `ArchiveTypeOK` is
that of the parts of `archive` together, and a theorem too. `Baseline!TypeOK` and
`StreamListener!StreamTypeOK` are conjuncts of inductive invariants.

### What the runs show of the code

* **Double counting after a rebuild** (`store_race`). The rebuild locks the buckets, not `swaps`.
  A swap stored before the rebuild reads, whose second statement runs after its commit, is counted
  twice until the next rebuild. `DoubleCountBound` says it is one swap, plus one per statement that a
  lost connection or a dead process left to the server; it does not add up over rebuilds.
* **One swap, two rows** (`store_twice`). Stream and backfill give different timestamps, and the
  timestamp is part of the key, so overlapping ranges are stored and counted twice. Two backfills
  with other batches do the same, since the time depends on the ends of the batch.
* **Cold start** (`baseline_cold`). The daily average divides by 288 however short the history:
  an hour of even trading has ratio 24. `SteadyIsQuiet` says when it is over: after Day / Ratio minutes, which
  is 144 with the default ratio of 10 and 288 with the 5 of `docker-compose.yml` 59.
* **Rounding to minutes** (`WindowSpan`, `BurstIsSeen`). The short window spans between four and five
  minutes, depending on where in the minute the tick falls; a burst that its last four minutes prove
  against the last day is always found, by the combo rule too when it is hot.
* **Closed channel** (`TickEnds`, `LossBound`). When the notifier task panics, ticks go on and each alert
  is a warning in the log, while its row keeps the cooldown; only a restart brings alerts back.
* **Repeated alert** (`detector_repeat`). The cooldown is a row, and `synchronous_commit=off` lets a
  crash of the database take it back after the alert was sent.
* **What a stream misses** (`SwapsExplained`). A pool that leaves `main_pools` keeps getting rows but no
  counts; one that enters is not heard before a restart, because the loop in `radar.rs` reconnects with the
  cache of the start. A feed that ends alone is not opened again, though the comment at
  `stream_listener.rs` 257 leaves it to a restart of the container, which nothing triggers; the probe
  is silent as long as no swap has come since the start. `HearsAgain` holds only for the end of all.
* **Times and prices of a batch** (`RowsInOrder`, `PricedInBatch`). A swap gets the last price of its
  batch, from after the swap; in a batch without a price log it gets that of whichever batch was
  processed before, earlier or later, or 600.0. A missing first header gives times that start in 1970.
* **The polled queue** (`QueueBound`). It exceeds `QUEUE_MAX` by up to CONCURRENCY - 1 buffers: with
  16 and 8 that is 23, where the comment at `archive-ts/scripts/backfill.ts` 88 counts 16.
* **The last block** (`AllBlocksAccounted`). The archived loop leaves it out when the size of a batch
  divides the range. The Rust loop leaves out `end` always, which makes adjacent ranges fit.
* **Remount** (`OneSubscription`, `DeafHeals`). A remount stops all five kinds and brings back three. It
  needs an answered block number: while the websocket is open and silent every check fails, the client is
  never reset, and the subscriptions stay deaf (`livenessProbe.ts` 56, `clients/viem-clients.ts` 22).
* **Pools of a fork** (`AliensStayOut`). They enter cache and table through the prefetch of a backfill without a
  list of addresses, or by naming the exchange's factory themselves; and no other way but the table.
* **Watchlist** (`MissedExplained`). A reload that fails after the `clear` leaves the watchlist empty for
  six hours; `tracker.ts` 19 logs that the previous one is kept.
* **Staging** (`StagedIsKept`). The loss `backfill.ts` 77 warns of, between copy and truncate of
  another shard, is the only one.
* **Retries** (`RetriesWashOut`). The repeated additions are washed out by the rebuild at the end, which
  starts a minute early; a rebuild that begins inside a minute leaves that minute partial.

### Fairness

`Detector!FairSpec`: weak fairness of the detector task and of the notifier task. Both are
spawned on the runtime, which polls a woken task; queries return or fail, and a post ends by its 10 s
timeout. Nothing is assumed of ticks, failures, or restarts. `SwapStore!FairSpec`: weak fairness of
the server running an unblocked statement, and of each backfill process going on. `Backfill!FairSpec`:
some batch that can move does, and so does some task; this is weaker than the fair semaphores of
tokio. `CopiedIsCounted` excludes kills, `RecordedIsDelivered` failures and exits, in the property itself.

`StreamFairness`: the stream task is polled, a connection, a statement and the pause of five seconds end.
Nothing is assumed of feeds, logs, or faults; their bounds keep a run from failing for ever.
`ProbeFairness`: the timer fires, a check asks for the block number, the chain makes blocks (weak). Of
answers nothing is assumed unless the websocket stays up from some time on (`SocketHolds`): then answers
to a chain that has moved arrive again and again (strong: single calls may fail, any finite number of
times). `DeafHeals` has the same condition, and would be false without it. `QueueFairness`: the timers and
promises of each worker resolve. `BatchLedger!LedgerSpec` has weak fairness of settling and closing, which
`FetchQueue` implements.

## 4. Proofs

Every safety property of a passing run is a theorem, for every value of the constants under the named
assumptions of the modules, which say that bounds and durations are natural numbers, that sets of workers,
keys and kinds are finite, that channels, caches and batches have a place, that there is a token, and that
null values are outside their sets. `SteadyStaysQuiet` names more in its statement, see there.

What needs induction over data is proved by smallest counterexample instead of an induction theorem:
`NaturalFacts!NatMin` gives the least number, and `SmallestSubset` the smallest set, for which a fact
fails. From these come quotients and products (`FetchQueue`, `Discovery`, `BatchRows`), maxima and minima of sets,
the sum of a function over a set (`Baseline`), and what the recursive `Kept` returns (`TTLCache`).

### `LiveProofs`

`Detector`: `TypeCorrect`; `Spacing` and `ComboAfterSpike` from an invariant about the task in
hand (between the cooldown query and the insert no row of this token and rule can appear, since there is
one detector; a combo in hand has a spike row behind it); `InOrder` and `Losses` from an invariant on
the pipeline (delivered, sending, channel and the row about to be sent are increasing ids; the
difference of recorded and delivered is what is in hand plus what failures, exits, panics of the notifier
and the closed channel took);
`NoRepeat` for a database that does not crash; `Implements`, step by step, for `AlertLog`.

`StreamListener`: `StreamInv` adds to `SwapsExplained` that logs wait in their own feed, that the log in
hand is of a cached pool (or of the BNB price, which has no rows), and that cache and table differ only in
touched pools: this is why a log that is passed over needs no other explanation.

### `SwapStoreProofs`

`TypeCorrect` together with the ownership of the lock; `AccountingCorrect` is the
inductive invariant: only stored rows are counted, in flight, or in a snapshot; while a rebuild is about
to commit, every row it did not see is in flight or owed (nobody can have counted it, for the
lock); a row that is counted and in flight, or in flight twice, is known to be raced or repeated. From it
`OnlyStoredIsCounted`, `NothingUncounted`, and with one orphan per abandoned statement `DoubleCountBounded`.
`NothingCopiedIsLost` needs that a migrating process is alone between INSERT and TRUNCATE.

### `BaselineProofs`

`BaselineInv` has the types (`BaselineTypeCorrect`), that no swap is in the future and that each bucket is the
sum of the swaps of its minute. `WindowSpans` and `GraceGiven` turn sums over buckets into swaps: a window with
volume has a bucket, and a bucket a swap. `BurstsAreSeen` puts both together: the short window sums to at least
the burst and the long one to at most the day, and both rules only gain by that (`SpikeGrows`).

`SteadyStaysQuiet` assumes that a minute is more than one instant and the ratio more than one; the program has
60000 ms and 10. With one instant to a minute a window would hold one bucket more than it has minutes, and
with a ratio of one the average itself is a spike. `EveryMinute` is the inductive part: the i-th swap of a
steady token is in the i-th minute and has the volume of the first. So a window of w whole minutes sums to at
most w volumes, the day to at least as many as the token has traded minutes or the day has, and the two
cannot have the ratio of a spike.

### `BackfillProofs`

`Backfill`: `BackfillInv` adds to the types one bound per limit, what each state of `main` and of the
collector says about the phases (a collector that drains has an empty channel, and so on), that a
batch that is done is in a table, and that failed batches are counted. Cardinalities move by one per step.

`BatchRows`: `BatchInv` has the grid of batches, that each row is of a processed batch and has the time that
batch gives it, that a batch has one price and one set of headers, and that the cached price is one a
processed batch used for itself. `RowsKeepOrder`
needs that the integer division of the interpolation is monotone and stays between the two headers.

### `CacheProofs`

`PoolLookup`: `PoolInv` says that what is cached, stored or about to be is `Entitled` (believed, in the table at
the start, or taken in unchecked), where in a lookup that is already known (`Vetted`), and that nothing was
taken in unchecked but by V3 without addresses; without a fault no answer is wrong.

`TTLCache`: `CacheInv` says that the entries are in the order of the last uses of their keys, each with the
value last set and the lifetime it has left, and that a missing value which is still fresh has at least
`CacheMax` keys used after it. An insertion into a full cache pushes the front out; all the others were used
after it, and a function without repetitions from the others to those keys (`FrontOut`, by the pigeonhole
principle) counts them. The history `uses` drops the older of two uses of a key, so a further use takes
nothing from what was used after another key (`UsedFacts`).

### `ArchiveLiveProofs`

`AnomalyTick`: at most one tick runs, a token is evaluated by it once, and an evaluation before its
insert is a cooldown away from every row of its token and rule.

`ListenerProbe`: what is still to be started at the begin of the process is not subscribed, and nothing is once
the probe runs (`MountedOnce`), whatever number of checks wait for their block number; a remount stops every
kind before it starts three. `SubscribedOnce` follows.

`LiveSwap`: the watchlist and what a refresh has selected come from the table or from deleted rows
(`FromTable`), which gives `MissesExplained` with the history of which logs arrived watched. `Counts` relates the
number of logs that still have a write to do (`Number(Coming(...))`) to rows and counts: `StoresBeforeAlive`
follows, because an event is emitted by the last write of a log whose writes were all good.

`ArchiveTypesCorrect`: a behaviour of `MCArchive` is one of each of its parts.

### `ArchiveBackfillProofs`

`FetchQueue`: the jobs taken so far are the disjoint union of those at fetch workers, in the queue, at
flush workers, stored and lost, each once (`InPlace`, `FetchOnce`, `QueueOnce`, `FlushOnce`), and workers end
in an order that leaves nothing behind; then facts about quotients turn jobs into blocks.
`RoomLeft` (queue plus fetching workers is at most QUEUE_MAX - 1 plus the workers) gives `QueueBounded`.
`QueueKeepsLedger` is the refinement of `BatchLedger` without its fairness: the first state is a first state of
the ledger, and each step settles one batch, closes, or leaves the ledger as it is.

`Discovery`: ranges below the cursor are done, missed, or at one worker; every pool of a range that was
scanned is found; the same facts about quotients show that the ranges cover the blocks.

`BackfillTables`: `TablesInv` adds to the types that a shard between copy and truncate finds what it
truncates in `swaps`, but for the rows exposed to that (`Copied`), and that after the rebuild the minutes
of the script are right unless disturbed (`Washed`).

### What is only model-checked

All liveness: `TickEnds`, `RecordedIsDelivered`, `StreamGoesOn`, `CopiedIsCounted`, `Ends`, `DeafHeals`, `HearsAgain`
and the fairness of `LedgerSpec` within `QueueImplementsLedger`. It needs ENABLED, which is beyond the
prover. The properties of the violation runs are false.

## 5. What is left

* The listener of the BNB price of the archive and the price service with its own lifetimes; a second
  token in `LiveSwap`, whose instance has one (the theorems about it have any number).
* `pool_1min_stats` in `SwapStore`, for a reader that does not exist yet.

## 6. Not modelled

Database crashes in `SwapStore` (a rebuild repairs what they leave; staging is UNLOGGED and is emptied);
`pool_1min_stats` of the live program, which nothing live reads; the price rows of a batch; formatting of
alerts; the aggregate query failing (it changes nothing); decoding of logs, USD formulas and floating-point
rounding; the Rust discovery, which is not called any more; the watchlist and seeds of the live program, which are
loaded once; RPC clients, schema creation and the offline reports, which are I/O without concurrent state.
