----------------------------- MODULE BatchRows ------------------------------
(***************************************************************************)
(* What a batch of the backfill makes of its logs (fetch_one_batch of      *)
(* src/bin/backfill.rs, interpolate_log_ts of src/swap_processor.rs): the  *)
(* node gives logs by block and the times of two blocks only, so a row has *)
(* a time between them; and all batches share one price of BNB.            *)
(*                                                                         *)
(* One swap of a main pool in every block, and a swap of the BNB price     *)
(* pool in some.  The future of a batch is suspended only before its       *)
(* answers are in, and all futures are polled by one task: a batch is      *)
(* processed in one step, and batches in any order.  A price is named by   *)
(* the block it is of.  Module Backfill has what becomes of the buffer.    *)
(***************************************************************************)
EXTENDS Integers, FiniteSets, FiniteSetsExt

CONSTANTS
    LastBlock,    \* bound: blocks 0..LastBlock
    LastTime,     \* bound: their headers have times 1..LastTime
    BatchSizes,   \* values of BF_BLOCKS_PER_BATCH
    MaxPriceLogs, \* bound: blocks with a swap of the price pool
    MaxGaps       \* bound: headers the node does not have, and batches whose calls fail

ASSUME BatchAssumption ==
    /\ LastBlock \in Nat /\ LastTime \in Nat
    /\ BatchSizes \subseteq Nat \ {0}
    /\ MaxPriceLogs \in Nat /\ MaxGaps \in Nat

VARIABLES
    headTime,   \* block -> the time in its header
    priceLogs,  \* blocks with a swap of the price pool
    toBlock,    \* end: the run is over the blocks before it
    batchSize,
    waiting,    \* first blocks of the batches not processed
    bnbCache,   \* the block whose price is used, or NoPrice
    batchRows,  \* the rows made so far
    givenUp,    \* first blocks of the batches whose fetch failed
    gaps

batchVars == <<headTime, priceLogs, toBlock, batchSize, waiting, bnbCache, batchRows, givenUp,
               gaps>>

BlockNumber == 0..LastBlock
Time == 1..LastTime
NoPrice == -1    \* the placeholder 600.0

FirstBlocks(end, size) == {f \in 0..(end - 1) : f % size = 0}

\* to: t.saturating_sub(1).max(f); the next batch begins at t.
LastOfBatch(f) == Max({Min({f + batchSize, toBlock}) - 1, f})
BlocksOfBatch(f) == f..LastOfBatch(f)

BatchInit ==
    /\ headTime \in {t \in [BlockNumber -> Time] : \A b \in 1..LastBlock : t[b - 1] <= t[b]}
    /\ priceLogs \in {B \in SUBSET BlockNumber : Cardinality(B) <= MaxPriceLogs}
    /\ toBlock = LastBlock + 1 /\ batchSize \in BatchSizes
    /\ waiting = FirstBlocks(toBlock, batchSize)
    /\ bnbCache = NoPrice /\ batchRows = {} /\ givenUp = {} /\ gaps = 0

-----------------------------------------------------------------------------
\* Mutant: the blocks after the first are counted, not the steps between them.
InterpolateShort(b, from, to, fromTime, toTime) ==
    fromTime + ((b - from) * (toTime - fromTime)) \div Max({to - from - 1, 1})

\* interpolate_log_ts, in integers; no header goes back in time, so nothing here is negative.
InterpolateLogTs(b, from, to, fromTime, toTime) ==
    fromTime + ((b - from) * (toTime - fromTime)) \div Max({to - from, 1})

\* The time of the first header or 0, and of the last or that of the first.
FromTime(f, heads) == IF f \in heads THEN headTime[f] ELSE 0
ToTime(f, heads) ==
    IF LastOfBatch(f) \in heads THEN headTime[LastOfBatch(f)] ELSE FromTime(f, heads)

\* The price logs come first, in the order of the blocks, and the last one stays.
SetPrice(f) ==
    LET own == priceLogs \cap BlocksOfBatch(f)
    IN  bnbCache' = IF own = {} THEN bnbCache ELSE Max(own)

\* Mutant: the price is read before the price logs of the batch.
PriceBefore(f) == bnbCache

\* bnb_now, read once for all swaps of the batch.
PriceOfBatch(f) == bnbCache'

\* All answers are in: every log of the batch becomes a row.  heads are the headers found.
FetchOneBatch(f, heads) ==
    LET missing == {f, LastOfBatch(f)} \ heads
        last == LastOfBatch(f)
        At(b) == InterpolateLogTs(b, f, last, FromTime(f, heads), ToTime(f, heads))
    IN  /\ gaps + Cardinality(missing) <= MaxGaps /\ gaps' = gaps + Cardinality(missing)
        /\ waiting' = waiting \ {f}
        /\ SetPrice(f)
        /\ batchRows' = batchRows \cup
              {[block |-> b, batch |-> f, at |-> At(b), heads |-> heads,
                price |-> PriceOfBatch(f)] : b \in BlocksOfBatch(f)}
        /\ UNCHANGED <<headTime, priceLogs, toBlock, batchSize, givenUp>>

\* One of the eight calls fails: try_join! gives up the batch, and main counts an error.
FetchOneBatchFails(f) ==
    /\ gaps < MaxGaps /\ gaps' = gaps + 1
    /\ waiting' = waiting \ {f} /\ givenUp' = givenUp \cup {f}
    /\ UNCHANGED <<headTime, priceLogs, toBlock, batchSize, bnbCache, batchRows>>

BatchNext ==
    \E f \in waiting :
        \/ \E heads \in SUBSET {f, LastOfBatch(f)} : FetchOneBatch(f, heads)
        \/ FetchOneBatchFails(f)

BatchSpec == BatchInit /\ [][BatchNext]_batchVars

-----------------------------------------------------------------------------
\* Batches cut the range, and their rows are in the order of the chain: over all batches of
\* a run a later block never has an earlier time, no time is outside its batch, the last
\* block has its own, and in the end each block has one row or its batch failed.  Rows of a
\* batch whose first header was missing start at 1970 (backfill.rs:206) and are left out.
RowsInOrder ==
    LET sighted == {r \in batchRows : r.batch \in r.heads}
    IN  /\ \A r, s \in sighted : r.block <= s.block => r.at <= s.at
        /\ \A r \in sighted :
              /\ headTime[r.batch] <= r.at /\ r.at <= headTime[LastOfBatch(r.batch)]
              /\ LastOfBatch(r.batch) \in r.heads /\ r.block = LastOfBatch(r.batch) =>
                    r.at = headTime[r.block]
        /\ \A r, s \in batchRows : r.block = s.block => r = s
        /\ waiting = {} =>
              \A b \in 0..(toBlock - 1) :
                 \/ \E r \in batchRows : r.block = b
                 \/ \E f \in givenUp : b \in BlocksOfBatch(f)

\* A swap is priced with the last price of its own batch, if its batch has one, whatever the
\* batches before and after it did to the shared price.  If it has none, the price may be of
\* any time of the run, later ones included, but of a batch that was processed, or it is the
\* placeholder (backfill.rs fetch_one_batch, BnbPriceCache).
PricedInBatch ==
    \A r \in batchRows :
        LET own == priceLogs \cap BlocksOfBatch(r.batch)
        IN  IF own # {} THEN r.price \in own /\ \A b \in own : b <= r.price
            ELSE r.price = NoPrice \/ \E s \in batchRows : s.block = r.price /\ s.price = s.block
=============================================================================
