----------------------------- MODULE PoolLookup -----------------------------
(***************************************************************************)
(* How the archived program learns the tokens and the fee of a pool:       *)
(* memory, then the table, then the chain, with a set of identifiers it    *)
(* will not ask about again (archive-ts/src/core/swap-listener.ts).        *)
(*                                                                         *)
(* Each swap log being processed runs one lookup; a batch of the backfill  *)
(* runs a prefetch first.  They share the caches and interleave at every   *)
(* await.  The three families of pools (V3 of both exchanges, Uniswap V4,  *)
(* PancakeSwap V4 CL) have caches and rows of their own, so an instance    *)
(* follows one family.  Which entry a full cache drops is left open here;  *)
(* it is the subject of module TTLCache.                                   *)
(***************************************************************************)
EXTENDS Integers, FiniteSets

CONSTANTS
    Pool,       \* identifiers seen in logs, all of one family
    Alien,      \* those that are no pool of the exchange: made by another factory (V3),
                \* or unknown to the position manager, which answers zeros (V4)
    Impostor,   \* aliens whose own factory() names the factory of the exchange (V3)
    Lookup,     \* the logs processed at a time
    PoolMax,    \* MAX_POOL_CACHE_SIZE
    MaxFaults   \* bound: failed calls of the node or of the database

Family == {"v3", "v4", "pcs"}
Genuine == Pool \ Alien

ASSUME PoolLookupAssumption ==
    /\ IsFiniteSet(Pool) /\ Pool # {}
    /\ Alien \subseteq Pool /\ Impostor \subseteq Alien
    /\ PoolMax \in Nat \ {0}
    /\ MaxFaults \in Nat

VARIABLES
    fam,      \* the family, fixed
    firstRows,\* the rows at the start, fixed: a restored dump, or what other processes stored
    addresses,\* the pools discovery found, fixed; {}: it was skipped, or found none
    cache,    \* keys of the pool cache
    invalid,  \* keys of the invalid set
    rows,     \* rows of pools, or of v4_pools
    lk,       \* lookup -> where it is, on which pool, and its last answer
    pf,       \* the prefetch: where it is, which pools it still lacks, which it will store
    unchecked,\* history: other aliens that a prefetch took in
    faults

fixed == <<fam, firstRows, addresses>>
poolVars == <<fixed, cache, invalid, rows, lk, pf, unchecked, faults>>

\* What the check of a lookup takes for pools of the exchange: the contract is asked for
\* its factory (V3), the position manager for the pool (V4).
Believed == IF fam = "v3" THEN Genuine \cup Impostor ELSE Genuine

NoAnswer == "none"

PoolTypeOK ==
    /\ fam \in Family
    /\ firstRows \subseteq Pool /\ addresses \subseteq Pool /\ unchecked \subseteq Pool
    /\ cache \subseteq Pool
    /\ invalid \subseteq Pool
    /\ rows \subseteq Pool
    /\ lk \in [Lookup -> [pc : {"idle", "row", "factory", "chain", "store"},
                          pool : Pool, answer : {NoAnswer, "info", "null", "error"}]]
    /\ pf \in [pc : {"idle", "rows", "chain", "store"}, lacks : SUBSET Pool, store : SUBSET Pool]
    /\ faults \in 0..MaxFaults

PoolInit ==
    /\ fam \in Family
    /\ cache = {} /\ invalid = {}
    /\ rows \in SUBSET Pool /\ firstRows = rows
    /\ addresses \in {{}, Genuine \cup firstRows}
    /\ unchecked = {}
    /\ lk \in [Lookup -> {[pc |-> "idle", pool |-> p, answer |-> NoAnswer] :
                            p \in {CHOOSE q \in Pool : TRUE}}]
    /\ pf = [pc |-> "idle", lacks |-> {}, store |-> {}]
    /\ faults = 0

-----------------------------------------------------------------------------
\* The cache after it is given the keys new: all of them kept, up to its bound.
Holding(new) ==
    {c \in SUBSET (cache \cup new) :
        /\ Cardinality(c) <= PoolMax
        /\ Cardinality(cache \cup new) <= PoolMax => c = cache \cup new
        /\ Cardinality(new) <= PoolMax => new \subseteq c}

Fault == faults < MaxFaults /\ faults' = faults + 1

Step(l, pc, answer) == lk' = [lk EXCEPT ![l].pc = pc, ![l].answer = answer]
Answer(l, answer) == Step(l, "idle", answer)

Mark(l) ==
    /\ invalid' = invalid \cup {lk[l].pool}
    /\ Answer(l, "null")
    /\ UNCHANGED <<cache, rows>>

-----------------------------------------------------------------------------
(***************************************************************************)
(* One lookup: getPoolInfo, getV4PoolInfo, getPcsV4ClPoolInfo              *)
(***************************************************************************)

\* Memory answers at once.
Enter(l, p) ==
    /\ lk[l].pc = "idle"
    /\ lk' = [lk EXCEPT ![l] =
                IF p \in cache THEN [pc |-> "idle", pool |-> p, answer |-> "info"]
                ELSE IF p \in invalid THEN [pc |-> "idle", pool |-> p, answer |-> "null"]
                ELSE [pc |-> "row", pool |-> p, answer |-> NoAnswer]]
    /\ UNCHANGED <<fixed, unchecked, cache, invalid, rows, pf, faults>>

\* getPoolRecord, getV4Pool: an error goes up to the caller, which drops the log.
ReadRow(l, next) ==
    LET p == lk[l].pool
    IN  /\ lk[l].pc = "row"
        /\ \/ Fault /\ Answer(l, "error") /\ UNCHANGED cache
           \/ /\ p \in rows
              /\ cache' \in Holding({p})
              /\ Answer(l, "info") /\ UNCHANGED faults
           \/ p \notin rows /\ next /\ UNCHANGED <<cache, faults>>
        /\ UNCHANGED <<fixed, unchecked, invalid, rows, pf>>

\* Mutant: a node that does not answer is taken for a pool of the exchange.
TrustingFactory(l) ==
    /\ lk[l].pc = "factory"
    /\ \/ Fault /\ Step(l, "chain", NoAnswer) /\ UNCHANGED <<cache, invalid, rows>>
       \/ lk[l].pool \notin Believed /\ Mark(l) /\ UNCHANGED faults
       \/ /\ lk[l].pool \in Believed
          /\ Step(l, "chain", NoAnswer) /\ UNCHANGED <<cache, invalid, rows, faults>>
    /\ UNCHANGED <<fixed, unchecked, pf>>

\* verifyPoolFactory: any error marks the pool, as another factory does; the contract's
\* own answer is believed.
VerifyPoolFactory(l) ==
    /\ lk[l].pc = "factory"
    /\ \/ Fault /\ Mark(l)
       \/ lk[l].pool \notin Believed /\ Mark(l) /\ UNCHANGED faults
       \/ /\ lk[l].pool \in Believed
          /\ Step(l, "chain", NoAnswer) /\ UNCHANGED <<cache, invalid, rows, faults>>
    /\ UNCHANGED <<fixed, unchecked, pf>>

\* The answer of the chain enters the cache before the row is written.
Learn(l) ==
    /\ cache' \in Holding({lk[l].pool})
    /\ Step(l, "store", NoAnswer)
    /\ UNCHANGED <<invalid, rows, faults>>

\* Mutant: the row is not written.
NoStore(l) ==
    /\ lk[l].pc = "store"
    /\ Answer(l, "info") /\ UNCHANGED <<fixed, unchecked, cache, invalid, rows, pf, faults>>

\* upsertPool, upsertV4Pool.
Stored(l) ==
    /\ lk[l].pc = "store"
    /\ rows' = rows \cup {lk[l].pool}
    /\ Answer(l, "info")
    /\ UNCHANGED <<fixed, unchecked, cache, invalid, pf, faults>>

\* V3: the address is verified first; a failed call or upsert, and a contract that lacks
\* one of token0, token1 and fee, leaves no mark.
GetPoolInfo(l) ==
    /\ fam = "v3"
    /\ \/ ReadRow(l, IF lk[l].pool \in invalid THEN Answer(l, "null")
                                               ELSE Step(l, "factory", NoAnswer))
       \/ VerifyPoolFactory(l)
       \/ /\ lk[l].pc = "chain"
          /\ \/ Learn(l)
             \/ /\ Fault \/ (lk[l].pool \in Alien /\ UNCHANGED faults)
                /\ Answer(l, "null") /\ UNCHANGED <<cache, invalid, rows>>
          /\ UNCHANGED <<fixed, unchecked, pf>>
       \/ Stored(l)
       \/ /\ lk[l].pc = "store"
          /\ Fault /\ Answer(l, "null")
          /\ UNCHANGED <<fixed, unchecked, cache, invalid, rows, pf>>

\* V4: any failure after the row was missed marks the pool, even after it was cached.
PoolKeys(l) ==
    \/ ReadRow(l, Step(l, "chain", NoAnswer))
    \/ /\ lk[l].pc = "chain"
       /\ \/ Fault /\ Mark(l)
          \/ lk[l].pool \notin Believed /\ Mark(l) /\ UNCHANGED faults
          \/ lk[l].pool \in Believed /\ Learn(l)
       /\ UNCHANGED <<fixed, unchecked, pf>>
    \/ Stored(l)
    \/ lk[l].pc = "store" /\ Fault /\ Mark(l) /\ UNCHANGED <<fixed, unchecked, pf>>

GetV4PoolInfo(l) == fam = "v4" /\ PoolKeys(l)
GetPcsV4ClPoolInfo(l) == fam = "pcs" /\ PoolKeys(l)

-----------------------------------------------------------------------------
(***************************************************************************)
(* The prefetch of a batch                                                 *)
(***************************************************************************)

\* The node filters the logs by the discovered pools; an empty list filters nothing, and
\* the prefetch gets whatever contract emitted a swap.
Prefetchable == IF addresses = {} THEN Pool ELSE addresses

PrefetchStart(want) ==
    /\ pf.pc = "idle"
    /\ want \subseteq Prefetchable
    /\ want \ (cache \cup invalid) # {}
    /\ pf' = [pc |-> "rows", lacks |-> want \ (cache \cup invalid), store |-> {}]
    /\ UNCHANGED <<fixed, unchecked, cache, invalid, rows, lk, faults>>

\* One SELECT for all; an error counts as no rows found.
PrefetchRows ==
    /\ pf.pc = "rows"
    /\ \/ /\ cache' \in Holding(pf.lacks \cap rows) /\ UNCHANGED faults
          /\ pf' = IF pf.lacks \subseteq rows
                     THEN [pc |-> "idle", lacks |-> {}, store |-> {}]
                     ELSE [pf EXCEPT !.pc = "chain", !.lacks = pf.lacks \ rows]
       \/ Fault /\ pf' = [pf EXCEPT !.pc = "chain"] /\ UNCHANGED cache
    /\ UNCHANGED <<fixed, unchecked, invalid, rows, lk>>

\* The multicall fails as a whole, which marks nothing, or for the pools in bad, which
\* are marked: those the position manager does not know, always, and any that does not
\* answer.
PrefetchChain(unknown) ==
    /\ pf.pc = "chain"
    /\ \/ Fault /\ pf' = [pc |-> "idle", lacks |-> {}, store |-> {}]
          /\ UNCHANGED <<cache, invalid, unchecked>>
       \/ \E bad \in SUBSET pf.lacks :
            /\ pf.lacks \cap unknown \subseteq bad
            /\ IF bad \subseteq Alien THEN UNCHANGED faults ELSE Fault
            /\ invalid' = invalid \cup bad
            /\ cache' \in Holding(pf.lacks \ bad)
            /\ unchecked' = unchecked \cup ((pf.lacks \ bad) \ (Believed \cup firstRows))
            /\ pf' = [pf EXCEPT !.pc = "store", !.lacks = {}, !.store = pf.lacks \ bad]
    /\ UNCHANGED <<fixed, rows, lk>>

\* bulkUpsertPools, bulkUpsertV4Pools: in chunks of 1000, so an error may leave a part.
BulkUpsert ==
    /\ pf.pc = "store"
    /\ \/ rows' = rows \cup pf.store /\ UNCHANGED faults
       \/ Fault /\ \E part \in SUBSET pf.store : rows' = rows \cup part
    /\ pf' = [pc |-> "idle", lacks |-> {}, store |-> {}]
    /\ UNCHANGED <<fixed, unchecked, cache, invalid, lk>>

\* Factories are not verified here (the comment at line 212): no contract is unknown.
PrefetchV3PoolInfo ==
    fam = "v3" /\ (PrefetchRows \/ PrefetchChain({}) \/ BulkUpsert)
PrefetchV4PoolInfo ==
    fam = "v4" /\ (PrefetchRows \/ PrefetchChain(Alien) \/ BulkUpsert)
PrefetchPcsV4ClPoolInfo ==
    fam = "pcs" /\ (PrefetchRows \/ PrefetchChain(Alien) \/ BulkUpsert)

PoolNext ==
    \/ \E l \in Lookup :
         \/ \E p \in Pool : Enter(l, p)
         \/ GetPoolInfo(l) \/ GetV4PoolInfo(l) \/ GetPcsV4ClPoolInfo(l)
    \/ \E want \in SUBSET Pool : PrefetchStart(want)
    \/ PrefetchV3PoolInfo \/ PrefetchV4PoolInfo \/ PrefetchPcsV4ClPoolInfo

PoolSpec == PoolInit /\ [][PoolNext]_poolVars

-----------------------------------------------------------------------------
Admitted == cache \cup rows \cup {lk[l].pool : l \in {k \in Lookup : lk[k].answer = "info"}}

\* However lookups, prefetches and failures interleave, an identifier that is no pool of
\* the exchange is cached, stored or handed to the swap processing only if the table held
\* it at the start, or its contract names the exchange's factory itself, or a V3 prefetch
\* that ran without a discovery took it in (swap-listener.ts verifyPoolFactory,
\* prefetchV3PoolInfo, and the zero check of getV4PoolInfo; scripts/backfill.ts:729).
AliensStayOut ==
    /\ Admitted \subseteq Believed \cup firstRows \cup unchecked
    /\ unchecked # {} => fam = "v3" /\ addresses = {}

\* A genuine pool is marked, or refused, only after a call failed; and a cached pool has
\* its row, or is about to, unless one did.  The rebuild of the buckets joins these rows,
\* so the second part is what makes a swap stored live count in it
\* (swap-listener.ts getPoolInfo, getV4PoolInfo; scripts/backfill.ts:923).
OnlyFaultsHidePools ==
    faults = 0 =>
      /\ invalid \subseteq Alien
      /\ \A l \in Lookup : lk[l].answer \in {"null", "error"} => lk[l].pool \in Alien
      /\ \A p \in cache \ rows :
            p \in pf.store \/ \E l \in Lookup : lk[l].pc = "store" /\ lk[l].pool = p
=============================================================================
