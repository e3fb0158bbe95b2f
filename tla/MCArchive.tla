----------------------------- MODULE MCArchive -----------------------------
(***************************************************************************)
(* The parts of the archived programs whose properties are safety, checked *)
(* by one run.  They share no variable: a behaviour is of the one that     *)
(* part names, and the others stay in an initial state, so the states of   *)
(* the run are the sum of theirs and not the product.                      *)
(***************************************************************************)
EXTENDS TTLCache, PoolLookup, LiveSwap, AnomalyTick, BackfillTables, TLC

VARIABLE part

archiveVars == <<cacheVars, poolVars, liveVars, tickVars, tableVars, part>>

Part == {"cache", "pools", "ingest", "tick", "tables"}

\* Bounds on the initial states of the other parts, and on the scenarios of the tables:
\* two shards that stage, the script beside one shard, or the script beside the tool.
PoolsStart ==
    /\ rows \in {{}, Pool \ Impostor}
    /\ fam # "v3" => addresses = {}      \* a list only takes steps away from these two
    /\ fam = "pcs" => rows = {}       \* and they differ in nothing but their action
    /\ part # "pools" => fam = "v3" /\ rows = {} /\ addresses = {}
IngestStart == part # "ingest" => table = {}

NoScript == [pc |-> "dead", from |-> 0, to |-> 0, attempt |-> 1]

TablesStart ==
    LET runs == Cardinality({k \in Shard : shard[k].pc = "flush"})
    IN  /\ tool \in [pc : {"idle", "done"}, from : {0}]
        /\ script \in {NoScript} \cup [pc : {"fetch"}, from : {3}, to : {3}, attempt : {1}]
        /\ shard \in [Shard -> [pc : {"flush", "dead"}, skips : BOOLEAN, stages : BOOLEAN]]
        /\ \A k \in Shard : shard[k].pc = "dead" => ~shard[k].skips /\ ~shard[k].stages
        /\ IF part = "tables"
             THEN \/ /\ script.pc = "dead" /\ tool.pc = "done" /\ runs = 2
                     /\ \A k \in Shard : shard[k].stages
                  \/ /\ script.pc = "fetch" /\ tool.pc = "done" /\ runs = 1
                     /\ \A k \in Shard : ~shard[k].skips
                  \/ script.pc = "fetch" /\ tool.pc = "idle" /\ runs = 0
             ELSE script.pc = "dead" /\ tool.pc = "done" /\ runs = 0
        /\ swapRows = {0, 2} /\ unfetched = {1, 2} /\ since = 1

ArchiveInit ==
    /\ part \in Part
    /\ CacheInit
    /\ PoolInit /\ PoolsStart
    /\ LiveInit /\ IngestStart
    /\ TickInit
    /\ TablesStart /\ TablesInit

ArchiveNext ==
    /\ UNCHANGED part
    /\ \/ part = "cache" /\ CacheNext
          /\ UNCHANGED <<poolVars, liveVars, tickVars, tableVars>>
       \/ part = "pools" /\ PoolNext
          /\ UNCHANGED <<cacheVars, liveVars, tickVars, tableVars>>
       \/ part = "ingest" /\ LiveNext
          /\ UNCHANGED <<cacheVars, poolVars, tickVars, tableVars>>
       \/ part = "tick" /\ TickNext
          /\ UNCHANGED <<cacheVars, poolVars, liveVars, tableVars>>
       \/ part = "tables" /\ TablesNext
          /\ UNCHANGED <<cacheVars, poolVars, liveVars, tickVars>>

\* Lookups differ only in the log they serve, and nothing chooses among them.
LookupSymmetry == Permutations(Lookup)

ArchiveSpec == ArchiveInit /\ [][ArchiveNext]_archiveVars

\* The types of the five parts (utils/ttlCache.ts, swap-listener.ts, watchlist.ts,
\* detector.ts, queries.ts).
ArchiveTypeOK ==
    CacheTypeOK /\ PoolTypeOK /\ WatchTypeOK /\ SwapTypeOK /\ TickTypeOK /\ TablesTypeOK
=============================================================================
