--------------------------- MODULE StreamListener ---------------------------
(***************************************************************************)
(* The stream task of the radar (src/stream_listener.rs, and the loop of   *)
(* src/bin/radar.rs around it): it subscribes to the logs of each kind of  *)
(* pool and of the BNB price, handles one log at a time, and connects      *)
(* again when all subscriptions have ended.  The pools it knows were read  *)
(* from main_pools when the process started.                               *)
(*                                                                         *)
(* Each feed has one pool, which may be in main_pools or not; a log is its *)
(* number in the order of emission.  The subscription of the client        *)
(* library (external) keeps a bounded number of logs for a reader that is  *)
(* busy and drops the oldest.  The probe only writes to the program's own  *)
(* log, so it is left out.  The database serves the statements of one log  *)
(* as module SwapStore has it in full.                                     *)
(***************************************************************************)
EXTENDS Integers, Sequences, FiniteSets

CONSTANTS
    SwapFeed,        \* v3, pcs_v3, v2, v4 and pcs_v4
    Backlog,         \* external: logs a subscription keeps
    MaxLogs,         \* bound: logs emitted
    MaxEnds,         \* bound: subscriptions that end
    MaxStreamFaults, \* bound: calls that fail, and processes that exit
    MaxRefresh       \* bound: times main_pools is generated again

BnbFeed == "bnb"
Feed == SwapFeed \cup {BnbFeed}

ASSUME StreamAssumption ==
    /\ IsFiniteSet(SwapFeed) /\ BnbFeed \notin SwapFeed
    /\ Backlog \in Nat \ {0} /\ MaxLogs \in Nat /\ MaxEnds \in Nat
    /\ MaxStreamFaults \in Nat /\ MaxRefresh \in Nat

VARIABLES
    cached,       \* pool_cache: the pools of these feeds
    mainPools,    \* main_pools
    feed,         \* feed -> "none", "open" or "ended"
    backlog,      \* feed -> logs delivered and not read
    streamPc,     \* "subscribe", "select", "row", "bucket", "price" or "sleep"
    inHand,       \* the log being handled, or 0
    bnbPrice,     \* the initial 600.0, or the price of a log
    logs,         \* history: the feed of each log emitted
    rowOf,        \* logs with a row in swaps
    countedOf,    \* logs counted in token_1min_stats
    unheard,      \* history: logs emitted while their feed was not subscribed
    lagged,       \* history: logs a full backlog dropped
    failed,       \* history: logs a failed statement or an exit dropped
    touched,      \* history: pools that entered or left main_pools after the first start
    ends, streamFaults, refreshes

streamVars == <<cached, mainPools, feed, backlog, streamPc, inHand, bnbPrice, logs, rowOf,
                countedOf, unheard, lagged, failed, touched, ends, streamFaults, refreshes>>
mainPoolVars == <<mainPools, touched, refreshes>>
storeVars == <<rowOf, countedOf>>

\* load_pool_cache_from_db: the whole table, once per process.
LoadMainPoolCache == mainPools

StreamInit ==
    /\ mainPools \in SUBSET SwapFeed /\ cached = LoadMainPoolCache
    /\ feed = [f \in Feed |-> "none"] /\ backlog = [f \in Feed |-> <<>>]
    /\ streamPc = "subscribe" /\ inHand = 0 /\ bnbPrice = "initial"
    /\ logs = <<>> /\ rowOf = {} /\ countedOf = {}
    /\ unheard = {} /\ lagged = {} /\ failed = {} /\ touched = {}
    /\ ends = 0 /\ streamFaults = 0 /\ refreshes = 0

StreamFault == streamFaults < MaxStreamFaults /\ streamFaults' = streamFaults + 1
In(s) == {s[i] : i \in 1..Len(s)}

-----------------------------------------------------------------------------
(***************************************************************************)
(* The world                                                               *)
(***************************************************************************)

\* A feed hears its pool whether it is cached or not: V4 subscribes to the manager of all
\* pools, and an empty list of addresses is no filter.
Emit(f) ==
    LET n == Len(logs) + 1
        full == Len(backlog[f]) = Backlog
    IN  /\ n <= MaxLogs
        /\ logs' = Append(logs, f)
        /\ IF feed[f] = "open"
             THEN /\ backlog' = [backlog EXCEPT ![f] =
                                   Append(IF full THEN Tail(@) ELSE @, n)]
                  /\ lagged' = IF full THEN lagged \cup {Head(backlog[f])} ELSE lagged
                  /\ UNCHANGED unheard
             ELSE /\ unheard' = unheard \cup {n}
                  /\ UNCHANGED <<backlog, lagged>>
        /\ UNCHANGED <<cached, mainPoolVars, feed, streamPc, inHand, bnbPrice, storeVars, failed,
                       ends, streamFaults>>

\* One subscription ends, or the connection and with it all that are open.
FeedsEnd(F) ==
    /\ ends < MaxEnds /\ ends' = ends + 1
    /\ F # {} /\ \A f \in F : feed[f] = "open"
    /\ feed' = [f \in Feed |-> IF f \in F THEN "ended" ELSE feed[f]]
    /\ UNCHANGED <<cached, mainPoolVars, backlog, streamPc, inHand, bnbPrice, logs, storeVars,
                   unheard, lagged, failed, streamFaults>>

\* scripts/gen-main-pools-sql.ts: one transaction that truncates and inserts.
RefreshMainPools(pools) ==
    /\ refreshes < MaxRefresh /\ refreshes' = refreshes + 1
    /\ mainPools' = pools
    /\ touched' = touched \cup (pools \ mainPools) \cup (mainPools \ pools)
    /\ UNCHANGED <<cached, feed, backlog, streamPc, inHand, bnbPrice, logs, storeVars, unheard,
                   lagged, failed, ends, streamFaults>>

-----------------------------------------------------------------------------
(***************************************************************************)
(* The task                                                                *)
(***************************************************************************)

\* The streams are dropped, and what they kept.
DropFeeds ==
    /\ feed' = [f \in Feed |-> "none"] /\ backlog' = [f \in Feed |-> <<>>]

\* subscribe_logs, one after the other (in an order that does not matter here).
Subscribe(f) ==
    /\ streamPc = "subscribe" /\ feed[f] = "none"
    /\ feed' = [feed EXCEPT ![f] = "open"]
    /\ streamPc' = IF \A g \in Feed \ {f} : feed[g] # "none" THEN "select" ELSE "subscribe"
    /\ UNCHANGED <<cached, mainPoolVars, backlog, inHand, bnbPrice, logs, storeVars, unheard,
                   lagged, failed, ends, streamFaults>>

\* The connection or a subscription fails: the others are dropped with their logs.
SubscribeFails ==
    /\ streamPc = "subscribe" /\ StreamFault
    /\ failed' = failed \cup UNION {In(backlog[f]) : f \in Feed}
    /\ DropFeeds
    /\ streamPc' = "sleep"
    /\ UNCHANGED <<cached, mainPoolVars, inHand, bnbPrice, logs, storeVars, unheard, lagged, ends>>

\* A branch of select!: the oldest log of a feed, ended or not.  A pool that is not in
\* the cache is passed over.
SelectLog(f) ==
    /\ streamPc = "select" /\ backlog[f] # <<>>
    /\ backlog' = [backlog EXCEPT ![f] = Tail(@)]
    /\ CASE f = BnbFeed ->
              streamPc' = "price" /\ inHand' = Head(backlog[f]) /\ bnbPrice' = "live"
         [] f \in cached ->
              streamPc' = "row" /\ inHand' = Head(backlog[f]) /\ UNCHANGED bnbPrice
         [] OTHER -> UNCHANGED <<streamPc, inHand, bnbPrice>>
    /\ UNCHANGED <<cached, mainPoolVars, feed, logs, storeVars, unheard, lagged, failed, ends,
                   streamFaults>>

BackToSelect == streamPc' = "select" /\ inHand' = 0
HandlingVars == <<cached, mainPoolVars, feed, backlog, bnbPrice, logs, unheard, lagged, ends>>

\* insert_swap, its first statement; insert_bnb_price, whose table nothing here reads.
InsertRow ==
    /\ streamPc = "row"
    /\ rowOf' = rowOf \cup {inHand}
    /\ streamPc' = "bucket"
    /\ UNCHANGED <<HandlingVars, inHand, countedOf, failed, streamFaults>>

InsertBnbPrice ==
    /\ streamPc = "price" /\ BackToSelect
    /\ UNCHANGED <<HandlingVars, storeVars, failed, streamFaults>>

\* The second statement: INSERT ... SELECT FROM main_pools as the table is now.
AddToBuckets ==
    /\ streamPc = "bucket" /\ BackToSelect
    /\ countedOf' = IF logs[inHand] \in mainPools THEN countedOf \cup {inHand} ELSE countedOf
    /\ UNCHANGED <<HandlingVars, rowOf, failed, streamFaults>>

\* Either statement fails: a warning, and on to the next log.
InsertFails ==
    /\ streamPc \in {"row", "bucket"} /\ StreamFault
    /\ failed' = failed \cup {inHand} /\ BackToSelect
    /\ UNCHANGED <<HandlingVars, storeVars>>

\* Mutant: the first subscription that ends breaks the loop.
ElseOnFirstEnd ==
    /\ streamPc = "select" /\ \E f \in Feed : feed[f] = "ended" /\ backlog[f] = <<>>
    /\ DropFeeds
    /\ streamPc' = "sleep"
    /\ UNCHANGED <<cached, mainPoolVars, inHand, bnbPrice, logs, storeVars, unheard, lagged, failed,
                   ends, streamFaults>>

\* else => break: every stream has returned None.
ElseBreak ==
    /\ streamPc = "select" /\ \A f \in Feed : feed[f] = "ended" /\ backlog[f] = <<>>
    /\ DropFeeds
    /\ streamPc' = "sleep"
    /\ UNCHANGED <<cached, mainPoolVars, inHand, bnbPrice, logs, storeVars, unheard, lagged, failed,
                   ends, streamFaults>>

\* Mutant: the loop of main ends with a listener that ended without an error.
ReconnectAfterError ==
    /\ streamPc = "sleep" /\ streamFaults > 0
    /\ streamPc' = "subscribe"
    /\ UNCHANGED <<cached, mainPoolVars, feed, backlog, inHand, bnbPrice, logs, storeVars, unheard,
                   lagged, failed, ends, streamFaults>>

\* Five seconds later, whether run_stream_listener returned Ok or Err.
Reconnect ==
    /\ streamPc = "sleep"
    /\ streamPc' = "subscribe"
    /\ UNCHANGED <<cached, mainPoolVars, feed, backlog, inHand, bnbPrice, logs, storeVars, unheard,
                   lagged, failed, ends, streamFaults>>

\* The process exits and is started again: only now is main_pools read.
RestartRadar ==
    /\ StreamFault
    /\ failed' = failed \cup ({inHand} \ {0}) \cup UNION {In(backlog[f]) : f \in Feed}
    /\ DropFeeds
    /\ streamPc' = "subscribe" /\ inHand' = 0 /\ bnbPrice' = "initial" /\ cached' = LoadMainPoolCache
    /\ UNCHANGED <<mainPoolVars, logs, storeVars, unheard, lagged, ends>>

StreamStep ==
    \/ \E f \in Feed : Subscribe(f) \/ SelectLog(f)
    \/ InsertRow \/ InsertBnbPrice \/ AddToBuckets \/ ElseBreak \/ Reconnect

StreamNext ==
    \/ StreamStep
    \/ SubscribeFails \/ InsertFails \/ RestartRadar
    \/ \E f \in Feed : Emit(f)
    \/ \E F \in SUBSET Feed : FeedsEnd(F)
    \/ \E pools \in SUBSET SwapFeed : RefreshMainPools(pools)

\* The runtime polls the task; a connection, a statement and the pause end.
StreamFairness == WF_streamVars(StreamStep)

StreamSpec == StreamInit /\ [][StreamNext]_streamVars /\ StreamFairness

-----------------------------------------------------------------------------
StreamTypeOK ==
    /\ cached \subseteq SwapFeed /\ mainPools \subseteq SwapFeed /\ touched \subseteq SwapFeed
    /\ feed \in [Feed -> {"none", "open", "ended"}]
    /\ \A f \in Feed : Len(backlog[f]) <= Backlog /\ In(backlog[f]) \subseteq 1..MaxLogs
    /\ streamPc \in {"subscribe", "select", "row", "bucket", "price", "sleep"}
    /\ inHand \in 0..MaxLogs /\ bnbPrice \in {"initial", "live"}
    /\ rowOf \cup countedOf \cup unheard \cup lagged \cup failed \subseteq 1..MaxLogs

\* A swap of a pool that was in main_pools all along is counted, unless it came while the
\* feed was down, was pushed out of the backlog, or was under way when a call failed or
\* the process exited.  A subscription that ends alone takes no log of another with it,
\* and a pool that leaves the table keeps its rows but not its counts
\* (stream_listener.rs run_stream_listener, insert_swap).
SwapsExplained ==
    /\ countedOf \subseteq rowOf
    /\ \A n \in rowOf \ countedOf :
          n = inHand \/ n \in failed \/ logs[n] \in touched
    /\ \A n \in 1..Len(logs) :
          logs[n] \in mainPools \ touched =>
             \/ n \in countedOf \cup unheard \cup lagged \cup failed
             \/ n = inHand \/ n \in In(backlog[logs[n]])

\* When all subscriptions have ended, the task is listening again some time later, even if
\* connecting fails at first.  The comment in liveness_probe (stream_listener.rs:257) leaves
\* this to a restart of the container; a feed that ends alone does wait for one.
HearsAgain ==
    (streamPc = "select" /\ \A f \in Feed : feed[f] = "ended")
        ~> (streamPc = "select" /\ \E f \in Feed : feed[f] = "open")
=============================================================================
