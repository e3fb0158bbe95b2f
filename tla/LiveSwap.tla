------------------------------ MODULE LiveSwap ------------------------------
(***************************************************************************)
(* A swap log on its way through the archived live process                 *)
(* (archive-ts/src/core/swap-listener.ts): look its pool up, check the     *)
(* watchlist, price it, write a row and two buckets, tell the liveness     *)
(* probe.  Every await lets the watchlist and the other logs proceed, so   *)
(* the module extends Watchlist and a few logs run at a time.              *)
(*                                                                         *)
(* Each pool has one token that is no base token, against the stablecoin   *)
(* or the wrapped native coin; module PoolLookup is how the program learns *)
(* them, and here its answer is just "known" or not.  processV3SwapLog,    *)
(* processV4SwapLog and processPcsV4ClSwapLog differ in the layout of a    *)
(* log only.  A log can arrive again (a reconnect, a reorganisation, whose *)
(* removed flag nothing reads) at another time, which is part of its key.  *)
(***************************************************************************)
EXTENDS Watchlist

CONSTANTS
    Log,           \* logs under way at a time
    MaxDeliveries  \* bound: logs delivered

ASSUME LiveSwapAssumption == Token # {} /\ IsFiniteSet(Log) /\ MaxDeliveries \in Nat

Swap == Token \X {"stable", "native"}  \* one swap in each pool
TokenOf(s) == s[1]
Writes == {"row", "pool", "token"}

VARIABLES
    log,         \* the logs under way
    price,       \* the native price: known or not, and fresh or not
    rowsOf,      \* swap -> rows of swaps
    poolCount,   \* swap -> swap_count of the bucket of its pool
    tokenCount,  \* token -> swap_count of its bucket
    alive,       \* token -> "swap" events emitted
    delivered,
    writeFaults

swapVars == <<log, price, rowsOf, poolCount, tokenCount, alive, delivered, writeFaults>>
liveVars == <<watchVars, swapVars>>

SwapTypeOK ==
    /\ log \in [Log -> [pc : {"idle", "lookup", "price", "write"}, swap : Swap,
                        seen : BOOLEAN, todo : SUBSET Writes, ok : BOOLEAN]]
    /\ price \in [known : BOOLEAN, fresh : BOOLEAN]
    /\ rowsOf \in [Swap -> 0..MaxDeliveries]
    /\ poolCount \in [Swap -> 0..MaxDeliveries]
    /\ tokenCount \in [Token -> 0..MaxDeliveries]
    /\ alive \in [Token -> 0..MaxDeliveries]
    /\ delivered \in 0..MaxDeliveries
    /\ writeFaults \in 0..MaxDbFaults

NoLog == [pc |-> "idle", swap |-> CHOOSE s \in Swap : TRUE,
          seen |-> FALSE, todo |-> {}, ok |-> TRUE]

SwapInit ==
    /\ log = [l \in Log |-> NoLog]
    /\ price = [known |-> FALSE, fresh |-> FALSE]
    /\ rowsOf = [s \in Swap |-> 0]
    /\ poolCount = [s \in Swap |-> 0]
    /\ tokenCount = [t \in Token |-> 0]
    /\ alive = [t \in Token |-> 0]
    /\ delivered = 0 /\ writeFaults = 0

-----------------------------------------------------------------------------
Refuse(l) == log' = [log EXCEPT ![l] = NoLog]

\* onLogs, once main has started the listeners.
Arrive(l, s) ==
    /\ life = "up" /\ log[l].pc = "idle" /\ delivered < MaxDeliveries
    /\ delivered' = delivered + 1
    /\ log' = [log EXCEPT ![l] = [pc |-> "lookup", swap |-> s, todo |-> {},
                 seen |-> IsWatchedToken(TokenOf(s)), ok |-> TRUE]]
    /\ UNCHANGED <<watchVars, price, rowsOf, poolCount, tokenCount, alive, writeFaults>>

\* The answer of the lookup; the watchlist is read after it, in the same turn.
CheckWatchlist(l) ==
    /\ log[l].pc = "lookup"
    /\ \/ Refuse(l)  \* unknown, or one of the filters
       \/ IsWatchedToken(TokenOf(log[l].swap))
            /\ log' = [log EXCEPT ![l].pc = "price", ![l].seen = FALSE]
    /\ UNCHANGED <<watchVars, price, rowsOf, poolCount, tokenCount, alive, delivered, writeFaults>>

\* The lifetime of the native price ends.
PriceExpires ==
    /\ price.fresh
    /\ price' = [price EXCEPT !.fresh = FALSE]
    /\ UNCHANGED <<watchVars, log, rowsOf, poolCount, tokenCount, alive, delivered, writeFaults>>

\* getTokenPrices: a price that cannot be fetched stays as it was, for the next log to
\* try again; an answer without a number makes it 0.
GetTokenPrices(l) ==
    /\ log[l].pc = "price"
    /\ price' \in IF price.fresh THEN {price} ELSE {price} \cup [known : BOOLEAN, fresh : {TRUE}]
    /\ IF log[l].swap[2] = "stable" \/ price'.known
         THEN log' = [log EXCEPT ![l].pc = "write", ![l].todo = Writes]
         ELSE Refuse(l)
    /\ UNCHANGED <<watchVars, rowsOf, poolCount, tokenCount, alive, delivered, writeFaults>>

Ends(l, w, good) ==
    log' = [log EXCEPT ![l] = IF log[l].todo = {w} THEN NoLog
                              ELSE [log[l] EXCEPT !.todo = @ \ {w}, !.ok = @ /\ good]]

\* Mutant: the event does not wait for all three (Promise.allSettled).
EmitAnyway(l, w, good) ==
    alive' = IF log[l].todo = {w}
               THEN [alive EXCEPT ![TokenOf(log[l].swap)] = @ + 1] ELSE alive

\* swapEvents.emit("swap") when the last of the three writes returned well.
EmitSwap(l, w, good) ==
    alive' = IF log[l].todo = {w} /\ log[l].ok /\ good
               THEN [alive EXCEPT ![TokenOf(log[l].swap)] = @ + 1] ELSE alive

\* insertSwap: nothing is inserted for a key that is there, which a log delivered twice
\* within a millisecond has.
InsertSwapRow(l) ==
    LET s == log[l].swap
    IN  /\ "row" \in log[l].todo
        /\ Ends(l, "row", TRUE) /\ EmitSwap(l, "row", TRUE)
        /\ \/ rowsOf' = [rowsOf EXCEPT ![s] = @ + 1]
           \/ rowsOf[s] > 0 /\ UNCHANGED rowsOf
        /\ UNCHANGED <<watchVars, price, poolCount, tokenCount, delivered, writeFaults>>

UpsertPool1minStat(l) ==
    /\ "pool" \in log[l].todo
    /\ Ends(l, "pool", TRUE) /\ EmitSwap(l, "pool", TRUE)
    /\ poolCount' = [poolCount EXCEPT ![log[l].swap] = @ + 1]
    /\ UNCHANGED <<watchVars, price, rowsOf, tokenCount, delivered, writeFaults>>

UpsertToken1minStat(l) ==
    /\ "token" \in log[l].todo
    /\ Ends(l, "token", TRUE) /\ EmitSwap(l, "token", TRUE)
    /\ tokenCount' = [tokenCount EXCEPT ![TokenOf(log[l].swap)] = @ + 1]
    /\ UNCHANGED <<watchVars, price, rowsOf, poolCount, delivered, writeFaults>>

\* One write of the three fails: the others go on, the event is not emitted.
WriteFails(l, w) ==
    /\ w \in log[l].todo /\ writeFaults < MaxDbFaults
    /\ writeFaults' = writeFaults + 1
    /\ Ends(l, w, FALSE) /\ EmitSwap(l, w, FALSE)
    /\ UNCHANGED <<watchVars, price, rowsOf, poolCount, tokenCount, delivered>>

ProcessSwapLog(l) ==
    \/ CheckWatchlist(l) \/ GetTokenPrices(l)
    \/ InsertSwapRow(l) \/ UpsertPool1minStat(l) \/ UpsertToken1minStat(l)
    \/ \E w \in Writes : WriteFails(l, w)

LiveNext ==
    \/ WatchNext /\ UNCHANGED swapVars
    \/ PriceExpires
    \/ \E l \in Log : ProcessSwapLog(l) \/ (\E s \in Swap : Arrive(l, s))

LiveInit == WatchInit /\ SwapInit
LiveSpec == LiveInit /\ [][LiveNext]_liveVars

-----------------------------------------------------------------------------
(***************************************************************************)
(* Properties                                                              *)
(***************************************************************************)

Refused(l) ==
    /\ log[l].pc = "lookup" /\ log'[l].pc = "idle"
    /\ ~IsWatchedToken(TokenOf(log[l].swap))

\* A log that arrived while its token was watched is refused for the watchlist only while
\* a reload is under way, after one that failed (which leaves the watchlist empty until
\* the next, six hours later), or when the token was deleted from the table
\* (watchlist.ts loadWatchlist, tracker.ts refreshOnce).
MissedExplained ==
    [][\A l \in Log : Refused(l) /\ log[l].seen =>
          \/ refresh.pc \in {"select", "fill"}
          \/ dbFaults > 0 /\ watched = {}
          \/ TokenOf(log[l].swap) \in gone]_liveVars

Waiting(w, S) == Cardinality({l \in Log : w \in log[l].todo /\ log[l].swap \in S})
PoolsOf(t) == {s \in Swap : TokenOf(s) = t}
CountOf(f, t) == f[<<t, "stable">>] + f[<<t, "native">>]

\* The probe hears of a swap only after its three writes, so a token has no more events
\* than counted swaps.  As long as no write fails, the bucket of a token counts what the
\* buckets of its pools count, less what is still being written, and no pool has more rows
\* than swaps counted (swap-listener.ts processV3SwapLog; the rebuild, which counts rows,
\* can therefore only lower what the listener added).
StoredBeforeAlive ==
    /\ \A t \in Token :
         /\ alive[t] <= tokenCount[t]
         /\ alive[t] <= CountOf(poolCount, t)
    /\ writeFaults = 0 =>
         /\ \A t \in Token :
              CountOf(poolCount, t) + Waiting("pool", PoolsOf(t))
                = tokenCount[t] + Waiting("token", PoolsOf(t))
         /\ \A s \in Swap : rowsOf[s] <= poolCount[s] + Waiting("pool", {s})
=============================================================================
