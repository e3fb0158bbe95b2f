----------------------------- MODULE Watchlist -----------------------------
(***************************************************************************)
(* The tokens the archived program watches (archive-ts/src/token-tracker): *)
(* a set in memory, filled from a table at boot and again at the end of    *)
(* every refresh, which first writes to the table what the exchange lists. *)
(*                                                                         *)
(* Refreshes are six hours apart, so one runs at a time.  The tool         *)
(* scripts/enrich-bsc-mapping.ts writes the same table from a process of   *)
(* its own.  An upsert of a refresh that failed as a whole may still land  *)
(* after it: Promise.all reports the first failure and stops nothing.      *)
(***************************************************************************)
EXTENDS Integers, FiniteSets

CONSTANTS
    Token,       \* contract addresses
    MaxDbFaults  \* bound: calls of the exchanges and the database that fail

ASSUME WatchlistAssumption == IsFiniteSet(Token) /\ MaxDbFaults \in Nat

VARIABLES
    table,    \* binance_bsc_tokens
    watched,  \* watchedAddresses
    loaded,
    refresh,  \* the refresh: where it is, what the exchange lists, what it selected
    sent,     \* upserts on their way
    life,     \* the program: reading the table, seeding an empty one, running, dead
    dbFaults,
    gone      \* history: tokens that were ever deleted from the table

watchVars == <<table, watched, loaded, refresh, sent, life, dbFaults, gone>>

WatchTypeOK ==
    /\ table \subseteq Token
    /\ watched \subseteq Token
    /\ loaded \in BOOLEAN
    /\ refresh \in [pc : {"idle", "fetch", "upsert", "select", "fill"},
                    fetched : SUBSET Token, selected : SUBSET Token]
    /\ sent \subseteq Token
    /\ life \in {"boot", "seed", "up", "dead"}
    /\ dbFaults \in 0..MaxDbFaults
    /\ gone \subseteq Token

DbFault == dbFaults < MaxDbFaults /\ dbFaults' = dbFaults + 1
Idle == [pc |-> "idle", fetched |-> {}, selected |-> {}]

\* A refresh that ends, well or not, ends the wait of a boot that found no tokens.
EndRefresh ==
    /\ refresh' = Idle
    /\ life' = IF life = "seed" THEN "up" ELSE life

\* startTokenTracker begins with a load.
WatchInit ==
    /\ table \in SUBSET Token
    /\ watched = {} /\ loaded = FALSE
    /\ refresh = [pc |-> "select", fetched |-> {}, selected |-> {}]
    /\ sent = {} /\ life = "boot" /\ dbFaults = 0 /\ gone = {}

-----------------------------------------------------------------------------
\* The timer of six hours.
RefreshDue ==
    /\ life = "up" /\ refresh.pc = "idle"
    /\ refresh' = [refresh EXCEPT !.pc = "fetch"]
    /\ UNCHANGED <<table, watched, loaded, sent, life, dbFaults, gone>>

\* fetchActivePerpetualBaseAssets, with its fallback to the seed file, and
\* fetchBscDepositCoins: the tokens on both lists, or an error.
FetchLists ==
    /\ refresh.pc = "fetch"
    /\ \/ \E both \in SUBSET Token :
            /\ refresh' = [refresh EXCEPT !.pc = "upsert", !.fetched = both]
            /\ sent' = sent \cup both
            /\ UNCHANGED <<life, dbFaults>>
       \/ DbFault /\ EndRefresh /\ UNCHANGED sent
    /\ UNCHANGED <<table, watched, loaded, gone>>

\* upsertBinanceBscToken: tokens are added and refreshed, never removed.
UpsertLands(t) ==
    /\ t \in sent
    /\ sent' = sent \ {t}
    /\ \/ table' = table \cup {t} /\ UNCHANGED <<refresh, life, dbFaults>>
       \/ /\ DbFault /\ UNCHANGED table
          /\ IF refresh.pc = "upsert" THEN EndRefresh ELSE UNCHANGED <<refresh, life>>
    /\ UNCHANGED <<watched, loaded, gone>>

\* loadWatchlist: the set is emptied before the SELECT.
StartLoad ==
    /\ refresh.pc = "upsert" /\ sent \cap refresh.fetched = {}
    /\ watched' = {}
    /\ refresh' = [refresh EXCEPT !.pc = "select"]
    /\ UNCHANGED <<table, loaded, sent, life, dbFaults, gone>>

\* getAllBinanceBscTokens.  A failure at boot ends the program, a later one is logged.
SelectTokens ==
    /\ refresh.pc = "select"
    /\ \/ /\ refresh' = [refresh EXCEPT !.pc = "fill", !.selected = table]
          /\ UNCHANGED <<life, dbFaults>>
       \/ DbFault /\ life = "boot" /\ life' = "dead" /\ refresh' = Idle
       \/ DbFault /\ life # "boot" /\ EndRefresh
    /\ UNCHANGED <<table, watched, loaded, sent, gone>>

\* Mutant: only the tokens of this refresh are watched.
FillFetched ==
    /\ refresh.pc = "fill"
    /\ watched' = IF life = "boot" THEN refresh.selected ELSE refresh.fetched
    /\ loaded' = TRUE
    /\ IF life = "boot"
         THEN /\ refresh' = [refresh EXCEPT !.pc = "fetch"]
              /\ life' = IF refresh.selected = {} THEN "seed" ELSE "up"
         ELSE EndRefresh
    /\ UNCHANGED <<table, sent, dbFaults, gone>>

\* The end of loadWatchlist.  At boot a first refresh follows; the program waits for it
\* only when the table was empty.
FillWatchlist ==
    /\ refresh.pc = "fill"
    /\ watched' = refresh.selected
    /\ loaded' = TRUE
    /\ IF life = "boot"
         THEN /\ refresh' = [refresh EXCEPT !.pc = "fetch"]
              /\ life' = IF refresh.selected = {} THEN "seed" ELSE "up"
         ELSE EndRefresh
    /\ UNCHANGED <<table, sent, dbFaults, gone>>

\* enrichMode adds a token the exchange has no deposit address for, reverifyMode deletes
\* one whose symbol it cannot read or does not recognise.
Enrich(t) ==
    /\ life # "dead" /\ t \notin table
    /\ table' = table \cup {t}
    /\ UNCHANGED <<watched, loaded, refresh, sent, life, dbFaults, gone>>

Reverify(t) ==
    /\ life # "dead" /\ t \in table
    /\ table' = table \ {t} /\ gone' = gone \cup {t}
    /\ UNCHANGED <<watched, loaded, refresh, sent, life, dbFaults>>

IsWatchedToken(t) == loaded /\ t \in watched

WatchNext ==
    \/ RefreshDue \/ FetchLists \/ StartLoad \/ SelectTokens \/ FillWatchlist
    \/ \E t \in Token : UpsertLands(t) \/ Enrich(t) \/ Reverify(t)
=============================================================================
