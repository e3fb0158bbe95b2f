------------------------------ MODULE Baseline ------------------------------
(***************************************************************************)
(* How a detector tick decides that a token is over its thresholds         *)
(* (src/anomaly/aggregator.rs fetch_active_token_baselines and the         *)
(* conditions of src/anomaly/detector.rs run_one_tick), from the buckets   *)
(* the stream fills (src/stream_listener.rs insert_swap).                  *)
(*                                                                         *)
(* One token.  Time is counted in ticks, Minute of them to a minute, and   *)
(* volume in a unit of dollars, so that the divisions of the code become   *)
(* products.  The detector may run at any tick: what it would find is a    *)
(* state function.                                                         *)
(***************************************************************************)
EXTENDS Integers, Sequences, FiniteSetsExt

CONSTANTS
    Minute,       \* ticks in a minute
    Window,       \* minutes of the short window: 5
    Day,          \* minutes of the long window: 1440
    Ratio,        \* AnomalyConfig.vol_spike_ratio: 10, or what the environment says
    Apr,          \* AnomalyConfig.fee_tvl_apr: 100
    MinCoverage,  \* AnomalyConfig.baseline_min_coverage_ms, in minutes: 60
    MinVolume,    \* AnomalyConfig.min_vol_5min_usd
    FeeInverse,   \* the fee of the main pool is 1 / FeeInverse of the volume
    Volumes,      \* bound: the volumes of a swap
    Horizon,      \* bound: ticks
    MaxTrades     \* bound: swaps

ASSUME BaselineAssumption ==
    /\ Minute \in Nat \ {0}
    /\ Window \in Nat \ {0}
    /\ Day \in Nat
    /\ Day % Window = 0
    /\ Day > Window
    /\ Ratio \in Nat /\ Apr \in Nat /\ MinCoverage \in Nat /\ MinVolume \in Nat
    /\ FeeInverse \in Nat \ {0}
    /\ Volumes \subseteq Nat
    /\ Horizon \in Nat /\ MaxTrades \in Nat

VARIABLES
    clock,   \* now_ms
    stats,   \* token_1min_stats of the token: bucket_start -> total_volume_usd
    trades   \* history: the swaps

vars == <<clock, stats, trades>>

\* The literal 288 of the code: short windows in a day.
Slots == Day \div Window

Init ==
    /\ clock = 0
    /\ stats = <<>>
    /\ trades = <<>>

\* Mutant: the timestamp is rounded to the nearest minute.
BucketNearest(at) == ((at + Minute \div 2) \div Minute) * Minute

\* (timestamp / 60000) * 60000
BucketStart(at) == (at \div Minute) * Minute

-----------------------------------------------------------------------------
\* The upsert of insert_swap: the row of the minute is made or its sum grows.
Trade(v) ==
    LET b == BucketStart(clock)
    IN  /\ Len(trades) < MaxTrades
        /\ trades' = Append(trades, [at |-> clock, volume |-> v])
        /\ stats' = [x \in DOMAIN stats \cup {b} |->
                        (IF x \in DOMAIN stats THEN stats[x] ELSE 0) + (IF x = b THEN v ELSE 0)]
        /\ UNCHANGED clock

Advance ==
    /\ clock < Horizon
    /\ clock' = clock + 1
    /\ UNCHANGED <<stats, trades>>

Next == (\E v \in Volumes : Trade(v)) \/ Advance

Spec == Init /\ [][Next]_vars

\* A steady token: one swap of the same volume at the end of every minute.
SteadyNext ==
    \/ clock % Minute < Minute - 1 /\ Advance
    \/ /\ clock % Minute = Minute - 1
       /\ IF Len(trades) < (clock \div Minute) + 1
          THEN \E v \in Volumes : (trades # <<>> => v = trades[1].volume) /\ Trade(v)
          ELSE Advance

SteadySpec == Init /\ [][SteadyNext]_vars

-----------------------------------------------------------------------------
(***************************************************************************)
(* The aggregate query and the decision                                    *)
(***************************************************************************)

\* Mutant: the minute that is not over yet is left out.
RowsFinished(minutes) ==
    {b \in DOMAIN stats : b >= clock - minutes * Minute /\ b + Minute <= clock}

\* bucket_start >= now_ms - minutes * 60_000
Rows(minutes) == {b \in DOMAIN stats : b >= clock - minutes * Minute}

SumOf(buckets) == SumFunctionOnSet(stats, buckets)

Vol5 == SumOf(Rows(Window))
Vol24 == SumOf(Rows(Day))

\* Mutant: coverage counts the whole history of the token.
CoverageEver == IF DOMAIN stats = {} THEN 0 ELSE clock - Min(DOMAIN stats)

\* now_ms - earliest_bucket
Coverage == IF Rows(Day) = {} THEN 0 ELSE clock - Min(Rows(Day))

\* Mutant: the baseline leaves out the short window.
SpikeOverRest(vol5, vol24) == vol5 * Slots >= Ratio * (vol24 - vol5)

\* vol5 / (vol24 / 288) >= ratio
Spike(vol5, vol24) == vol24 > 0 /\ vol5 * Slots >= Ratio * vol24

\* fee5 * 288 * 365 / (vol24 / 288 * 100) * 100 >= apr
Hot(vol5, vol24) == vol24 > 0 /\ vol5 * Slots * Slots * 365 >= Apr * vol24 * FeeInverse

\* The conditions before try_trigger(VolSpike): HAVING SUM > 0, the coverage, the minimum.
OverSpike ==
    /\ Vol5 > 0
    /\ Coverage >= MinCoverage * Minute
    /\ Vol5 >= MinVolume
    /\ Spike(Vol5, Vol24)

OverCombo == OverSpike /\ Hot(Vol5, Vol24)

-----------------------------------------------------------------------------
(***************************************************************************)
(* Properties                                                              *)
(***************************************************************************)

TypeOK ==
    /\ clock \in 0 .. Horizon
    /\ DOMAIN stats \subseteq {m * Minute : m \in 0 .. Horizon \div Minute}
    /\ \A b \in DOMAIN stats : stats[b] \in Nat
    /\ trades \in Seq([at : Nat, volume : Volumes])

Since(at) == {i \in DOMAIN trades : trades[i].at >= at}
Volume(S) == SumFunctionOnSet([i \in DOMAIN trades |-> trades[i].volume], S)

\* The short window holds every swap of the last four minutes and none older than five,
\* wherever in the minute the tick falls (aggregator.rs win_5min_start against whole minutes).
WindowSpan ==
    /\ Volume(Since(clock - (Window - 1) * Minute)) <= Vol5
    /\ Vol5 <= Volume(Since(clock - Window * Minute))

\* A token that is over the threshold was trading, within the last day, the grace period
\* ago, to the minute: a token that comes back after a day starts its grace again.
Grace ==
    OverSpike =>
        \E i \in Since(clock - Day * Minute) :
            trades[i].at < clock - (MinCoverage - 1) * Minute

\* No burst is missed by the rounding to minutes, wherever in the minute the tick falls: if
\* the swaps of the last four minutes alone are a spike against those of the last day, and
\* the token was trading the grace period ago, the rule fires, and the combo rule with it if
\* they are hot (aggregator.rs windows and coverage, detector.rs run_one_tick).
BurstIsSeen ==
    LET burst == Volume(Since(clock - (Window - 1) * Minute))
        day == Volume(Since(clock - Day * Minute))
    IN  (/\ burst > 0
         /\ burst >= MinVolume
         /\ \E i \in Since(clock - (Day - 1) * Minute) :
               trades[i].at <= clock - MinCoverage * Minute)
        => /\ Spike(burst, day) => OverSpike
           /\ Spike(burst, day) /\ Hot(burst, day) => OverCombo

\* A steady token is quiet once it has traded for Day / Ratio minutes: the average over a day
\* it has not lived through is then not too low to matter.
SteadyIsQuiet ==
    (trades # <<>> /\ clock - trades[1].at > (Day * Minute) \div Ratio) => ~OverSpike

\* detector.rs:32 and rules.rs:8: the coverage check avoids false alarms at a cold start, so
\* that a steady token never is over the threshold.
NoColdStartAlarm == ~OverSpike
=============================================================================
