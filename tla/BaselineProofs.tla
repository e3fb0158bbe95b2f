--------------------------- MODULE BaselineProofs ---------------------------
(***************************************************************************)
(* What the windows and the coverage of a detector tick span, and which    *)
(* bursts it finds (module Baseline), for every length of a minute and of  *)
(* the windows, all thresholds and every pattern of swaps.                 *)
(***************************************************************************)
EXTENDS Baseline, SequenceTheorems, NaturalFacts

TradeRecord == [at : Nat, volume : Volumes]

\* The volumes of the swaps, and those of a minute.
Vol == [i \in DOMAIN trades |-> trades[i].volume]
InBucket(b) == {i \in DOMAIN trades : BucketStart(trades[i].at) = b}

\* The table has a row for each minute with a swap, and the row sums its swaps.
Summed ==
    /\ DOMAIN stats = {BucketStart(trades[i].at) : i \in DOMAIN trades}
    /\ \A b \in DOMAIN stats : stats[b] = Volume(InBucket(b))

Past == \A i \in DOMAIN trades : trades[i].at <= clock

BaselineInv == TypeOK /\ Past /\ Summed

-----------------------------------------------------------------------------
LEMMA BucketFacts ==
    ASSUME NEW at \in Nat
    PROVE  /\ BucketStart(at) \in Nat /\ BucketStart(at) <= at /\ at < BucketStart(at) + Minute
           /\ at \div Minute \in Nat
<1> DEFINE m == at \div Minute
<1>1. Minute \in Nat \ {0}
  BY BaselineAssumption DEF BaselineAssumption
<1>2. at = m * Minute + (at % Minute) /\ at % Minute \in 0..(Minute - 1) /\ m \in Nat
  BY <1>1, Division
<1> HIDE DEF m
<1>3. m * Minute \in Nat
  BY <1>1, <1>2, Multiples
<1> QED BY <1>1, <1>2, <1>3 DEF BucketStart, m

LEMMA TradeFacts ==
    ASSUME TypeOK
    PROVE  /\ DOMAIN trades = 1..Len(trades) /\ Len(trades) \in Nat
           /\ IsFiniteSet(DOMAIN trades)
           /\ \A i \in DOMAIN trades : /\ trades[i].at \in Nat /\ trades[i].volume \in Nat
                                       /\ Vol[i] = trades[i].volume
<1>1. trades \in Seq(TradeRecord)
  BY DEF TypeOK, TradeRecord
<1>2. DOMAIN trades = 1..Len(trades) /\ Len(trades) \in Nat
  BY <1>1
<1>3. IsFiniteSet(DOMAIN trades)
  BY <1>2, FS_Interval
<1>4. \A i \in DOMAIN trades : trades[i] \in TradeRecord
  BY <1>1, <1>2
<1> QED BY <1>2, <1>3, <1>4, BaselineAssumption DEF TradeRecord, BaselineAssumption, Vol

LEMMA VolumeIs == \A S : Volume(S) = SumFunctionOnSet(Vol, S)
  BY DEF Volume, Vol

LEMMA StatsFinite ==
    ASSUME TypeOK PROVE IsFiniteSet(DOMAIN stats) /\ DOMAIN stats \subseteq Nat
<1>1. Minute \in Nat \ {0} /\ Horizon \in Nat
  BY BaselineAssumption DEF BaselineAssumption
<1> DEFINE h == Horizon \div Minute
<1>2. Horizon = h * Minute + (Horizon % Minute) /\ Horizon % Minute \in 0..(Minute - 1) /\ h \in Nat
  BY <1>1, Division
<1>3. DOMAIN stats \subseteq {m * Minute : m \in 0..h}
  BY DEF TypeOK
<1> HIDE DEF h
<1>4. ASSUME NEW m \in 0..h PROVE m * Minute \in 0..Horizon
  <2>1. m \in Nat /\ m <= h
    BY <1>2
  <2>2. m * Minute <= h * Minute /\ m * Minute \in Nat /\ h * Minute \in Nat
    BY <1>1, <1>2, <2>1, Products
  <2> QED BY <1>1, <1>2, <2>2
<1>5. DOMAIN stats \subseteq 0..Horizon
  BY <1>3, <1>4
<1>6. IsFiniteSet(0..Horizon)
  BY <1>1, FS_Interval
<1>7. IsFiniteSet(DOMAIN stats)
  BY <1>5, <1>6, FS_Subset
<1> QED BY <1>5, <1>7

-----------------------------------------------------------------------------
LEMMA BaselineInitInv == Init => BaselineInv
<1> SUFFICES ASSUME Init PROVE BaselineInv
  OBVIOUS
<1>1. /\ Horizon \in Nat /\ clock = 0 /\ DOMAIN trades = {} /\ DOMAIN stats = {}
      /\ trades \in Seq(TradeRecord)
  BY BaselineAssumption DEF Init, BaselineAssumption
<1>2. TypeOK
  BY <1>1 DEF TypeOK, TradeRecord
<1>3. Past /\ Summed
  BY <1>1 DEF Past, Summed
<1> QED BY <1>2, <1>3 DEF BaselineInv

LEMMA AdvanceKeeps == ASSUME BaselineInv, Advance PROVE BaselineInv'
<1>1. clock \in Nat /\ clock' = clock + 1 /\ clock' \in 0..Horizon /\ UNCHANGED <<stats, trades>>
  BY BaselineAssumption DEF BaselineInv, TypeOK, Advance, BaselineAssumption
<1>2. TypeOK'
  BY <1>1 DEF BaselineInv, TypeOK
<1>3. Past'
  BY <1>1, TradeFacts DEF BaselineInv, Past
<1>4. Summed'
  BY <1>1 DEF BaselineInv, Summed, Volume, InBucket
<1> QED BY <1>2, <1>3, <1>4 DEF BaselineInv

LEMMA TradeKeeps == ASSUME BaselineInv, NEW v \in Volumes, Trade(v) PROVE BaselineInv'
<1> USE DEF BaselineInv
<1> DEFINE b == BucketStart(clock)
           n == Len(trades) + 1
           r == [at |-> clock, volume |-> v]
           old(x) == IF x \in DOMAIN stats THEN stats[x] ELSE 0
           new(x) == old(x) + (IF x = b THEN v ELSE 0)
<1>1. trades' = Append(trades, r) /\ stats' = [x \in DOMAIN stats \cup {b} |-> new(x)] /\ clock' = clock
  BY DEF Trade
<1>2. v \in Nat /\ clock \in Nat /\ clock \in 0..Horizon
  BY BaselineAssumption DEF TypeOK, BaselineAssumption
<1>3. r \in TradeRecord /\ trades \in Seq(TradeRecord)
  BY <1>2 DEF TradeRecord, TypeOK
<1>4. /\ trades' \in Seq(TradeRecord) /\ DOMAIN trades' = DOMAIN trades \cup {n}
      /\ n \notin DOMAIN trades /\ n \in DOMAIN trades'
      /\ trades'[n] = r /\ \A i \in DOMAIN trades : trades'[i] = trades[i]
  <2> HIDE DEF r
  <2>1. Len(trades') = n /\ trades' \in Seq(TradeRecord)
    BY <1>1, <1>3
  <2>2. DOMAIN trades' = 1..n /\ DOMAIN trades = 1..Len(trades) /\ Len(trades) \in Nat
    BY <1>3, <2>1
  <2>3. trades'[n] = r /\ \A i \in 1..Len(trades) : trades'[i] = trades[i]
    BY <1>1, <1>3
  <2> QED BY <2>1, <2>2, <2>3
<1>5. \A x \in DOMAIN stats : stats[x] \in Nat
  BY DEF TypeOK
<1>6. DOMAIN stats' = DOMAIN stats \cup {b} /\ \A x \in DOMAIN stats' : stats'[x] = new(x)
  BY <1>1
<1>7. b \in {m * Minute : m \in 0..Horizon \div Minute}
  <2>1. clock \in Nat /\ Horizon \in Nat /\ clock <= Horizon /\ Minute \in Nat \ {0}
    BY <1>2, BaselineAssumption DEF BaselineAssumption
  <2>2. clock \div Minute <= Horizon \div Minute
    BY ONLY <2>1, DivisionOrder
  <2>3. clock \div Minute \in Nat /\ Horizon \div Minute \in Nat
    BY ONLY <2>1, Division
  <2>4. clock \div Minute \in 0..Horizon \div Minute
    BY ONLY <2>2, <2>3
  <2> QED BY <2>4 DEF BucketStart
<1>8. \A x \in DOMAIN stats' : stats'[x] \in Nat
  BY <1>2, <1>5, <1>6
<1>9. TypeOK'
  <2> HIDE DEF new, b
  <2> QED BY <1>1, <1>4, <1>6, <1>7, <1>8 DEF TypeOK, TradeRecord
<1>10. Past'
  BY <1>1, <1>2, <1>4 DEF Past
<1>11. DOMAIN stats' = {BucketStart(trades'[i].at) : i \in DOMAIN trades'}
  <2>1. BucketStart(trades'[n].at) = b /\ \A i \in DOMAIN trades : trades'[i].at = trades[i].at
    BY <1>4
  <2> HIDE DEF b, n
  <2> QED BY <1>4, <1>6, <2>1 DEF Summed
<1>12. ASSUME NEW x \in DOMAIN stats' PROVE stats'[x] = Volume(InBucket(x))'
  <2> DEFINE S == InBucket(x)
             T == IF x = b THEN S \cup {n} ELSE S
  <2>1. InBucket(x)' = T
    <3>1. BucketStart(trades'[n].at) = b /\ \A i \in DOMAIN trades : trades'[i].at = trades[i].at
      BY <1>4
    <3> HIDE DEF b, n
    <3> QED BY <1>4, <3>1 DEF InBucket
  <2>2. /\ S \subseteq DOMAIN trades /\ IsFiniteSet(DOMAIN trades) /\ IsFiniteSet(DOMAIN trades')
        /\ \A i \in DOMAIN trades : Vol[i] \in Nat /\ Vol'[i] = Vol[i]
        /\ \A i \in DOMAIN trades' : Vol'[i] \in Nat
        /\ Vol'[n] = v
    <3>1. IsFiniteSet(DOMAIN trades) /\ S \subseteq DOMAIN trades
      BY TradeFacts DEF InBucket
    <3>2. IsFiniteSet(DOMAIN trades')
      BY <1>4, <3>1, FS_AddElement
    <3>3. \A i \in DOMAIN trades : Vol[i] \in Nat /\ Vol'[i] = Vol[i]
      BY <1>4, TradeFacts DEF Vol
    <3>4. Vol'[n] = v
      BY <1>4 DEF Vol
    <3> HIDE DEF n
    <3> QED BY <1>2, <1>4, <3>1, <3>2, <3>3, <3>4
  <2>3. IsFiniteSet(S) /\ SumFunctionOnSet(Vol', S) = SumFunctionOnSet(Vol, S)
    <3>1. IsFiniteSet(S)
      BY <2>2, FS_Subset
    <3> HIDE DEF S
    <3> QED BY <2>2, <3>1, SumSame
  <2>4. Volume(InBucket(x))' = SumFunctionOnSet(Vol', T)
    BY <2>1 DEF Volume, Vol
  <2>5. old(x) = SumFunctionOnSet(Vol, S) /\ old(x) \in Nat
    <3>1. CASE x \in DOMAIN stats
      BY <1>5, <3>1, VolumeIs DEF Summed
    <3>2. CASE x \notin DOMAIN stats
      <4>1. S = {}
        BY <3>2 DEF Summed, InBucket
      <4> QED BY <3>2, <4>1, SumEmpty
    <3> QED BY <3>1, <3>2
  <2>6. CASE x = b
    <3>1. n \in T /\ T \ {n} = S /\ IsFiniteSet(T) /\ T \subseteq DOMAIN trades'
      <4>1. T = S \cup {n}
        BY <2>6
      <4> HIDE DEF S, n, b
      <4> QED BY <1>4, <2>2, <2>3, <4>1, FS_AddElement
    <3>2. SumFunctionOnSet(Vol', T) = Vol'[n] + SumFunctionOnSet(Vol', T \ {n})
      <4> HIDE DEF T, n
      <4> QED BY <2>2, <3>1, SumAdd
    <3>3. SumFunctionOnSet(Vol', T) = v + SumFunctionOnSet(Vol, S)
      BY <2>2, <2>3, <3>1, <3>2
    <3>4. stats'[x] = old(x) + v
      BY <1>6, <2>6
    <3> HIDE DEF T, S, old, n, b
    <3> QED BY <1>2, <2>4, <2>5, <3>3, <3>4
  <2>7. CASE x # b
    <3>1. stats'[x] = old(x) /\ T = S
      <4>1. new(x) = old(x) + 0
        BY <2>7
      <4>2. stats'[x] = new(x)
        BY <1>6
      <4> HIDE DEF old, new, b
      <4> QED BY <2>5, <2>7, <4>1, <4>2
    <3> HIDE DEF T, S, old
    <3> QED BY <2>3, <2>4, <2>5, <3>1
  <2> QED BY <2>6, <2>7
<1>13. Summed'
  BY <1>11, <1>12 DEF Summed
<1> QED BY <1>9, <1>10, <1>13

LEMMA BaselineStepInv == BaselineInv /\ [Next]_vars => BaselineInv'
<1>1. ASSUME BaselineInv, UNCHANGED vars PROVE BaselineInv'
  BY <1>1 DEF vars, BaselineInv, TypeOK, Past, Summed, Volume, InBucket
<1> QED BY <1>1, AdvanceKeeps, TradeKeeps DEF Next

\* The steady token is one of those.
LEMMA SteadyIsNext == SteadySpec => Spec
<1>1. [SteadyNext]_vars => [Next]_vars
  BY DEF SteadyNext, Next
<1> QED BY <1>1, PTL DEF SteadySpec, Spec

LEMMA BaselineCorrect == Spec => []BaselineInv
  BY BaselineInitInv, BaselineStepInv, PTL DEF Spec

-----------------------------------------------------------------------------
(***************************************************************************)
(* What a tick finds                                                       *)
(***************************************************************************)

\* The rows of a window are the swaps of its whole minutes.
LEMMA WindowSums ==
    ASSUME BaselineInv, NEW w \in Nat
    PROVE  /\ SumOf(Rows(w)) = Volume({i \in DOMAIN trades : BucketStart(trades[i].at) \in Rows(w)})
           /\ SumOf(Rows(w)) \in Nat
<1> USE DEF BaselineInv
<1> DEFINE c == [i \in DOMAIN trades |-> BucketStart(trades[i].at)]
           In(B) == {i \in DOMAIN trades : c[i] \in B}
<1>1. IsFiniteSet(Rows(w)) /\ Rows(w) \subseteq DOMAIN stats
  BY StatsFinite, FS_Subset DEF Rows
<1>2. IsFiniteSet(DOMAIN trades) /\ \A i \in DOMAIN trades : Vol[i] \in Nat
  BY TradeFacts
<1>3. \A b \in Rows(w) : stats[b] = SumFunctionOnSet(Vol, {i \in DOMAIN trades : c[i] = b})
  <2>1. ASSUME NEW b \in Rows(w)
        PROVE  stats[b] = SumFunctionOnSet(Vol, {i \in DOMAIN trades : c[i] = b})
    <3>1. InBucket(b) = {i \in DOMAIN trades : c[i] = b}
      BY DEF InBucket
    <3>2. stats[b] = SumFunctionOnSet(Vol, InBucket(b))
      BY <1>1, VolumeIs DEF Summed
    <3> QED BY <3>1, <3>2
  <2> QED BY <2>1
<1>4. SumFunctionOnSet(stats, Rows(w)) = SumFunctionOnSet(Vol, In(Rows(w)))
  <2> HIDE DEF c
  <2> QED BY <1>1, <1>2, <1>3, SumByClass
<1>5. In(Rows(w)) = {i \in DOMAIN trades : BucketStart(trades[i].at) \in Rows(w)}
  OBVIOUS
<1>6. SumFunctionOnSet(stats, Rows(w)) \in Nat
  <2>1. \A b \in Rows(w) : stats[b] \in Nat
    BY <1>1 DEF TypeOK
  <2> QED BY <1>1, <2>1, SumNat
<1> HIDE DEF c, In
<1> QED BY <1>4, <1>5, <1>6, VolumeIs DEF SumOf

\* A window of w minutes has every swap of w - 1 minutes, and none that is older than w.
LEMMA WindowBounds ==
    ASSUME BaselineInv, NEW w \in Nat \ {0}
    PROVE  /\ Volume(Since(clock - (w - 1) * Minute)) <= SumOf(Rows(w))
           /\ SumOf(Rows(w)) <= Volume(Since(clock - w * Minute))
<1> DEFINE inside == {i \in DOMAIN trades : BucketStart(trades[i].at) \in Rows(w)}
           short == Since(clock - (w - 1) * Minute)
           long == Since(clock - w * Minute)
<1>1. /\ Minute \in Nat /\ clock \in Nat /\ w * Minute \in Nat
      /\ (w - 1) * Minute = w * Minute - Minute
  BY BaselineAssumption DEF BaselineAssumption, BaselineInv, TypeOK
<1>2. /\ IsFiniteSet(DOMAIN trades)
      /\ \A i \in DOMAIN trades : trades[i].at \in Nat /\ Vol[i] \in Nat
  BY TradeFacts DEF BaselineInv
<1>3. ASSUME NEW i \in DOMAIN trades
      PROVE  /\ BucketStart(trades[i].at) \in DOMAIN stats /\ BucketStart(trades[i].at) \in Nat
             /\ BucketStart(trades[i].at) <= trades[i].at
             /\ trades[i].at < BucketStart(trades[i].at) + Minute
  BY <1>2, BucketFacts DEF BaselineInv, Summed
<1>4. short \subseteq inside
  <2>1. ASSUME NEW i \in DOMAIN trades, trades[i].at >= clock - (w - 1) * Minute
        PROVE  BucketStart(trades[i].at) >= clock - w * Minute
    BY <1>1, <1>2, <1>3, <2>1
  <2> QED BY <1>3, <2>1 DEF Since, Rows
<1>5. inside \subseteq long
  <2>1. ASSUME NEW i \in DOMAIN trades, BucketStart(trades[i].at) >= clock - w * Minute
        PROVE  trades[i].at >= clock - w * Minute
    BY <1>1, <1>2, <1>3, <2>1
  <2> QED BY <2>1 DEF Since, Rows
<1>6. /\ IsFiniteSet(inside) /\ \A i \in inside : Vol[i] \in Nat
      /\ IsFiniteSet(long) /\ \A i \in long : Vol[i] \in Nat
  BY <1>2, FS_Subset DEF Since
<1>7. Volume(short) <= Volume(inside) /\ Volume(inside) <= Volume(long)
  <2> HIDE DEF short, inside, long
  <2> QED BY <1>4, <1>5, <1>6, SumPart, VolumeIs
<1>8. SumOf(Rows(w)) = Volume(inside)
  BY WindowSums
<1> QED BY <1>7, <1>8

\* The short window holds every swap of the last four minutes and none older than five,
\* wherever in the minute the tick falls, for any length of the window and of a minute
\* (aggregator.rs win_5min_start against whole minutes).
THEOREM WindowSpans == Spec => []WindowSpan
<1>1. BaselineInv => WindowSpan
  BY WindowBounds, BaselineAssumption DEF BaselineAssumption, WindowSpan, Vol5
<1> QED BY <1>1, BaselineCorrect, PTL

\* A token that is over the threshold was trading, within the last day, the grace period
\* ago, to the minute (detector.rs run_one_tick, the coverage of aggregator.rs).
THEOREM GraceGiven == Spec => []Grace
<1>1. BaselineInv => Grace
  <2> SUFFICES ASSUME BaselineInv, OverSpike
               PROVE  \E i \in Since(clock - Day * Minute) :
                         trades[i].at < clock - (MinCoverage - 1) * Minute
    BY DEF Grace
  <2>1. /\ Day \in Nat /\ Window \in Nat /\ Minute \in Nat \ {0} /\ clock \in Nat
        /\ MinCoverage \in Nat /\ Day > Window /\ Day * Minute \in Nat
        /\ MinCoverage * Minute \in Nat
        /\ (MinCoverage - 1) * Minute = MinCoverage * Minute - Minute
    BY BaselineAssumption DEF BaselineAssumption, BaselineInv, TypeOK
  <2>2. Rows(Window) # {}
    <3>1. ASSUME Rows(Window) = {} PROVE FALSE
      <4>1. Vol5 = 0
        BY <3>1, SumEmpty DEF Vol5, SumOf
      <4> QED BY <4>1 DEF OverSpike
    <3> QED BY <3>1
  <2>3. Rows(Window) \subseteq Rows(Day)
    <3>1. Window * Minute <= Day * Minute
      BY <2>1, Products
    <3>2. ASSUME NEW b \in Nat, b >= clock - Window * Minute PROVE b >= clock - Day * Minute
      <4>1. Window * Minute \in Nat
        BY <2>1, Products
      <4> QED BY <2>1, <3>1, <3>2, <4>1
    <3> QED BY <3>2, StatsFinite DEF BaselineInv, Rows
  <2>4. Coverage = clock - Min(Rows(Day)) /\ Coverage >= MinCoverage * Minute
    BY <2>2, <2>3 DEF Coverage, OverSpike
  <2>5. Min(Rows(Day)) \in Rows(Day)
    <3>1. Rows(Day) \in SUBSET Nat
      BY StatsFinite DEF BaselineInv, Rows
    <3>2. \E b \in Rows(Day) : \A k \in Rows(Day) : b <= k
      BY <2>2, <2>3, <3>1, NatMin
    <3> QED BY <3>2 DEF Min
  <2>6. PICK i \in DOMAIN trades : BucketStart(trades[i].at) = Min(Rows(Day))
    BY <2>5 DEF BaselineInv, Summed, Rows
  <2>7. /\ trades[i].at \in Nat /\ BucketStart(trades[i].at) \in Nat
        /\ BucketStart(trades[i].at) <= trades[i].at
        /\ trades[i].at < BucketStart(trades[i].at) + Minute
    BY TradeFacts, BucketFacts DEF BaselineInv
  <2>8. BucketStart(trades[i].at) >= clock - Day * Minute
    BY <2>5, <2>6 DEF Rows
  <2>9. trades[i].at >= clock - Day * Minute
    BY <2>1, <2>7, <2>8
  <2>10. trades[i].at < clock - (MinCoverage - 1) * Minute
    BY <2>1, <2>4, <2>6, <2>7
  <2> QED BY <2>9, <2>10 DEF Since
<1> QED BY <1>1, BaselineCorrect, PTL

\* More in the short window and less in the day is no less of a spike, and no less hot.
LEMMA SpikeGrows ==
    ASSUME NEW a \in Nat, NEW b \in Nat, NEW c \in Nat, NEW d \in Nat,
           a <= c, d <= b, d > 0
    PROVE  (Spike(a, b) => Spike(c, d)) /\ (Hot(a, b) => Hot(c, d))
<1>1. /\ Ratio \in Nat /\ Apr \in Nat /\ FeeInverse \in Nat /\ Slots \in Nat
  BY BaselineAssumption, Division DEF BaselineAssumption, Slots
<1>2. /\ a * Slots <= c * Slots /\ a * Slots \in Nat /\ c * Slots \in Nat
      /\ d * Ratio <= b * Ratio /\ d * Ratio \in Nat /\ b * Ratio \in Nat
  BY <1>1, Products
<1>3. Ratio * d = d * Ratio /\ Ratio * b = b * Ratio
  BY <1>1
<1>4. Spike(a, b) => Spike(c, d)
  BY <1>2, <1>3 DEF Spike
<1>5. Hot(a, b) => Hot(c, d)
  <2> DEFINE f == Slots * Slots * 365
             g == Apr * FeeInverse
  <2>1. f \in Nat /\ g \in Nat
    <3>1. Slots * Slots \in Nat
      BY <1>1
    <3> QED BY <1>1, <3>1
  <2>2. /\ a * Slots * Slots * 365 = a * f /\ c * Slots * Slots * 365 = c * f
        /\ Apr * b * FeeInverse = b * g /\ Apr * d * FeeInverse = d * g
    BY <1>1
  <2> HIDE DEF f, g
  <2>3. /\ a * f <= c * f /\ a * f \in Nat /\ c * f \in Nat
        /\ d * g <= b * g /\ d * g \in Nat /\ b * g \in Nat
    BY <2>1, Products
  <2> QED BY <2>2, <2>3 DEF Hot
<1> QED BY <1>4, <1>5

\* What trades in the last four minutes as a spike would is found to be one, wherever in the
\* minute the tick falls, for any lengths and thresholds (aggregator.rs, detector.rs
\* run_one_tick).
THEOREM BurstsAreSeen == Spec => []BurstIsSeen
<1>1. BaselineInv => BurstIsSeen
  <2> DEFINE short == Since(clock - (Window - 1) * Minute)
             burst == Volume(short)
             day == Volume(Since(clock - Day * Minute))
  <2> SUFFICES ASSUME BaselineInv, burst > 0, burst >= MinVolume,
                      NEW i \in Since(clock - (Day - 1) * Minute),
                      trades[i].at <= clock - MinCoverage * Minute
               PROVE  /\ Spike(burst, day) => OverSpike
                      /\ Spike(burst, day) /\ Hot(burst, day) => OverCombo
    BY DEF BurstIsSeen
  <2>1. /\ Window \in Nat \ {0} /\ Day \in Nat \ {0} /\ Minute \in Nat \ {0} /\ clock \in Nat
        /\ Window < Day /\ MinCoverage \in Nat /\ MinVolume \in Nat
        /\ MinCoverage * Minute \in Nat /\ Day * Minute \in Nat
        /\ (Day - 1) * Minute = Day * Minute - Minute
    <3>1. /\ Window \in Nat \ {0} /\ Day \in Nat /\ Minute \in Nat \ {0} /\ clock \in Nat
          /\ Window < Day /\ MinCoverage \in Nat /\ MinVolume \in Nat
      BY BaselineAssumption DEF BaselineAssumption, BaselineInv, TypeOK
    <3>2. MinCoverage * Minute \in Nat /\ Day * Minute \in Nat
      BY <3>1, Products
    <3> QED BY <3>1, <3>2
  <2>2. /\ Vol5 \in Nat /\ Vol24 \in Nat /\ burst <= Vol5 /\ Vol24 <= day
        /\ Volume(Since(clock - (Day - 1) * Minute)) <= Vol24
    BY <2>1, WindowSums, WindowBounds DEF Vol5, Vol24
  <2>3. /\ IsFiniteSet(DOMAIN trades)
        /\ \A k \in DOMAIN trades : trades[k].at \in Nat /\ Vol[k] \in Nat
    BY TradeFacts DEF BaselineInv
  <2>4. \A at : IsFiniteSet(Since(at)) /\ (\A k \in Since(at) : Vol[k] \in Nat)
    BY <2>3, FS_Subset DEF Since
  <2>5. \A at : Volume(Since(at)) \in Nat
    BY <2>4, SumNat, VolumeIs
  <2>6. burst <= Volume(Since(clock - (Day - 1) * Minute))
    <3> DEFINE long == Since(clock - (Day - 1) * Minute)
    <3>1. (Window - 1) * Minute <= (Day - 1) * Minute /\ (Window - 1) * Minute \in Nat
      <4>1. Window - 1 \in Nat /\ Day - 1 \in Nat /\ Window - 1 <= Day - 1
        BY <2>1
      <4> QED BY <2>1, <4>1, Products
    <3>2. short \subseteq long
      BY <2>1, <2>3, <3>1 DEF Since
    <3> HIDE DEF short, long
    <3>3. Volume(short) <= Volume(long)
      BY <2>4, <3>2, SumPart, VolumeIs DEF short, long
    <3> QED BY <3>3 DEF long
  <2>7. Vol24 > 0
    BY <2>2, <2>5, <2>6
  <2>8. Coverage >= MinCoverage * Minute
    <3> DEFINE b == BucketStart(trades[i].at)
    <3>1. i \in DOMAIN trades /\ trades[i].at >= clock - (Day - 1) * Minute
      BY DEF Since
    <3>2. /\ b \in Nat /\ b <= trades[i].at /\ trades[i].at < b + Minute /\ trades[i].at \in Nat
          /\ b \in DOMAIN stats
      BY <2>3, <3>1, BucketFacts DEF BaselineInv, Summed
    <3>3. b >= clock - Day * Minute
      BY <2>1, <3>1, <3>2
    <3>4. b \in Rows(Day) /\ Rows(Day) \in SUBSET Nat
      BY <3>2, <3>3, StatsFinite DEF BaselineInv, Rows
    <3>5. \E m \in Rows(Day) : \A k \in Rows(Day) : m <= k
      BY <3>4, NatMin
    <3>6. Min(Rows(Day)) \in Nat /\ Min(Rows(Day)) <= b
      BY <3>4, <3>5 DEF Min
    <3>7. Coverage = clock - Min(Rows(Day))
      BY <3>4 DEF Coverage
    <3> QED BY <2>1, <3>2, <3>6, <3>7
  <2>9. (Spike(burst, day) => Spike(Vol5, Vol24)) /\ (Hot(burst, day) => Hot(Vol5, Vol24))
    BY <2>2, <2>5, <2>7, SpikeGrows
  <2>10. Vol5 > 0 /\ Vol5 >= MinVolume
    BY <2>1, <2>2, <2>5
  <2> QED BY <2>8, <2>9, <2>10 DEF OverSpike, OverCombo
<1> QED BY <1>1, BaselineCorrect, PTL

\* The types: the buckets are whole minutes with natural sums (stream_listener.rs
\* insert_swap).
THEOREM BaselineTypeCorrect == Spec => []TypeOK
<1>1. BaselineInv => TypeOK
  BY DEF BaselineInv
<1> QED BY <1>1, BaselineCorrect, PTL

-----------------------------------------------------------------------------
(***************************************************************************)
(* A steady token                                                          *)
(***************************************************************************)

\* Its swaps: one at the end of each minute, all of one volume, none left out.
EveryMinute ==
    LET n == Len(trades)
    IN  /\ n * Minute - 1 <= clock /\ clock <= n * Minute + Minute - 1
        /\ \A j \in DOMAIN trades :
              trades[j].at = j * Minute - 1 /\ trades[j].volume = trades[1].volume

\* What a tick knows of its minute.
LEMMA MinuteOf ==
    ASSUME NEW n \in Nat, NEW c \in Nat, n * Minute - 1 <= c, c <= n * Minute + Minute - 1
    PROVE  /\ n * Minute \in Nat
           /\ c = n * Minute - 1 => c % Minute = Minute - 1 /\ c \div Minute = n - 1
           /\ c >= n * Minute => c \div Minute = n /\ c % Minute = c - n * Minute
<1>1. Minute \in Nat \ {0} /\ n * Minute \in Nat
  BY Multiples, BaselineAssumption DEF BaselineAssumption
<1>2. ASSUME c = n * Minute - 1 PROVE c % Minute = Minute - 1 /\ c \div Minute = n - 1
  <2>1. c = (n - 1) * Minute + (Minute - 1)
    BY <1>1, <1>2
  <2> QED BY <1>1, <2>1, DivisionUnique
<1>3. ASSUME c >= n * Minute PROVE c \div Minute = n /\ c % Minute = c - n * Minute
  <2> DEFINE r == c - n * Minute
  <2>1. r \in 0..(Minute - 1) /\ c = n * Minute + r
    BY <1>1, <1>3
  <2> HIDE DEF r
  <2>2. n = c \div Minute /\ r = c % Minute
    BY <1>1, <2>1, DivisionUnique
  <2> QED BY <2>2 DEF r
<1> QED BY <1>1, <1>2, <1>3

LEMMA SteadyAdvance ==
    ASSUME BaselineInv, EveryMinute, Advance,
           clock % Minute < Minute - 1 \/ Len(trades) >= (clock \div Minute) + 1
    PROVE  EveryMinute'
<1> DEFINE n == Len(trades)
<1>1. n \in Nat /\ clock \in Nat /\ Minute \in Nat \ {0} /\ n * Minute \in Nat
  BY TradeFacts, Multiples, BaselineAssumption DEF BaselineAssumption, BaselineInv, TypeOK
<1>2. n * Minute - 1 <= clock /\ clock <= n * Minute + Minute - 1
  BY DEF EveryMinute
<1>3. clock < n * Minute + Minute - 1
  <2>1. ASSUME clock = n * Minute + Minute - 1 PROVE FALSE
    <3>1. clock >= n * Minute
      BY <1>1, <2>1
    <3>2. clock \div Minute = n /\ clock % Minute = clock - n * Minute
      <4> HIDE DEF n
      <4> QED BY <1>1, <1>2, <3>1, MinuteOf
    <3>3. clock % Minute = Minute - 1
      <4> HIDE DEF n
      <4> QED BY <1>1, <2>1, <3>2
    <3>4. clock \div Minute = n
      BY <3>2
    <3> HIDE DEF n
    <3> QED BY <1>1, <3>3, <3>4 DEF n
  <2> QED BY <1>1, <1>2, <2>1
<1>4. clock' = clock + 1 /\ UNCHANGED trades
  BY DEF Advance
<1> QED BY <1>1, <1>2, <1>3, <1>4 DEF EveryMinute

LEMMA SteadyTrade ==
    ASSUME BaselineInv, EveryMinute, NEW v \in Volumes, Trade(v),
           clock % Minute = Minute - 1, Len(trades) < (clock \div Minute) + 1,
           trades # <<>> => v = trades[1].volume
    PROVE  EveryMinute'
<1> DEFINE n == Len(trades)
           r == [at |-> clock, volume |-> v]
<1>1. n \in Nat /\ clock \in Nat /\ Minute \in Nat \ {0} /\ n * Minute \in Nat
  BY TradeFacts, Multiples, BaselineAssumption DEF BaselineAssumption, BaselineInv, TypeOK
<1>2. n * Minute - 1 <= clock /\ clock <= n * Minute + Minute - 1
  BY DEF EveryMinute
<1>3. clock = n * Minute + (Minute - 1) /\ clock = (n + 1) * Minute - 1
  <2>1. clock >= n * Minute
    <3>1. ASSUME clock = n * Minute - 1 PROVE FALSE
      <4>1. clock \div Minute = n - 1
        <5> HIDE DEF n
        <5> QED BY <1>1, <1>2, <3>1, MinuteOf
      <4> QED BY <1>1, <4>1
    <3> QED BY <1>1, <1>2, <3>1
  <2>2. clock % Minute = clock - n * Minute
    <3> HIDE DEF n
    <3> QED BY <1>1, <1>2, <2>1, MinuteOf
  <2> QED BY <1>1, <2>2
<1>4. /\ trades' = Append(trades, r) /\ clock' = clock /\ trades \in Seq(TradeRecord)
      /\ r \in TradeRecord
  BY BaselineAssumption, <1>1 DEF Trade, BaselineInv, TypeOK, TradeRecord, BaselineAssumption
<1>5. /\ Len(trades') = n + 1 /\ DOMAIN trades' = 1..(n + 1) /\ DOMAIN trades = 1..n
      /\ trades'[n + 1] = r /\ \A i \in 1..n : trades'[i] = trades[i]
  <2> HIDE DEF r
  <2> QED BY <1>1, <1>4
<1>6. (n + 1) * Minute - 1 <= clock' /\ clock' <= (n + 1) * Minute + Minute - 1
  BY <1>1, <1>3, <1>4
<1>7. trades'[1].volume = v
  <2>1. CASE n = 0
    BY <1>5, <2>1
  <2>2. CASE n # 0
    <3>1. 1 \in 1..n /\ trades # <<>>
      BY <1>1, <2>2
    <3> QED BY <1>5, <3>1
  <2> QED BY <2>1, <2>2
<1>8. ASSUME NEW j \in 1..(n + 1)
      PROVE  trades'[j].at = j * Minute - 1 /\ trades'[j].volume = trades'[1].volume
  <2>1. CASE j = n + 1
    BY <1>3, <1>5, <1>7, <2>1
  <2>2. CASE j # n + 1
    <3>1. j \in 1..n /\ n # 0
      BY <1>1, <2>2
    <3>2. trades[j].at = j * Minute - 1 /\ trades[j].volume = trades[1].volume
      BY <1>5, <3>1 DEF EveryMinute
    <3>3. 1 \in 1..n
      BY <1>1, <3>1
    <3> QED BY <1>5, <3>1, <3>2, <3>3
  <2> QED BY <2>1, <2>2
<1> HIDE DEF r
<1> QED BY <1>5, <1>6, <1>8 DEF EveryMinute

LEMMA SteadyCorrect == SteadySpec => [](BaselineInv /\ EveryMinute)
<1>1. Init => EveryMinute
  <2> SUFFICES ASSUME Init PROVE EveryMinute
    OBVIOUS
  <2>1. clock = 0 /\ Len(trades) = 0 /\ DOMAIN trades = {} /\ Minute \in Nat \ {0}
    BY BaselineAssumption DEF Init, BaselineAssumption
  <2> QED BY <2>1 DEF EveryMinute
<1>2. BaselineInv /\ EveryMinute /\ [SteadyNext]_vars => EveryMinute'
  <2> SUFFICES ASSUME BaselineInv, EveryMinute, [SteadyNext]_vars PROVE EveryMinute'
    OBVIOUS
  <2> DEFINE due == Len(trades) < (clock \div Minute) + 1
  <2>1. CASE UNCHANGED vars
    BY <2>1 DEF vars, EveryMinute
  <2>2. CASE clock % Minute < Minute - 1 /\ Advance
    BY <2>2, SteadyAdvance
  <2>3. ASSUME clock % Minute = Minute - 1, due,
               NEW v \in Volumes, trades # <<>> => v = trades[1].volume, Trade(v)
        PROVE  EveryMinute'
    BY <2>3, SteadyTrade
  <2>4. ASSUME ~due, Advance PROVE EveryMinute'
    <3>1. Len(trades) >= (clock \div Minute) + 1
      <4>1. Len(trades) \in Nat /\ clock \in Nat /\ Minute \in Nat \ {0}
        BY TradeFacts, BaselineAssumption DEF BaselineAssumption, BaselineInv, TypeOK
      <4>2. clock \div Minute \in Nat
        BY <4>1, Division
      <4> QED BY <2>4, <4>1, <4>2
    <3> QED BY <2>4, <3>1, SteadyAdvance
  <2> QED BY <2>1, <2>2, <2>3, <2>4 DEF SteadyNext
<1>3. [SteadyNext]_vars => [Next]_vars
  BY DEF SteadyNext, Next
<1> QED BY <1>1, <1>2, <1>3, BaselineInitInv, BaselineStepInv, PTL DEF SteadySpec

\* How many of its swaps are in the rows of a window: all, or one a minute for the whole
\* minutes of the window.
LEMMA SteadyWindow ==
    ASSUME BaselineInv, EveryMinute, Minute > 1, trades # <<>>, NEW w \in Nat \ {0}
    PROVE  \E c \in Nat, d \in {0, 1} :
              /\ SumOf(Rows(w)) = c * trades[1].volume
              /\ c = IF Len(trades) <= w - d THEN Len(trades) ELSE w - d
              /\ d = IF clock <= Len(trades) * Minute THEN 0 ELSE 1
<1> DEFINE n == Len(trades)
           d == IF clock <= n * Minute THEN 0 ELSE 1
           lo == n - w + d + 1
           v == trades[1].volume
           inside == {i \in DOMAIN trades : BucketStart(trades[i].at) \in Rows(w)}
<1>1. /\ n \in Nat /\ n # 0 /\ DOMAIN trades = 1..n /\ clock \in Nat /\ Minute \in Nat
      /\ Minute > 1 /\ n * Minute \in Nat /\ w \in Nat /\ w # 0 /\ w * Minute \in Nat
  BY TradeFacts, Multiples, BaselineAssumption DEF BaselineAssumption, BaselineInv, TypeOK
<1>2. n * Minute - 1 <= clock /\ clock <= n * Minute + Minute - 1
  BY DEF EveryMinute
<1>3. ASSUME NEW i \in 1..n
      PROVE  BucketStart(trades[i].at) = (i - 1) * Minute /\ (i - 1) * Minute \in DOMAIN stats
  <2>1. trades[i].at = i * Minute - 1
    BY <1>1 DEF EveryMinute
  <2>2. trades[i].at = (i - 1) * Minute + (Minute - 1) /\ trades[i].at \in Nat
    BY <1>1, <2>1, TradeFacts DEF BaselineInv
  <2>3. i - 1 \in Int /\ Minute - 1 \in 0..(Minute - 1) /\ Minute \in Nat \ {0}
    BY <1>1
  <2>4. trades[i].at \div Minute = i - 1
    <3> DEFINE q == i - 1
    <3> HIDE DEF q
    <3> QED BY <2>2, <2>3, DivisionUnique DEF q
  <2> QED BY <1>1, <2>4 DEF BucketStart, BaselineInv, Summed
<1>4. ASSUME NEW i \in 1..n
      PROVE  ((i - 1) * Minute >= clock - w * Minute) <=> i >= lo
  <2> DEFINE e == i - 1 - n + w
  <2>1. e \in Int /\ (i - 1) * Minute = e * Minute + n * Minute - w * Minute
    BY <1>1
  <2>2. e * Minute \in Int
    BY <1>1, <2>1
  <2>3. i >= lo <=> e >= d
    BY <1>1
  <2>4. ((i - 1) * Minute >= clock - w * Minute) <=> e * Minute >= clock - n * Minute
    <3> HIDE DEF e
    <3> QED BY <1>1, <2>1, <2>2
  <2>5. e >= 1 => e * Minute >= Minute
    <3> HIDE DEF e
    <3> QED BY <1>1, <2>1
  <2>6. e = 0 => e * Minute = 0
    BY <1>1
  <2>7. e <= -1 => e * Minute <= -Minute
    <3>1. ASSUME e <= -1 PROVE e * Minute <= -Minute
      <4> DEFINE p == -e
      <4>1. p \in Nat /\ p >= 1 /\ e = -p
        BY <2>1, <3>1
      <4> HIDE DEF p, e
      <4>2. 1 * Minute <= p * Minute
        BY <1>1, <4>1, Products
      <4> QED BY <1>1, <4>1, <4>2
    <3> QED BY <3>1
  <2> HIDE DEF e
  <2>8. CASE clock <= n * Minute
    BY <1>1, <1>2, <2>1, <2>2, <2>3, <2>4, <2>5, <2>6, <2>7, <2>8
  <2>9. CASE clock > n * Minute
    BY <1>1, <1>2, <2>1, <2>2, <2>3, <2>4, <2>5, <2>6, <2>7, <2>9
  <2> QED BY <1>1, <2>8, <2>9
<1>5. inside = {i \in 1..n : i >= lo}
  BY <1>1, <1>3, <1>4 DEF Rows
<1> DEFINE first == IF lo <= 1 THEN 1 ELSE lo
           c == IF n <= w - d THEN n ELSE w - d
<1>6. d \in {0, 1} /\ lo \in Int /\ first \in Int /\ c \in Nat
  BY <1>1
<1>7. inside = first..n
  <2>1. \A i \in Int : i \in 1..n /\ i >= lo <=> i \in first..n
    BY <1>1, <1>6
  <2> HIDE DEF first, lo, inside
  <2> QED BY <1>1, <1>5, <1>6, <2>1
<1>8. IsFiniteSet(inside) /\ Cardinality(inside) = c
  <2>1. IsFiniteSet(first..n) /\ Cardinality(first..n) = IF first > n THEN 0 ELSE n - first + 1
    <3> HIDE DEF first, n
    <3> QED BY <1>1, <1>6, FS_Interval
  <2>2. (IF first > n THEN 0 ELSE n - first + 1) = c
    <3>1. /\ first = (IF lo <= 1 THEN 1 ELSE lo) /\ lo = n - w + d + 1
          /\ c = (IF n <= w - d THEN n ELSE w - d)
      OBVIOUS
    <3>2. n \in Nat /\ n # 0 /\ w \in Nat /\ w # 0 /\ d \in {0, 1}
      BY <1>1, <1>6
    <3> HIDE DEF first, lo, c, d, n
    <3> QED BY <3>1, <3>2
  <2> QED BY <1>7, <2>1, <2>2
<1>9. v \in Nat /\ \A i \in inside : Vol[i] = v
  <2>1. 1 \in 1..n
    BY <1>1
  <2> QED BY <1>1, <2>1, TradeFacts DEF BaselineInv, EveryMinute
<1>10. SumOf(Rows(w)) = c * v
  <2>1. SumOf(Rows(w)) = SumFunctionOnSet(Vol, inside)
    BY <1>1, WindowSums, VolumeIs
  <2> HIDE DEF inside, c, v
  <2> QED BY <1>8, <1>9, <2>1, SumOfEqual
<1> HIDE DEF v, inside, lo, first
<1> QED BY <1>6, <1>10 DEF v

\* A steady token is quiet once it has traded for Day / Ratio minutes (the average over 288
\* windows in detector.rs run_one_tick), where a spike is more than the average and a minute
\* more than a tick.
THEOREM SteadyStaysQuiet ==
    ASSUME Minute > 1, Ratio > 1
    PROVE  SteadySpec => []SteadyIsQuiet
<1>1. BaselineInv /\ EveryMinute => SteadyIsQuiet
  <2> SUFFICES ASSUME BaselineInv, EveryMinute, trades # <<>>, OverSpike,
                      clock - trades[1].at > (Day * Minute) \div Ratio
               PROVE  FALSE
    BY DEF SteadyIsQuiet
  <2> DEFINE n == Len(trades)
             v == trades[1].volume
  <2>1. /\ n \in Nat /\ n # 0 /\ clock \in Nat /\ Minute \in Nat /\ v \in Nat
        /\ Window \in Nat \ {0} /\ Day \in Nat \ {0} /\ Day > Window /\ Ratio \in Nat
        /\ n * Minute \in Nat /\ Day * Minute \in Nat /\ 1 \in DOMAIN trades
    <3>1. /\ Window \in Nat \ {0} /\ Day \in Nat \ {0} /\ Day > Window /\ Ratio \in Nat
          /\ Minute \in Nat /\ clock \in Nat
      BY BaselineAssumption DEF BaselineAssumption, BaselineInv, TypeOK
    <3>2. n \in Nat /\ DOMAIN trades = 1..n /\ n # 0
      BY TradeFacts DEF BaselineInv, TypeOK
    <3>3. 1 \in DOMAIN trades
      <4> HIDE DEF n
      <4> QED BY <3>2
    <3>4. v \in Nat
      BY <3>3, TradeFacts DEF BaselineInv
    <3>5. n * Minute \in Nat /\ Day * Minute \in Nat
      <4> HIDE DEF n
      <4> QED BY <3>1, <3>2, Products
    <3> QED BY <3>1, <3>2, <3>3, <3>4, <3>5
  <2>2. Slots \in Nat /\ Window * Slots = Day /\ Slots > 1
    <3>1. Day = Slots * Window + (Day % Window) /\ Slots \in Nat /\ Day % Window = 0
      BY <2>1, Division, BaselineAssumption DEF Slots, BaselineAssumption
    <3>2. Slots # 0 /\ Slots # 1
      BY <2>1, <3>1
    <3> QED BY <2>1, <3>1, <3>2
  <2>3. PICK c5 \in Nat, d \in {0, 1} :
           /\ Vol5 = c5 * v
           /\ c5 = IF n <= Window - d THEN n ELSE Window - d
           /\ d = IF clock <= n * Minute THEN 0 ELSE 1
    BY <2>1, SteadyWindow DEF Vol5
  <2>4. PICK c24 \in Nat, e \in {0, 1} :
           /\ Vol24 = c24 * v
           /\ c24 = IF n <= Day - e THEN n ELSE Day - e
           /\ e = IF clock <= n * Minute THEN 0 ELSE 1
    BY <2>1, SteadyWindow DEF Vol24
  <2>5. Vol24 > 0 /\ Vol5 * Slots >= Ratio * Vol24
    BY DEF OverSpike, Spike
  <2>6. c5 * Slots <= Day - d /\ c5 * Slots \in Nat
    <3>1. c5 <= Window - d
      <4>1. c5 = IF n <= Window - d THEN n ELSE Window - d
        BY <2>3
      <4> HIDE DEF n
      <4> QED BY <2>1, <4>1
    <3>2. c5 * Slots <= (Window - d) * Slots /\ c5 * Slots \in Nat
      <4>1. Window - d \in Nat
        BY <2>1
      <4> QED BY <2>2, <3>1, <4>1, Products
    <3>3. (Window - d) * Slots <= Day - d
      <4>1. CASE d = 0
        BY <2>1, <2>2, <4>1
      <4>2. CASE d = 1
        <5>1. (Window - 1) * Slots = Window * Slots - Slots
          BY <2>1, <2>2
        <5> QED BY <2>1, <2>2, <4>2, <5>1
      <4> QED BY <4>1, <4>2
    <3>4. (Window - d) * Slots \in Int
      BY <2>1, <2>2
    <3> QED BY <2>1, <3>2, <3>3, <3>4
  <2>7. Ratio * c24 > c5 * Slots
    <3>1. CASE n <= Day - e
      <4>1. trades[1].at = Minute - 1
        BY <2>1 DEF EveryMinute
      <4>2. clock <= n * Minute + Minute - 1
        BY DEF EveryMinute
      <4> DEFINE q == (Day * Minute) \div Ratio
      <4>3. Day * Minute = q * Ratio + ((Day * Minute) % Ratio) /\ q \in Nat
            /\ (Day * Minute) % Ratio \in 0..(Ratio - 1)
        <5> DEFINE t == Day * Minute
        <5>1. t \in Nat /\ Ratio \in Nat \ {0}
          BY <2>1
        <5> HIDE DEF t
        <5> QED BY <5>1, Division DEF t
      <4>4. n * Minute >= q + 1
        <5> HIDE DEF q
        <5>1. clock - trades[1].at > q
          BY DEF q
        <5> HIDE DEF n
        <5> QED BY <2>1, <4>1, <4>2, <4>3, <5>1
      <4> DEFINE r == (Day * Minute) % Ratio
      <4>5. (n * Minute) * Ratio > Day * Minute
        <5> DEFINE m == n * Minute
                   t == Day * Minute
        <5>1. m * Ratio >= q * Ratio + Ratio /\ q * Ratio \in Nat /\ m * Ratio \in Nat
          <6>1. m \in Nat /\ q \in Nat /\ m >= q + 1 /\ Ratio \in Nat \ {0}
            BY <2>1, <4>3, <4>4
          <6> HIDE DEF m, q
          <6> QED BY <6>1, NextMultiple, Multiples
        <5>2. t = q * Ratio + r /\ r \in 0..(Ratio - 1)
          BY <4>3
        <5> HIDE DEF m, t, q, r
        <5>3. m * Ratio > t
          BY <2>1, <5>1, <5>2
        <5> QED BY <5>3 DEF m, t
      <4>6. Ratio * n > Day
        <5>1. ASSUME Ratio * n <= Day PROVE FALSE
          <6> DEFINE p == Ratio * n
          <6>1. p \in Nat /\ p <= Day /\ p * Minute = (n * Minute) * Ratio
            BY <2>1, <5>1
          <6>2. p * Minute <= Day * Minute /\ p * Minute \in Nat
            <7> HIDE DEF p
            <7> QED BY <2>1, <6>1, Products
          <6> HIDE DEF p
          <6> QED BY <2>1, <4>5, <6>1, <6>2
        <5>2. Ratio * n \in Nat
          BY <2>1
        <5> QED BY <2>1, <5>1, <5>2
      <4>7. c24 = n /\ Ratio * n \in Nat
        BY <2>1, <2>4, <3>1
      <4> HIDE DEF n
      <4> QED BY <2>1, <2>6, <4>6, <4>7
    <3>2. CASE n > Day - e
      <4>1. c24 = Day - e /\ c24 >= 1 /\ d = e
        <5>1. c24 = (IF n <= Day - e THEN n ELSE Day - e) /\ d = e
          BY <2>3, <2>4
        <5> HIDE DEF n
        <5> QED BY <2>1, <3>2, <5>1
      <4>2. 2 * c24 <= Ratio * c24 /\ Ratio * c24 \in Nat
        BY <2>1, Products
      <4> QED BY <2>1, <2>6, <4>1, <4>2
    <3> QED BY <2>1, <3>1, <3>2
  <2>8. v >= 1
    <3>1. ASSUME v = 0 PROVE FALSE
      BY <2>4, <2>5, <3>1
    <3> QED BY <2>1, <3>1
  <2> HIDE DEF v, n
  <2>9. (Ratio * c24) * v > (c5 * Slots) * v
    <3> DEFINE x == Ratio * c24
               y == c5 * Slots
    <3>1. x \in Nat /\ y \in Nat /\ x >= y + 1
      BY <2>1, <2>2, <2>7
    <3> HIDE DEF x, y
    <3>2. x * v >= y * v + v
      <4>1. (y + 1) * v <= x * v
        BY <2>1, <3>1, Products
      <4> QED BY <2>1, <3>1, <4>1
    <3>3. x * v \in Nat /\ y * v \in Nat
      BY <2>1, <3>1
    <3>4. x * v > y * v
      BY <2>1, <2>8, <3>2, <3>3
    <3> QED BY <3>4 DEF x, y
  <2>10. Vol5 * Slots = (c5 * Slots) * v /\ Ratio * Vol24 = (Ratio * c24) * v
    BY <2>1, <2>2, <2>3, <2>4
  <2>11. Vol5 * Slots \in Nat /\ Ratio * Vol24 \in Nat
    BY <2>1, <2>2, <2>3, <2>4
  <2> QED BY <2>5, <2>9, <2>10, <2>11
<1> QED BY <1>1, SteadyCorrect, PTL
=============================================================================
