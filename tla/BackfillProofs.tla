--------------------------- MODULE BackfillProofs ---------------------------
(***************************************************************************)
(* The pipeline of the backfill binary, for any number of batches, any     *)
(* concurrency, queue and workers, and any failures and reruns: how much   *)
(* is in memory, and what a completed run has stored.  Then the rows of a  *)
(* batch: their times, their order and their price.                        *)
(***************************************************************************)
EXTENDS Backfill, BatchRows, FiniteSetTheorems, NaturalFacts, TLAPS

Phases == {"todo", "fetching", "sending", "queued", "spawned", "flushing", "done", "failed"}

\* The four limits, each at its own stage.
Limits ==
    /\ Count(Running) <= Concurrency
    /\ Count({"queued"}) <= QueueMax
    /\ Count(Children) <= MaxChildren

\* Each stage ends after the one before it.
Drained ==
    /\ main # "fetch" => In(Unfetched) = {}
    /\ collector # "receive" => main # "fetch" /\ In({"queued"}) = {}
    /\ collector = "ended" => In(Children) = {}
    /\ main \in {"migrate", "rebuild", "done"} => collector = "ended"

Kept ==
    /\ In({"done"}) \subseteq staged \cup stored
    /\ main \in {"rebuild", "done"} => In({"done"}) \subseteq stored

Failures ==
    /\ Count({"failed"}) <= errors + unflushed
    /\ errors + unflushed <= MaxErrors

BackfillInv == TypeOK /\ Limits /\ Drained /\ Kept /\ Failures

-----------------------------------------------------------------------------
LEMMA Numbers ==
    /\ Concurrency \in Nat /\ QueueMax \in Nat /\ MaxChildren \in Nat /\ MaxErrors \in Nat
    /\ MaxKills \in Nat
<1>1. FlushWorkers \in Nat /\ ChildFactor \in Nat
  BY BackfillAssumption DEF BackfillAssumption
<1>2. ChildFactor * FlushWorkers \in Nat
  BY <1>1
<1> QED BY <1>2, BackfillAssumption DEF BackfillAssumption, MaxChildren

LEMMA InFinite == ASSUME NEW S PROVE IsFiniteSet(In(S)) /\ Count(S) \in Nat
<1>1. In(S) \subseteq Jobs
  BY DEF In
<1> QED BY <1>1, BackfillAssumption, FS_Subset, FS_CardinalityType DEF BackfillAssumption, Count

LEMMA InFiniteLater == ASSUME NEW S PROVE IsFiniteSet(In(S)') /\ Count(S)' \in Nat
<1>1. In(S)' \subseteq Jobs
  BY DEF In
<1>2. IsFiniteSet(In(S)')
  BY <1>1, BackfillAssumption, FS_Subset DEF BackfillAssumption
<1> QED BY <1>2, FS_CardinalityType DEF Count

LEMMA NoneCounted == ASSUME NEW S, In(S) = {} PROVE Count(S) = 0
  BY FS_EmptySet DEF Count

\* A batch that moves leaves one set of phases and enters another.
LEMMA MoveFacts ==
    ASSUME TypeOK, NEW j \in Jobs, NEW ph \in Phases, Move(j, ph)
    PROVE  /\ phase' \in [Jobs -> Phases]
           /\ \A S : In(S)' = IF ph \in S THEN In(S) \cup {j} ELSE In(S) \ {j}
  BY DEF TypeOK, Move, In, Phases

LEMMA MoveCounts ==
    ASSUME TypeOK, NEW j \in Jobs, NEW ph \in Phases, Move(j, ph), NEW S
    PROVE  /\ Count(S)' <= Count(S) + 1
           /\ ph \notin S \/ phase[j] \in S => Count(S)' <= Count(S)
<1>1. In(S)' = IF ph \in S THEN In(S) \cup {j} ELSE In(S) \ {j}
  BY MoveFacts
<1>2. IsFiniteSet(In(S)) /\ Count(S) \in Nat /\ Count(S)' \in Nat
  BY InFinite, InFiniteLater
<1>3. CASE ph \in S /\ j \notin In(S)
  <2>1. Cardinality(In(S)') = Cardinality(In(S)) + 1
    BY <1>1, <1>2, <1>3, FS_AddElement
  <2>2. phase[j] \notin S
    BY <1>3 DEF In
  <2> QED BY <1>2, <1>3, <2>1, <2>2 DEF Count
<1>4. CASE ph \in S /\ j \in In(S)
  <2>1. In(S)' = In(S)
    BY <1>1, <1>4
  <2> QED BY <1>2, <2>1 DEF Count
<1>5. CASE ph \notin S
  <2>1. In(S)' \subseteq In(S)
    BY <1>1, <1>5
  <2>2. Cardinality(In(S)') <= Cardinality(In(S))
    BY <1>2, <2>1, FS_Subset
  <2> QED BY <1>2, <2>2 DEF Count
<1> QED BY <1>3, <1>4, <1>5

LEMMA SameCounts ==
    ASSUME UNCHANGED phase, NEW S PROVE In(S)' = In(S) /\ Count(S)' = Count(S)
  BY DEF In, Count

-----------------------------------------------------------------------------
\* A batch moves one stage on and enters no stage beyond its limit.
LEMMA StageKeeps ==
    ASSUME BackfillInv, NEW j \in Jobs, NEW ph \in Phases, Move(j, ph),
           UNCHANGED <<main, collector, staged, stored, errors, unflushed, kills>>,
           ph \notin {"todo", "done", "failed"},
           ph \in Running => phase[j] \in Running \/ Count(Running) < Concurrency,
           ph = "queued" => Count({"queued"}) < QueueMax,
           ph \in Children => phase[j] \in Children \/ Count(Children) < MaxChildren,
           ph \in Unfetched => phase[j] \in Unfetched,
           ph = "queued" => phase[j] = "sending",
           ph \in Children => phase[j] \in Children \/ collector = "receive"
    PROVE  BackfillInv'
<1> USE DEF BackfillInv
<1>1. /\ phase' \in [Jobs -> Phases]
      /\ \A S : In(S)' = IF ph \in S THEN In(S) \cup {j} ELSE In(S) \ {j}
  BY MoveFacts
<1>2. TypeOK'
  BY <1>1 DEF TypeOK, Phases
<1>3. Limits'
  <2>1. \A S : /\ Count(S) \in Nat /\ Count(S)' \in Nat /\ Count(S)' <= Count(S) + 1
               /\ ph \notin S \/ phase[j] \in S => Count(S)' <= Count(S)
    BY InFinite, InFiniteLater, MoveCounts
  <2>2. Count(Running)' <= Concurrency
    BY <2>1, Numbers DEF Limits
  <2>3. Count({"queued"})' <= QueueMax
    BY <2>1, Numbers DEF Limits
  <2>4. Count(Children)' <= MaxChildren
    BY <2>1, Numbers DEF Limits
  <2> QED BY <2>2, <2>3, <2>4 DEF Limits
<1>4. Drained'
  <2>1. \A S : phase[j] \in S => j \in In(S)
    BY DEF In
  <2>2. main' # "fetch" => In(Unfetched)' = {}
    BY <1>1, <2>1 DEF Drained
  <2>3. collector' # "receive" => main' # "fetch" /\ In({"queued"})' = {}
    <3>1. phase[j] = "sending" => phase[j] \in Unfetched
      BY DEF Unfetched, Running
    <3> QED BY <1>1, <2>1, <3>1 DEF Drained
  <2>4. collector' = "ended" => In(Children)' = {}
    BY <1>1, <2>1 DEF Drained
  <2> QED BY <2>2, <2>3, <2>4 DEF Drained
<1>5. Kept'
  BY <1>1 DEF Kept
<1>6. Failures'
  <2>1. Count({"failed"})' <= Count({"failed"})
    BY MoveCounts
  <2> QED BY <2>1, InFinite, InFiniteLater, Numbers DEF Failures, TypeOK
<1> QED BY <1>2, <1>3, <1>4, <1>5, <1>6

LEMMA SumBound ==
    ASSUME NEW a \in Nat, NEW b \in Nat, NEW m \in Nat, a + b <= m
    PROVE  a \in 0..m /\ b \in 0..m
  OBVIOUS

LEMMA NatPlus == ASSUME NEW a \in Nat, NEW b \in Nat PROVE a + b \in Nat
  OBVIOUS

LEMMA SumGrows ==
    ASSUME NEW c \in Nat, NEW d \in Nat, NEW n \in {0, 1}, NEW s \in Nat, NEW t \in Nat,
           d <= c + n, c <= s, t >= s + n
    PROVE  d <= t
  OBVIOUS

\* A batch ends: it leaves every stage.
LEMMA EndKeeps ==
    ASSUME BackfillInv, NEW j \in Jobs, NEW ph \in {"done", "failed"}, Move(j, ph),
           phase[j] \in {"fetching", "flushing"},
           UNCHANGED <<main, collector, stored, kills>>,
           staged' \in SUBSET Jobs, staged \subseteq staged', ph = "done" => j \in staged',
           ph = "done" => phase[j] = "flushing",
           errors' \in Nat, unflushed' \in Nat,
           errors' + unflushed' <= MaxErrors,
           errors' + unflushed' >= errors + unflushed,
           ph = "failed" => errors' + unflushed' >= errors + unflushed + 1
    PROVE  BackfillInv'
<1> USE DEF BackfillInv
<1>0. ph \in Phases
  BY DEF Phases
<1>1. /\ phase' \in [Jobs -> Phases]
      /\ \A S : In(S)' = IF ph \in S THEN In(S) \cup {j} ELSE In(S) \ {j}
  BY <1>0, MoveFacts
<1>2. TypeOK'
  <2>1. errors' \in 0..MaxErrors /\ unflushed' \in 0..MaxErrors
    <3>1. MaxErrors \in Nat
      BY Numbers
    <3> QED BY <3>1, SumBound
  <2> QED BY <1>1, <2>1 DEF TypeOK, Phases
<1>3. Limits'
  <2>1. \A S : Count(S) \in Nat /\ Count(S)' \in Nat /\ (ph \notin S => Count(S)' <= Count(S))
    BY <1>0, InFinite, InFiniteLater, MoveCounts
  <2>2. ph \notin Running /\ ph \notin {"queued"} /\ ph \notin Children
    BY DEF Running, Children
  <2>3. /\ Count(Running)' <= Count(Running) /\ Count({"queued"})' <= Count({"queued"})
        /\ Count(Children)' <= Count(Children)
    BY <2>1, <2>2
  <2> QED BY <2>1, <2>3, Numbers DEF Limits
<1>4. Drained'
  <2>1. In(Unfetched)' \subseteq In(Unfetched)
    BY <1>1 DEF Unfetched, Running
  <2>2. In({"queued"})' \subseteq In({"queued"})
    BY <1>1
  <2>3. In(Children)' \subseteq In(Children)
    BY <1>1 DEF Children
  <2> QED BY <2>1, <2>2, <2>3 DEF Drained
<1>5. Kept'
  <2>1. main \notin {"rebuild", "done"} \/ ph # "done"
    <3>1. phase[j] = "flushing" => j \in In(Children)
      BY DEF In, Children
    <3> QED BY <3>1 DEF Drained
  <2> QED BY <1>1, <2>1 DEF Kept
<1>6. Failures'
  <2>1. /\ Count({"failed"})' <= Count({"failed"}) + (IF ph = "failed" THEN 1 ELSE 0)
        /\ Count({"failed"}) \in Nat /\ Count({"failed"})' \in Nat
    BY <1>0, MoveCounts, InFinite, InFiniteLater
  <2>2. errors \in Nat /\ unflushed \in Nat
    BY Numbers DEF TypeOK
  <2> DEFINE n == IF ph = "failed" THEN 1 ELSE 0
  <2>3. n \in {0, 1} /\ Count({"failed"})' <= Count({"failed"}) + n
    BY <2>1
  <2>5. errors + unflushed \in Nat /\ errors' + unflushed' \in Nat
    BY <2>2, NatPlus
  <2>4. errors' + unflushed' >= (errors + unflushed) + n
    <3>1. CASE ph = "failed"
      BY <2>5, <3>1
    <3>2. CASE ph # "failed"
      <4>1. n = 0
        BY <3>2
      <4> HIDE DEF n
      <4> QED BY <2>5, <4>1
    <3> QED BY <3>1, <3>2
  <2>6. Count({"failed"}) <= errors + unflushed
    BY DEF Failures
  <2> HIDE DEF n
  <2>7. Count({"failed"})' <= errors' + unflushed'
    BY <2>1, <2>3, <2>4, <2>5, <2>6, SumGrows
  <2> QED BY <2>7 DEF Failures
<1> QED BY <1>2, <1>3, <1>4, <1>5, <1>6

LEMMA JobStepKeeps ==
    ASSUME BackfillInv, NEW j \in Jobs, JobStep(j) \/ FetchFails(j) \/ FlushFails(j)
    PROVE  BackfillInv'
<1>0. errors \in Nat /\ unflushed \in Nat /\ staged \subseteq Jobs /\ stored \subseteq Jobs
      /\ errors + unflushed <= MaxErrors
  BY Numbers DEF BackfillInv, TypeOK, Failures
<1>1. CASE Acquire(j)
  BY <1>1, StageKeeps DEF Acquire, Tables, Phases, Running, Children, Unfetched
<1>2. CASE Fetched(j)
  BY <1>2, StageKeeps DEF Fetched, Tables, Phases, Running, Children, Unfetched
<1>3. CASE Send(j)
  BY <1>3, StageKeeps DEF Send, Tables, Phases, Running, Children, Unfetched
<1>4. CASE Receive(j)
  BY <1>4, StageKeeps DEF Receive, Tables, Phases, Running, Children, Unfetched
<1>5. CASE StartFlush(j)
  BY <1>5, StageKeeps DEF StartFlush, Tables, Phases, Running, Children, Unfetched
<1>6. CASE Flush(j)
  BY <1>0, <1>6, EndKeeps DEF Flush
<1>7. CASE FetchFails(j)
  BY <1>0, <1>7, EndKeeps, Numbers DEF FetchFails, Tables
<1>8. CASE FlushFails(j)
  BY <1>0, <1>8, EndKeeps, Numbers DEF FlushFails, Tables
<1> QED BY <1>1, <1>2, <1>3, <1>4, <1>5, <1>6, <1>7, <1>8 DEF JobStep

\* Main, the collector and the migration move while the batches stay where they are.
LEMMA TaskStepKeeps ==
    ASSUME BackfillInv, TaskStep
    PROVE  BackfillInv'
<1> USE DEF BackfillInv
<1>1. UNCHANGED <<phase, errors, unflushed, kills>>
  BY DEF TaskStep, FetchedAll, ChannelClosed, CollectorEnds, Joined, Migrate, Rebuild
<1>2. \A S : In(S)' = In(S) /\ Count(S)' = Count(S)
  BY <1>1, SameCounts
<1>3. Limits' /\ Failures'
  BY <1>1, <1>2 DEF Limits, Failures
<1>4. TypeOK'
  BY <1>1
  DEF TypeOK, TaskStep, FetchedAll, ChannelClosed, CollectorEnds, Joined, Migrate, Rebuild, Tables
<1>5. Drained'
  BY <1>1, <1>2
  DEF Drained, TaskStep, FetchedAll, ChannelClosed, CollectorEnds, Joined, Migrate, Rebuild
<1>6. Kept'
  BY <1>1, <1>2
  DEF Kept, TaskStep, FetchedAll, ChannelClosed, CollectorEnds, Joined, Migrate, Rebuild, Tables
<1> QED BY <1>3, <1>4, <1>5, <1>6

\* At the start of a run every batch is to do.
LEMMA FreshHolds ==
    ASSUME Fresh, staged \subseteq Jobs, stored \subseteq Jobs, kills \in 0..MaxKills
    PROVE  BackfillInv
<1>1. \A S : "todo" \notin S => In(S) = {}
  BY DEF Fresh, In
<1>2. \A S : "todo" \notin S => Count(S) = 0
  BY <1>1, NoneCounted
<1>3. /\ Count(Running) = 0 /\ Count({"queued"}) = 0 /\ Count(Children) = 0
      /\ Count({"failed"}) = 0 /\ In({"done"}) = {}
  BY <1>1, <1>2 DEF Running, Children
<1>4. TypeOK
  BY Numbers DEF Fresh, TypeOK
<1>5. Limits /\ Failures
  BY <1>3, Numbers DEF Limits, Failures, Fresh
<1>6. Drained /\ Kept
  BY <1>3 DEF Drained, Kept, Fresh
<1> QED BY <1>4, <1>5, <1>6 DEF BackfillInv

LEMMA KillAndRerunKeeps ==
    ASSUME BackfillInv, KillAndRerun
    PROVE  BackfillInv'
<1>1. /\ phase' = [j \in Jobs |-> "todo"] /\ main' = "fetch" /\ collector' = "receive"
      /\ errors' = 0 /\ unflushed' = 0
  BY DEF KillAndRerun
<1>2. staged' \subseteq Jobs /\ stored' \subseteq Jobs /\ kills' \in 0..MaxKills
  BY Numbers DEF KillAndRerun, Tables, BackfillInv, TypeOK
<1>3. \A S : "todo" \notin S => In(S)' = {}
  BY <1>1 DEF In
<1>4. \A S : "todo" \notin S => Count(S)' = 0
  BY <1>3, FS_EmptySet DEF Count
<1>5. /\ Count(Running)' = 0 /\ Count({"queued"})' = 0 /\ Count(Children)' = 0
      /\ Count({"failed"})' = 0 /\ In({"done"})' = {}
  BY <1>3, <1>4 DEF Running, Children
<1>6. TypeOK'
  BY <1>1, <1>2, Numbers DEF TypeOK
<1>7. Limits' /\ Failures'
  BY <1>1, <1>5, Numbers DEF Limits, Failures
<1>8. Drained' /\ Kept'
  BY <1>1, <1>5 DEF Drained, Kept
<1> QED BY <1>6, <1>7, <1>8 DEF BackfillInv

LEMMA BackfillInitInv == Init => BackfillInv
<1> SUFFICES ASSUME Init PROVE BackfillInv
  OBVIOUS
<1>1. Fresh /\ staged \subseteq Jobs /\ stored \subseteq Jobs /\ kills \in 0..MaxKills
  BY Numbers DEF Init
<1> QED BY <1>1, FreshHolds

LEMMA BackfillStepInv == BackfillInv /\ [Next]_vars => BackfillInv'
<1> SUFFICES ASSUME BackfillInv, [Next]_vars PROVE BackfillInv'
  OBVIOUS
<1>1. CASE UNCHANGED vars
  <2>1. \A S : In(S)' = In(S) /\ Count(S)' = Count(S)
    BY <1>1, SameCounts DEF vars
  <2>2. TypeOK'
    BY <1>1 DEF vars, BackfillInv, TypeOK
  <2>3. Limits' /\ Drained' /\ Kept' /\ Failures'
    BY <1>1, <2>1 DEF vars, BackfillInv, Limits, Drained, Kept, Failures
  <2> QED BY <2>2, <2>3 DEF BackfillInv
<1> QED BY <1>1, JobStepKeeps, TaskStepKeeps, KillAndRerunKeeps DEF Next

\* In every reachable state of the pipeline its batches and tasks are well typed
\* (src/bin/backfill.rs main).
THEOREM BackfillTypeCorrect == Spec => []TypeOK
<1>1. BackfillInv => TypeOK
  BY DEF BackfillInv
<1> QED BY <1>1, BackfillInitInv, BackfillStepInv, PTL DEF Spec

\* However slow the database, at most Concurrency + QueueMax + 4 * FlushWorkers batches are
\* held in memory (backfill.rs:403, 406, 473, 498).
THEOREM MemoryBounded == Spec => []MemoryBound
<1>1. ASSUME BackfillInv PROVE MemoryBound
  <2>1. In(Running \cup {"queued"} \cup Children)
          = (In(Running) \cup In({"queued"})) \cup In(Children)
    BY DEF In
  <2>2. \A S : IsFiniteSet(In(S)) /\ Count(S) \in Nat
    BY InFinite
  <2>3. \A S, T : IsFiniteSet(S) /\ IsFiniteSet(T)
           => /\ IsFiniteSet(S \cup T) /\ Cardinality(S \cup T) \in Nat
              /\ Cardinality(S \cup T) <= Cardinality(S) + Cardinality(T)
    <3>1. SUFFICES ASSUME NEW S, NEW T, IsFiniteSet(S), IsFiniteSet(T)
                   PROVE  /\ IsFiniteSet(S \cup T) /\ Cardinality(S \cup T) \in Nat
                          /\ Cardinality(S \cup T) <= Cardinality(S) + Cardinality(T)
      OBVIOUS
    <3>2. IsFiniteSet(S \cup T) /\ IsFiniteSet(S \cap T)
      BY <3>1, FS_Union, FS_Intersection
    <3>3. Cardinality(S \cup T) = Cardinality(S) + Cardinality(T) - Cardinality(S \cap T)
      BY <3>1, FS_Union
    <3>4. /\ Cardinality(S \cup T) \in Nat /\ Cardinality(S \cap T) \in Nat
          /\ Cardinality(S) \in Nat /\ Cardinality(T) \in Nat
      BY <3>1, <3>2, FS_CardinalityType
    <3> QED BY <3>2, <3>3, <3>4
  <2>4. Count(Running \cup {"queued"} \cup Children)
          <= Count(Running) + Count({"queued"}) + Count(Children)
    <3> DEFINE A == In(Running)
               B == In({"queued"})
               C == In(Children)
    <3>1. IsFiniteSet(A) /\ IsFiniteSet(B) /\ IsFiniteSet(C)
      BY <2>2
    <3>2. /\ Cardinality(A) \in Nat /\ Cardinality(B) \in Nat /\ Cardinality(C) \in Nat
      BY <2>2 DEF Count
    <3> HIDE DEF A, B, C
    <3>3. IsFiniteSet(A \cup B) /\ Cardinality(A \cup B) \in Nat
          /\ Cardinality(A \cup B) <= Cardinality(A) + Cardinality(B)
      BY <2>3, <3>1
    <3>4. Cardinality((A \cup B) \cup C) <= Cardinality(A \cup B) + Cardinality(C)
          /\ Cardinality((A \cup B) \cup C) \in Nat
      BY <2>3, <3>1, <3>3
    <3>5. Cardinality((A \cup B) \cup C) <= Cardinality(A) + Cardinality(B) + Cardinality(C)
      BY <3>2, <3>3, <3>4
    <3> QED BY <2>1, <3>5 DEF A, B, C, Count
  <2>5. Count(Running \cup {"queued"} \cup Children) \in Nat
    BY <2>2
  <2> QED BY <1>1, <2>2, <2>4, <2>5, Numbers DEF BackfillInv, Limits, MemoryBound
<1> QED BY <1>1, BackfillInitInv, BackfillStepInv, PTL DEF Spec

\* When the migration starts no batch is under way, and no more are missing than failures
\* were logged (backfill.rs, from drop(tx) to migrate_staging_to_swaps).
THEOREM NothingLeftUnderWay == Spec => []NothingUnderWay
<1>1. ASSUME BackfillInv PROVE NothingUnderWay
  <2> SUFFICES ASSUME main \in {"migrate", "rebuild", "done"}
               PROVE  /\ In(Unfetched \cup {"queued"} \cup Children) = {}
                      /\ Cardinality(Jobs \ (staged \cup stored)) <= errors + unflushed
    BY DEF NothingUnderWay
  <2> USE <1>1 DEF BackfillInv
  <2>1. In(Unfetched) = {} /\ In({"queued"}) = {} /\ In(Children) = {}
    BY DEF Drained
  <2>2. In(Unfetched \cup {"queued"} \cup Children) = {}
    BY <2>1 DEF In
  <2>3. Jobs \ (staged \cup stored) \subseteq In({"failed"})
    <3>1. ASSUME NEW j \in Jobs \ (staged \cup stored) PROVE phase[j] = "failed"
      <4>1. phase[j] \in Phases
        BY DEF TypeOK, Phases
      <4>2. phase[j] # "done"
        BY DEF Kept, In
      <4>3. phase[j] \notin Unfetched \cup {"queued"} \cup Children
        BY <2>2 DEF In
      <4> QED BY <4>1, <4>2, <4>3 DEF Phases, Unfetched, Running, Children
    <3> QED BY <3>1 DEF In
  <2>4. Cardinality(Jobs \ (staged \cup stored)) <= Count({"failed"})
    BY <2>3, InFinite, FS_Subset DEF Count
  <2>5. /\ Count({"failed"}) \in Nat /\ errors \in Nat /\ unflushed \in Nat
        /\ Cardinality(Jobs \ (staged \cup stored)) \in Nat
    BY <2>3, InFinite, FS_Subset, FS_CardinalityType, Numbers DEF TypeOK
  <2> QED BY <2>2, <2>4, <2>5 DEF Failures
<1> QED BY <1>1, BackfillInitInv, BackfillStepInv, PTL DEF Spec

\* A completed run has stored every batch it did not log as failed, whatever earlier runs
\* left behind (backfill.rs migrate_staging_to_swaps).
THEOREM CompletedRunStored == Spec => []CompleteRun
<1>1. BackfillInv => CompleteRun
  BY DEF BackfillInv, Kept, CompleteRun
<1> QED BY <1>1, BackfillInitInv, BackfillStepInv, PTL DEF Spec

-----------------------------------------------------------------------------
(***************************************************************************)
(* What a batch makes of its logs (module BatchRows), for every range,     *)
(* batch size, headers, order of the batches and failures.                 *)
(***************************************************************************)

\* Headers whose neighbours are in order are in order.
LEMMA OrderFromNeighbours ==
    ASSUME NEW n \in Nat, NEW t \in [0..n -> Nat], \A b \in 1..n : t[b - 1] <= t[b]
    PROVE  \A a, b \in 0..n : a <= b => t[a] <= t[b]
<1> DEFINE S == {k \in Nat : \E a \in 0..n : a + k \in 0..n /\ t[a + k] < t[a]}
<1>1. S = {}
  <2> SUFFICES ASSUME S # {} PROVE FALSE
    OBVIOUS
  <2>1. PICK m \in S : \A k \in S : m <= k
    BY NatMin
  <2>2. PICK a \in 0..n : a + m \in 0..n /\ t[a + m] < t[a]
    OBVIOUS
  <2>3. m \in Nat /\ m # 0
    BY <2>2
  <2>4. m - 1 \in Nat /\ m - 1 \notin S /\ a + (m - 1) \in 0..n
    <3>1. m - 1 \in Nat /\ a + (m - 1) \in 0..n
      BY <2>2, <2>3
    <3> HIDE DEF S
    <3> QED BY <2>1, <2>3, <3>1
  <2>5. t[a + (m - 1)] \in Nat /\ t[a] \in Nat /\ t[a + m] \in Nat
    BY <2>2, <2>4
  <2>6. t[a + (m - 1)] >= t[a]
    BY <2>4, <2>5
  <2>7. a + m \in 1..n /\ (a + m) - 1 = a + (m - 1)
    BY <2>2, <2>3
  <2>8. t[(a + m) - 1] <= t[a + m]
    BY <2>7, Zenon
  <2>9. t[a + (m - 1)] <= t[a + m]
    <3> DEFINE c == a + m
               e == a + (m - 1)
    <3>1. t[c - 1] <= t[c] /\ c - 1 = e
      BY <2>7, <2>8
    <3> HIDE DEF c, e
    <3>2. t[e] <= t[c]
      BY <3>1
    <3> QED BY <3>2 DEF c, e
  <2>10. t[a + m] < t[a]
    BY <2>2
  <2> DEFINE x == t[a]
             y == t[a + (m - 1)]
             z == t[a + m]
  <2>11. x \in Nat /\ y \in Nat /\ z \in Nat /\ y >= x /\ y <= z /\ z < x
    BY <2>5, <2>6, <2>9, <2>10, Zenon
  <2> HIDE DEF x, y, z
  <2> QED BY <2>11
<1>2. ASSUME NEW a \in 0..n, NEW b \in 0..n, a <= b PROVE t[a] <= t[b]
  <2>1. b - a \in Nat /\ a + (b - a) = b
    BY <1>2
  <2>2. ~ (t[a + (b - a)] < t[a])
    BY <1>1, <2>1
  <2> QED BY <2>1, <2>2
<1> QED BY <1>2

\* A time of block b of a batch f..l whose ends have times s and t.
Between(x, b, f, l, s, t) == x \in s..t /\ (f < l /\ b = l => x = t) /\ (b = f => x = s)

\* The time of a log is between the two headers, grows with the block, and is the second
\* header's at the last block.
LEMMA Interpolated ==
    ASSUME NEW f \in Nat, NEW l \in Nat, NEW s \in Nat, NEW t \in Nat, f <= l, s <= t,
           NEW b \in f..l
    PROVE  /\ Between(InterpolateLogTs(b, f, l, s, t), b, f, l, s, t)
           /\ \A c \in f..l : b <= c =>
                 InterpolateLogTs(b, f, l, s, t) <= InterpolateLogTs(c, f, l, s, t)
<1> DEFINE d == Max({l - f, 1})
           w == t - s
           N(c) == (c - f) * w
<1>1. d \in Nat \ {0} /\ w \in Nat /\ l - f <= d /\ (f < l => d = l - f)
  BY MaxOfTwo
<1>2. \A c \in f..l : InterpolateLogTs(c, f, l, s, t) = s + N(c) \div d
  BY DEF InterpolateLogTs
<1> HIDE DEF d, w
<1>3. ASSUME NEW c \in f..l
      PROVE  N(c) \in Nat /\ N(c) \div d \in Nat /\ N(c) \div d <= w
  <2>1. c - f \in Nat /\ c - f <= d
    BY <1>1
  <2>2. N(c) \in Nat /\ d * w \in Nat /\ N(c) <= d * w
    BY <1>1, <2>1, Products
  <2>3. N(c) \div d <= (d * w) \div d
    BY <1>1, <2>2, DivisionOrder
  <2>4. (d * w) \div d = w
    BY <1>1, DivisionExact
  <2>5. N(c) \div d \in Nat
    <3> HIDE DEF N
    <3> QED BY <1>1, <2>2, Division
  <2> QED BY <2>2, <2>3, <2>4, <2>5
<1>4. ASSUME NEW c \in f..l, b <= c PROVE N(b) \div d <= N(c) \div d
  <2>1. b - f \in Nat /\ c - f \in Nat /\ b - f <= c - f
    BY <1>4
  <2>2. N(b) <= N(c)
    BY <1>1, <2>1, Products
  <2> HIDE DEF N
  <2> QED BY <1>1, <1>3, <2>2, DivisionOrder
<1>5. f < l => N(l) \div d = w
  BY <1>1, DivisionExact
<1>6. N(f) \div d = 0
  <2>1. N(f) = 0
    BY <1>1
  <2>2. 0 = 0 * d + 0
    BY <1>1
  <2>3. 0 \div d = 0
    BY <1>1, <2>2, DivisionUnique
  <2> HIDE DEF N
  <2> QED BY <2>1, <2>3
<1>7. /\ InterpolateLogTs(b, f, l, s, t) \in Nat
      /\ s <= InterpolateLogTs(b, f, l, s, t) /\ InterpolateLogTs(b, f, l, s, t) <= t
  <2> HIDE DEF N
  <2>1. InterpolateLogTs(b, f, l, s, t) = s + N(b) \div d /\ N(b) \div d \in Nat /\ N(b) \div d <= w
    BY <1>2, <1>3
  <2> QED BY <2>1 DEF w
<1>8. f < l => InterpolateLogTs(l, f, l, s, t) = t
  <2> HIDE DEF N
  <2>1. InterpolateLogTs(l, f, l, s, t) = s + N(l) \div d
    BY <1>2
  <2> QED BY <1>5, <2>1 DEF w
<1>9. InterpolateLogTs(f, f, l, s, t) = s
  <2> HIDE DEF N
  <2>1. InterpolateLogTs(f, f, l, s, t) = s + N(f) \div d
    BY <1>2
  <2> QED BY <1>6, <2>1
<1>10. ASSUME NEW c \in f..l, b <= c
       PROVE  InterpolateLogTs(b, f, l, s, t) <= InterpolateLogTs(c, f, l, s, t)
  <2> HIDE DEF N
  <2>1. /\ InterpolateLogTs(b, f, l, s, t) = s + N(b) \div d /\ N(b) \div d \in Nat
        /\ InterpolateLogTs(c, f, l, s, t) = s + N(c) \div d /\ N(c) \div d \in Nat
    BY <1>2, <1>3
  <2> QED BY <1>4, <1>10, <2>1
<1>11. Between(InterpolateLogTs(b, f, l, s, t), b, f, l, s, t)
  BY <1>7, <1>8, <1>9 DEF Between
<1> QED BY <1>10, <1>11
-----------------------------------------------------------------------------
\* What the initial state fixes for good.
Grid ==
    /\ toBlock = LastBlock + 1 /\ batchSize \in BatchSizes
    /\ headTime \in [BlockNumber -> Time]
    /\ \A a, b \in BlockNumber : a <= b => headTime[a] <= headTime[b]
    /\ priceLogs \in SUBSET BlockNumber

First == FirstBlocks(toBlock, batchSize)

\* The row that batch f makes of block b.
RowOf(f, heads, price, b) ==
    [block |-> b, batch |-> f,
     at |-> InterpolateLogTs(b, f, LastOfBatch(f), FromTime(f, heads), ToTime(f, heads)),
     heads |-> heads, price |-> price]

RowsOfBatches ==
    \A r \in batchRows :
        /\ r.batch \in First \ waiting /\ r.block \in BlocksOfBatch(r.batch)
        /\ r.heads \subseteq {r.batch, LastOfBatch(r.batch)}
        /\ r = RowOf(r.batch, r.heads, r.price, r.block)

\* A batch is processed once: its rows have the same headers and the same price.
OneAnswer ==
    \A r, s \in batchRows : r.batch = s.batch => r.heads = s.heads /\ r.price = s.price

Processed ==
    /\ waiting \subseteq First
    /\ \A f \in First \ waiting :
          f \in givenUp \/ \A b \in BlocksOfBatch(f) : \E r \in batchRows : r.block = b

\* A price in the cache is of a batch that used it for itself.
PriceUsed ==
    \/ bnbCache = NoPrice
    \/ \E s \in batchRows : s.block = bnbCache /\ s.price = s.block

BatchInv == Grid /\ RowsOfBatches /\ OneAnswer /\ Processed /\ PriceUsed /\ PricedInBatch

LEMMA GridFacts ==
    ASSUME Grid
    PROVE  /\ LastBlock \in Nat /\ batchSize \in Nat \ {0} /\ toBlock = LastBlock + 1
           /\ BlockNumber = 0..LastBlock /\ First = {f \in 0..LastBlock : f % batchSize = 0}
  BY BatchAssumption DEF Grid, BatchAssumption, BlockNumber, First, FirstBlocks

\* The bounds of a batch.
LEMMA BatchBounds ==
    ASSUME Grid, NEW f \in First
    PROVE  /\ f \in 0..LastBlock /\ LastOfBatch(f) \in f..LastBlock
           /\ LastOfBatch(f) <= f + batchSize - 1
           /\ LastOfBatch(f) = LastBlock \/ LastOfBatch(f) = f + batchSize - 1
<1> DEFINE n == batchSize
<1>1. f \in 0..LastBlock /\ n \in Nat \ {0} /\ LastBlock \in Nat /\ toBlock = LastBlock + 1
  BY GridFacts
<1> DEFINE u == Min({f + n, toBlock})
<1>2. u = IF f + n <= toBlock THEN f + n ELSE toBlock
  BY <1>1, MinOfTwo
<1> HIDE DEF u
<1>3. Max({u - 1, f}) = IF u - 1 >= f THEN u - 1 ELSE f
  BY <1>1, <1>2, MaxOfTwo
<1>4. LastOfBatch(f) = Max({u - 1, f})
  BY DEF LastOfBatch, u
<1> QED BY <1>1, <1>2, <1>3, <1>4

\* Of two batches one ends before the other begins.
LEMMA BatchesApart ==
    ASSUME Grid, NEW f \in First, NEW g \in First, f < g
    PROVE  LastOfBatch(f) < g
<1> DEFINE n == batchSize
           i == f \div n
           j == g \div n
<1>1. n \in Nat \ {0} /\ f \in Nat /\ g \in Nat /\ f % n = 0 /\ g % n = 0
  BY GridFacts
<1>2. f = i * n + (f % n) /\ i \in Nat
  BY <1>1, Division
<1>3. g = j * n + (g % n) /\ j \in Nat
  BY <1>1, Division
<1>4. LastOfBatch(f) <= f + n - 1 /\ LastOfBatch(f) \in Int
  BY BatchBounds, GridFacts
<1> HIDE DEF i, j, n
<1>5. ASSUME i >= j PROVE FALSE
  <2>1. j * n <= i * n
    BY <1>1, <1>2, <1>3, <1>5, Products
  <2> QED BY <1>1, <1>2, <1>3, <2>1
<1>6. j >= i + 1
  BY <1>2, <1>3, <1>5
<1>7. j * n >= i * n + n
  BY <1>1, <1>2, <1>3, <1>6, NextMultiple
<1>8. g >= f + n
  BY <1>1, <1>2, <1>3, <1>7
<1> QED BY <1>1, <1>4, <1>8

LEMMA OneBatch ==
    ASSUME Grid, NEW f \in First, NEW g \in First, NEW b,
           b \in BlocksOfBatch(f), b \in BlocksOfBatch(g)
    PROVE  f = g
<1>1. /\ f \in Nat /\ LastOfBatch(f) \in Nat
      /\ g \in Nat /\ LastOfBatch(g) \in Nat
  BY BatchBounds, GridFacts
<1>2. b \in f..LastOfBatch(f) /\ b \in g..LastOfBatch(g)
  BY DEF BlocksOfBatch
<1>3. ~ (f < g) /\ ~ (g < f)
  BY <1>1, <1>2, BatchesApart
<1> QED BY <1>1, <1>3

\* Each block of the run is in a batch.
LEMMA SomeBatch ==
    ASSUME Grid, NEW b \in 0..LastBlock
    PROVE  \E f \in First : b \in BlocksOfBatch(f)
<1> DEFINE n == batchSize
           q == b \div n
           r == b % n
           f == b - r
<1>1. n \in Nat \ {0} /\ b \in Nat /\ LastBlock \in Nat
  BY GridFacts
<1>2. b = q * n + r /\ r \in 0..(n - 1) /\ q \in Nat
  BY <1>1, Division
<1>3. f = q * n + 0 /\ f \in Nat
  <2>1. q * n \in Nat
    <3> HIDE DEF q
    <3> QED BY <1>1, <1>2
  <2> HIDE DEF q, r
  <2> QED BY <1>1, <1>2, <2>1
<1>4. f % n = 0
  <2>1. 0 \in 0..(n - 1) /\ q \in Int
    BY <1>1, <1>2
  <2> HIDE DEF q, f, n
  <2> QED BY <1>1, <1>3, <2>1, DivisionUnique
<1>5. f \in 0..LastBlock /\ f <= b /\ b <= f + n - 1
  <2> HIDE DEF q
  <2> QED BY <1>1, <1>2, <1>3
<1>6. f \in First
  BY <1>4, <1>5, GridFacts
<1> HIDE DEF q, f, r, n
<1>7. /\ LastOfBatch(f) \in f..LastBlock
      /\ LastOfBatch(f) = LastBlock \/ LastOfBatch(f) = f + n - 1
  BY <1>6, BatchBounds DEF n
<1>8. b \in BlocksOfBatch(f)
  BY <1>1, <1>5, <1>7 DEF BlocksOfBatch
<1> QED BY <1>6, <1>8

\* The times that a batch interpolates between.
LEMMA EndTimes ==
    ASSUME Grid, NEW f \in First, NEW heads, f \in heads
    PROVE  /\ FromTime(f, heads) = headTime[f] /\ headTime[f] \in Nat
           /\ ToTime(f, heads) \in Nat /\ headTime[LastOfBatch(f)] \in Nat
           /\ FromTime(f, heads) <= ToTime(f, heads)
           /\ ToTime(f, heads) <= headTime[LastOfBatch(f)]
           /\ LastOfBatch(f) \in heads => ToTime(f, heads) = headTime[LastOfBatch(f)]
<1>1. f \in BlockNumber /\ LastOfBatch(f) \in BlockNumber /\ f <= LastOfBatch(f)
  BY BatchBounds, GridFacts
<1>2. headTime[f] \in Nat /\ headTime[LastOfBatch(f)] \in Nat
  BY <1>1, BatchAssumption DEF Grid, Time, BatchAssumption
<1>3. headTime[f] <= headTime[LastOfBatch(f)]
  BY <1>1 DEF Grid
<1> QED BY <1>1, <1>2, <1>3 DEF FromTime, ToTime

-----------------------------------------------------------------------------
LEMMA BatchInitInv == BatchInit => BatchInv
<1> SUFFICES ASSUME BatchInit PROVE BatchInv
  OBVIOUS
<1>1. /\ headTime \in [BlockNumber -> Time]
      /\ \A b \in 1..LastBlock : headTime[b - 1] <= headTime[b]
      /\ priceLogs \in SUBSET BlockNumber
      /\ toBlock = LastBlock + 1 /\ batchSize \in BatchSizes
      /\ waiting = First /\ bnbCache = NoPrice /\ batchRows = {} /\ givenUp = {}
  BY DEF BatchInit, First
<1>2. \A a, b \in BlockNumber : a <= b => headTime[a] <= headTime[b]
  <2>1. headTime \in [0..LastBlock -> Nat] /\ LastBlock \in Nat
    BY <1>1, BatchAssumption DEF BatchAssumption, BlockNumber, Time
  <2> QED BY <1>1, <2>1, OrderFromNeighbours DEF BlockNumber
<1>3. Grid
  BY <1>1, <1>2 DEF Grid
<1> QED BY <1>1, <1>3
      DEF BatchInv, RowsOfBatches, OneAnswer, Processed, PriceUsed, PricedInBatch

\* The grid stands still, and so does all that is computed from it.
LEMMA GridKeeps ==
    ASSUME Grid, UNCHANGED <<headTime, priceLogs, toBlock, batchSize>>
    PROVE  /\ Grid' /\ First' = First
           /\ \A f : LastOfBatch(f)' = LastOfBatch(f)
           /\ \A f : BlocksOfBatch(f)' = BlocksOfBatch(f)
           /\ \A f, heads, price, b : RowOf(f, heads, price, b)' = RowOf(f, heads, price, b)
  BY DEF Grid, First, LastOfBatch, BlocksOfBatch, RowOf, FromTime, ToTime

LEMMA FetchOneBatchKeeps ==
    ASSUME BatchInv, NEW f \in waiting, NEW heads \in SUBSET {f, LastOfBatch(f)},
           FetchOneBatch(f, heads)
    PROVE  BatchInv'
<1> USE DEF BatchInv
<1> DEFINE made == {RowOf(f, heads, bnbCache', b) : b \in BlocksOfBatch(f)}
           own == priceLogs \cap BlocksOfBatch(f)
<1>1. /\ UNCHANGED <<headTime, priceLogs, toBlock, batchSize, givenUp>>
      /\ waiting' = waiting \ {f} /\ SetPrice(f)
  BY DEF FetchOneBatch
<1>2. batchRows' = batchRows \cup made
  BY DEF FetchOneBatch, PriceOfBatch, RowOf
<1>3. /\ Grid' /\ First' = First
      /\ \A g : LastOfBatch(g)' = LastOfBatch(g)
      /\ \A g : BlocksOfBatch(g)' = BlocksOfBatch(g)
      /\ \A g, hs, p, b : RowOf(g, hs, p, b)' = RowOf(g, hs, p, b)
  BY <1>1, GridKeeps
<1>4. f \in First
  BY DEF Processed
<1>5. \A r \in made : /\ r.batch = f /\ r.heads = heads /\ r.price = bnbCache'
                      /\ r.block \in BlocksOfBatch(f) /\ r = RowOf(f, heads, bnbCache', r.block)
  BY DEF RowOf
<1>6. \A b \in BlocksOfBatch(f) : \E r \in made : r.block = b
  <2> SUFFICES ASSUME NEW b \in BlocksOfBatch(f) PROVE \E r \in made : r.block = b
    OBVIOUS
  <2>1. RowOf(f, heads, bnbCache', b) \in made /\ RowOf(f, heads, bnbCache', b).block = b
    BY DEF RowOf
  <2> QED BY <2>1
<1> HIDE DEF made
<1>7. \A r \in batchRows : r.batch \in First \ waiting /\ r.batch # f
  BY DEF RowsOfBatches
<1>8. RowsOfBatches'
  <2> SUFFICES ASSUME NEW r \in batchRows'
               PROVE  /\ r.batch \in First \ waiting' /\ r.block \in BlocksOfBatch(r.batch)
                      /\ r.heads \subseteq {r.batch, LastOfBatch(r.batch)}
                      /\ r = RowOf(r.batch, r.heads, r.price, r.block)
    BY <1>3 DEF RowsOfBatches
  <2>1. CASE r \in batchRows
    BY <1>1, <2>1 DEF RowsOfBatches
  <2>2. CASE r \in made
    BY <1>1, <1>4, <1>5, <2>2
  <2> QED BY <1>2, <2>1, <2>2
<1>9. OneAnswer'
  BY <1>2, <1>5, <1>7 DEF OneAnswer
<1>10. Processed'
  <2>1. waiting' \subseteq First'
    BY <1>1, <1>3 DEF Processed
  <2>2. ASSUME NEW g \in First \ waiting'
        PROVE  g \in givenUp \/ \A b \in BlocksOfBatch(g) : \E r \in batchRows' : r.block = b
    BY <1>1, <1>2, <1>6 DEF Processed
  <2> QED BY <1>1, <1>3, <2>1, <2>2 DEF Processed
<1>11. own # {} => bnbCache' \in own /\ \A b \in own : b <= bnbCache'
  <2> SUFFICES ASSUME own # {} PROVE bnbCache' \in own /\ \A b \in own : b <= bnbCache'
    OBVIOUS
  <2>1. own \in SUBSET (0..LastBlock) /\ LastBlock \in Nat
    BY GridFacts DEF Grid
  <2>2. bnbCache' = Max(own)
    BY <1>1 DEF SetPrice
  <2> QED BY <2>1, <2>2, MaxOfSet
<1>12. own = {} => bnbCache' = bnbCache
  BY <1>1 DEF SetPrice
<1>13. PriceUsed'
  <2>1. CASE own = {}
    BY <1>2, <1>12, <2>1 DEF PriceUsed
  <2>2. CASE own # {}
    <3>1. PICK r \in made : r.block = bnbCache'
      BY <1>6, <1>11, <2>2
    <3> QED BY <1>2, <1>5, <3>1 DEF PriceUsed
  <2> QED BY <2>1, <2>2
<1>14. PricedInBatch'
  <2> SUFFICES ASSUME NEW r \in batchRows'
               PROVE  LET mine == priceLogs \cap BlocksOfBatch(r.batch)
                      IN  IF mine # {} THEN r.price \in mine /\ \A b \in mine : b <= r.price
                          ELSE \/ r.price = NoPrice
                               \/ \E s \in batchRows' : s.block = r.price /\ s.price = s.block
    BY <1>1, <1>3 DEF PricedInBatch
  <2>1. CASE r \in batchRows
    BY <1>2, <2>1 DEF PricedInBatch
  <2>2. CASE r \in made
    <3>1. r.batch = f /\ r.price = bnbCache'
      BY <1>5, <2>2
    <3>2. bnbCache' = NoPrice \/ \E s \in batchRows' : s.block = bnbCache' /\ s.price = s.block
      BY <1>13 DEF PriceUsed
    <3> QED BY <1>11, <3>1, <3>2
  <2> QED BY <1>2, <2>1, <2>2
<1> QED BY <1>3, <1>8, <1>9, <1>10, <1>13, <1>14

LEMMA FetchOneBatchFailsKeeps ==
    ASSUME BatchInv, NEW f \in waiting, FetchOneBatchFails(f) PROVE BatchInv'
<1> USE DEF BatchInv
<1>1. /\ UNCHANGED <<headTime, priceLogs, toBlock, batchSize, bnbCache, batchRows>>
      /\ waiting' = waiting \ {f} /\ givenUp' = givenUp \cup {f}
  BY DEF FetchOneBatchFails
<1>2. /\ Grid' /\ First' = First
      /\ \A g : LastOfBatch(g)' = LastOfBatch(g)
      /\ \A g : BlocksOfBatch(g)' = BlocksOfBatch(g)
      /\ \A g, hs, p, b : RowOf(g, hs, p, b)' = RowOf(g, hs, p, b)
  BY <1>1, GridKeeps
<1>3. RowsOfBatches'
  BY <1>1, <1>2 DEF RowsOfBatches
<1>4. Processed'
  BY <1>1, <1>2 DEF Processed
<1> QED BY <1>1, <1>2, <1>3, <1>4 DEF OneAnswer, PriceUsed, PricedInBatch

LEMMA BatchStepInv == BatchInv /\ [BatchNext]_batchVars => BatchInv'
<1> SUFFICES ASSUME BatchInv, [BatchNext]_batchVars PROVE BatchInv'
  OBVIOUS
<1>1. CASE BatchNext
  BY <1>1, FetchOneBatchKeeps, FetchOneBatchFailsKeeps DEF BatchNext
<1>2. CASE UNCHANGED batchVars
  <2>1. UNCHANGED <<headTime, priceLogs, toBlock, batchSize, waiting, bnbCache, batchRows, givenUp>>
    BY <1>2 DEF batchVars
  <2>2. /\ Grid' /\ First' = First
        /\ \A g : LastOfBatch(g)' = LastOfBatch(g)
        /\ \A g : BlocksOfBatch(g)' = BlocksOfBatch(g)
        /\ \A g, hs, p, b : RowOf(g, hs, p, b)' = RowOf(g, hs, p, b)
    BY <2>1, GridKeeps DEF BatchInv
  <2>3. RowsOfBatches'
    BY <2>1, <2>2 DEF RowsOfBatches, BatchInv
  <2> QED BY <2>1, <2>2, <2>3
        DEF BatchInv, OneAnswer, Processed, PriceUsed, PricedInBatch
<1> QED BY <1>1, <1>2

LEMMA BatchInvHolds == BatchSpec => []BatchInv
<1> QED BY BatchInitInv, BatchStepInv, PTL DEF BatchSpec

-----------------------------------------------------------------------------
\* For every run of blocks, batch size, headers, order of the batches and failures, a row of
\* a batch with its first header is within the times of its batch and in the order of the
\* chain, no block has two rows, and in the end each block has one or its batch failed.
THEOREM RowsKeepOrder == BatchSpec => []RowsInOrder
<1>1. BatchInv => RowsInOrder
  <2> SUFFICES ASSUME BatchInv PROVE RowsInOrder
    OBVIOUS
  <2> USE DEF BatchInv
  <2> DEFINE sighted == {r \in batchRows : r.batch \in r.heads}
             Within(r) ==
                /\ headTime[r.batch] <= r.at /\ r.at <= headTime[LastOfBatch(r.batch)]
                /\ LastOfBatch(r.batch) \in r.heads /\ r.block = LastOfBatch(r.batch) =>
                      r.at = headTime[r.block]
  <2>1. ASSUME NEW r \in sighted
        PROVE  /\ r.batch \in First /\ r.batch \in Nat /\ LastOfBatch(r.batch) \in Nat
               /\ r.batch <= LastOfBatch(r.batch) /\ r.block \in r.batch..LastOfBatch(r.batch)
               /\ r.at = InterpolateLogTs(r.block, r.batch, LastOfBatch(r.batch),
                                          FromTime(r.batch, r.heads), ToTime(r.batch, r.heads))
               /\ FromTime(r.batch, r.heads) = headTime[r.batch] /\ headTime[r.batch] \in Nat
               /\ ToTime(r.batch, r.heads) \in Nat /\ headTime[LastOfBatch(r.batch)] \in Nat
               /\ FromTime(r.batch, r.heads) <= ToTime(r.batch, r.heads)
               /\ ToTime(r.batch, r.heads) <= headTime[LastOfBatch(r.batch)]
               /\ LastOfBatch(r.batch) \in r.heads =>
                     ToTime(r.batch, r.heads) = headTime[LastOfBatch(r.batch)]
    <3>1. r \in batchRows /\ r.batch \in r.heads
      BY <2>1
    <3>2. /\ r.batch \in First /\ r.block \in BlocksOfBatch(r.batch)
          /\ r = RowOf(r.batch, r.heads, r.price, r.block)
      BY <3>1 DEF RowsOfBatches
    <3>3. r.at = RowOf(r.batch, r.heads, r.price, r.block).at
      BY <3>2
    <3>4. r.at = InterpolateLogTs(r.block, r.batch, LastOfBatch(r.batch),
                                  FromTime(r.batch, r.heads), ToTime(r.batch, r.heads))
      BY <3>3 DEF RowOf
    <3>5. r.batch \in Nat /\ LastOfBatch(r.batch) \in Nat /\ r.batch <= LastOfBatch(r.batch)
      BY <3>2, BatchBounds, GridFacts
    <3> QED BY <3>1, <3>2, <3>4, <3>5, EndTimes DEF BlocksOfBatch
  <2>2. ASSUME NEW r \in sighted PROVE Within(r) /\ r.at \in Nat
    <3>1. /\ r.at \in FromTime(r.batch, r.heads)..ToTime(r.batch, r.heads)
          /\ r.batch < LastOfBatch(r.batch) /\ r.block = LastOfBatch(r.batch) =>
                r.at = ToTime(r.batch, r.heads)
          /\ r.block = r.batch => r.at = FromTime(r.batch, r.heads)
      <4> DEFINE f == r.batch
                 l == LastOfBatch(f)
                 u == FromTime(f, r.heads)
                 v == ToTime(f, r.heads)
                 b == r.block
      <4>1. /\ f \in Nat /\ l \in Nat /\ u \in Nat /\ v \in Nat /\ f <= l /\ u <= v
            /\ b \in f..l /\ r.at = InterpolateLogTs(b, f, l, u, v)
        BY <2>1
      <4> HIDE DEF f, l, u, v, b
      <4>2. Between(InterpolateLogTs(b, f, l, u, v), b, f, l, u, v)
        BY <4>1, Interpolated, ZenonT(30)
      <4>3. r.at \in u..v /\ (f < l /\ b = l => r.at = v) /\ (b = f => r.at = u)
        BY <4>1, <4>2 DEF Between
      <4> QED BY <4>3 DEF f, l, u, v, b
    <3> QED BY <2>1, <3>1
  <2>3. ASSUME NEW r \in sighted, NEW s \in sighted, r.block <= s.block PROVE r.at <= s.at
    <3>1. CASE r.batch = s.batch
      <4>1. r.heads = s.heads
        BY <3>1 DEF OneAnswer
      <4> DEFINE f == r.batch
                 l == LastOfBatch(f)
                 u == FromTime(f, r.heads)
                 v == ToTime(f, r.heads)
      <4>2. /\ f \in Nat /\ l \in Nat /\ u \in Nat /\ v \in Nat /\ f <= l /\ u <= v
            /\ r.block \in f..l /\ r.at = InterpolateLogTs(r.block, f, l, u, v)
        BY <2>1
      <4>3. s.block \in f..l /\ s.at = InterpolateLogTs(s.block, f, l, u, v)
        <5>1. /\ s.block \in s.batch..LastOfBatch(s.batch)
              /\ s.at = InterpolateLogTs(s.block, s.batch, LastOfBatch(s.batch),
                                         FromTime(s.batch, s.heads), ToTime(s.batch, s.heads))
          BY <2>1
        <5> QED BY <3>1, <4>1, <5>1
      <4> HIDE DEF f, l, u, v
      <4>5. InterpolateLogTs(r.block, f, l, u, v) <= InterpolateLogTs(s.block, f, l, u, v)
        BY <2>3, <4>2, <4>3, Interpolated, ZenonT(30)
      <4> QED BY <4>2, <4>3, <4>5
    <3>2. CASE r.batch < s.batch
      <4>1. LastOfBatch(r.batch) < s.batch
        BY <2>1, <3>2, BatchesApart
      <4>2. LastOfBatch(r.batch) \in BlockNumber /\ s.batch \in BlockNumber
        BY <2>1, BatchBounds, GridFacts
      <4>3. headTime[LastOfBatch(r.batch)] <= headTime[s.batch]
        BY <2>1, <4>1, <4>2 DEF Grid
      <4> QED BY <2>1, <2>2, <4>3
    <3>3. CASE s.batch < r.batch
      <4>1. LastOfBatch(s.batch) < r.batch
        BY <2>1, <3>3, BatchesApart
      <4> QED BY <2>1, <2>3, <4>1
    <3> QED BY <2>1, <3>1, <3>2, <3>3
  <2>4. ASSUME NEW r \in batchRows, NEW s \in batchRows, r.block = s.block PROVE r = s
    <3>1. r.batch = s.batch
      BY <2>4, OneBatch DEF RowsOfBatches
    <3>2. r.heads = s.heads /\ r.price = s.price
      BY <3>1 DEF OneAnswer
    <3>3. /\ r = RowOf(r.batch, r.heads, r.price, r.block)
          /\ s = RowOf(s.batch, s.heads, s.price, s.block)
      BY DEF RowsOfBatches
    <3> QED BY <2>4, <3>1, <3>2, <3>3, Zenon
  <2>5. ASSUME waiting = {}, NEW b \in 0..(toBlock - 1)
        PROVE  \/ \E r \in batchRows : r.block = b
               \/ \E f \in givenUp : b \in BlocksOfBatch(f)
    <3>1. b \in 0..LastBlock
      BY GridFacts
    <3>2. PICK f \in First : b \in BlocksOfBatch(f)
      BY <3>1, SomeBatch
    <3> QED BY <2>5, <3>2 DEF Processed
  <2> QED BY <2>2, <2>3, <2>4, <2>5 DEF RowsInOrder
<1> QED BY <1>1, BatchInvHolds, PTL

\* For every run and every order of the batches, a swap has the last price of its own batch,
\* or if there is none the placeholder or one that a processed batch used for itself.
THEOREM BatchPricesOwn == BatchSpec => []PricedInBatch
<1>1. BatchInv => PricedInBatch
  BY DEF BatchInv
<1> QED BY <1>1, BatchInvHolds, PTL
=============================================================================
