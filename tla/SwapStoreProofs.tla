-------------------------- MODULE SwapStoreProofs --------------------------
(***************************************************************************)
(* Theorems about SwapStore: type correctness, the accounting between      *)
(* stored and counted swaps, the bound on double counting, and that no     *)
(* copied row is lost.                                                     *)
(***************************************************************************)
EXTENDS SwapStore, FiniteSetTheorems, TLAPS

\* The lock belongs to the one shard inside its transaction.
LockHeld == \A s \in Shards : pc[s] \in {"read", "commit"} <=> lock = s

Locked == TypeOK /\ LockHeld

LEMMA LockedInit == Init => Locked
<1>1. Init => TypeOK
  <2>1. SUFFICES ASSUME Init
                 PROVE  TypeOK
    OBVIOUS
  <2>2. /\ bucket \in [Row -> Nat]
        /\ pc \in [Shards -> {"off"}]
        /\ killed \in BOOLEAN
    BY <2>1 DEF Init
  <2>3. /\ deliveries \in 0 .. MaxDeliveries
        /\ abandoned \in 0 .. MaxAbandoned
        /\ runs \in 0 .. MaxRuns
    BY <2>1, SwapStoreAssumption DEF SwapStoreAssumption, Init
  <2>4. pc \in [Shards -> {"copy", "insert", "truncate", "lock", "read", "commit", "off"}]
    BY <2>2
  <2>5. QED
    BY <2>1, <2>2, <2>3, <2>4 DEF Init, TypeOK
<1>2. Init => LockHeld
  BY SwapStoreAssumption DEF SwapStoreAssumption, Init, LockHeld
<1>3. QED
  BY <1>1, <1>2 DEF Locked

\* Every step keeps the types and the ownership of the lock.
LEMMA LockedStep ==
  ASSUME Locked, [Next]_vars
  PROVE  Locked'
<1> USE SwapStoreAssumption DEF SwapStoreAssumption, Locked, TypeOK, LockHeld, tables,
        streamVars, shardVars, history, counters
<1>1. ASSUME NEW r \in Row, StoreSwap(r) \/ StoreSwapUnacknowledged(r)
      PROVE  Locked'
  BY <1>1 DEF StoreSwap, StoreSwapUnacknowledged, InsertSwap
<1>2. CASE AddToBucket
  BY <1>2 DEF AddToBucket
<1>3. ASSUME NEW o \in orphans, OrphanRuns(o)
      PROVE  Locked'
  <2>1. o[2] \in Row
    OBVIOUS
  <2>2. QED
    BY <1>3, <2>1 DEF OrphanRuns
<1>4. CASE AddToBucketFails
  <2>1. stream \in Row
    BY <1>4 DEF AddToBucketFails
  <2>2. CASE UNCHANGED <<orphans, abandoned>>
    BY <1>4, <2>1, <2>2 DEF AddToBucketFails
  <2>3. CASE /\ abandoned < MaxAbandoned
             /\ abandoned' = abandoned + 1
             /\ orphans' = orphans \cup {<<abandoned', stream>>}
             /\ UNCHANGED owed
    <3>1. abandoned' \in 0 .. MaxAbandoned
      BY <2>3
    <3>2. orphans \subseteq (1 .. abandoned') \X Row
      BY <2>3
    <3>3. <<abandoned', stream>> \in (1 .. abandoned') \X Row
      BY <2>1, <2>3
    <3>4. orphans' \subseteq (1 .. abandoned') \X Row
      BY <2>3, <3>2, <3>3
    <3>5. QED
      BY <1>4, <2>3, <3>1, <3>4 DEF AddToBucketFails
  <2>4. QED
    BY <1>4, <2>2, <2>3 DEF AddToBucketFails
<1>6. ASSUME NEW s \in Shards, NEW r \in Row, CopyRow(s, r)
      PROVE  Locked'
  BY <1>6 DEF CopyRow
<1>7. ASSUME NEW s \in Shards, ShardStep(s)
      PROVE  Locked'
  <2> USE DEF Goto
  <2>1. CASE StartMigrate(s)
    BY <2>1 DEF StartMigrate
  <2>2. CASE InsertStaged(s)
    BY <2>2 DEF InsertStaged, MoveToSwaps
  <2>3. CASE TruncateStaging(s)
    BY <2>3 DEF TruncateStaging
  <2>4. CASE SkipsRebuild(s)
    BY <2>4 DEF SkipsRebuild
  <2>5. CASE LockBuckets(s)
    BY <2>5 DEF LockBuckets
  <2>6. CASE ReadSwaps(s)
    BY <2>6 DEF ReadSwaps
  <2>7. CASE CommitRebuild(s)
    BY <2>7 DEF CommitRebuild, ReleaseLock
  <2>8. QED
    BY <1>7, <2>1, <2>2, <2>3, <2>4, <2>5, <2>6, <2>7 DEF ShardStep
<1>8. ASSUME NEW s \in Shards, Kill(s)
      PROVE  Locked'
  <2>1. lock' = IF lock = s THEN NoShard ELSE lock
    BY <1>8 DEF Kill, ReleaseLock
  <2>2. TypeOK'
    BY <1>8 DEF Kill, ReleaseLock, Goto
  <2>3. LockHeld'
    BY <1>8, <2>1 DEF Kill, Goto
  <2>4. QED
    BY <2>2, <2>3
<1>9. ASSUME NEW s \in Shards, Start(s)
      PROVE  Locked'
  BY <1>9 DEF Start, Goto
<1>10. ASSUME NEW rows \in SUBSET staging, MidMigrate(rows)
       PROVE  Locked'
  BY <1>10 DEF MidMigrate, MoveToSwaps
<1>11. CASE UNCHANGED vars
  BY <1>11 DEF vars
<1>12. QED
  BY <1>1, <1>2, <1>3, <1>4, <1>6, <1>7, <1>8, <1>9, <1>10, <1>11 DEF Next, StreamStep

\* Type correctness of the tables and of the processes that write them.
THEOREM TypeCorrect == Spec => []TypeOK
<1>1. Spec => []Locked
  BY LockedInit, LockedStep, PTL DEF Spec
<1>2. Locked => TypeOK
  BY DEF Locked
<1>3. QED
  BY <1>1, <1>2, PTL

-----------------------------------------------------------------------------
(***************************************************************************)
(* Accounting                                                              *)
(***************************************************************************)

\* Rows with two second statements in flight.
TwiceInFlight ==
    {r \in Row : \/ r = stream /\ \E o \in orphans : o[2] = r
                 \/ \E o, p \in orphans : o # p /\ o[2] = r /\ p[2] = r}

\* Only stored rows are counted or about to be.
OnlyStored ==
    /\ CountedIsStored
    /\ InFlight \subseteq swaps
    /\ snapshot \subseteq swaps
    /\ raced \subseteq swaps

\* What the committing rebuild did not see nobody has counted either.
UnseenIsPending ==
    \A s \in Shards : pc[s] = "commit" =>
        /\ \A r \in swaps \ snapshot : r \in InFlight \cup owed
        /\ raced \subseteq snapshot

\* A row that is or will be counted twice.
DoubleIsKnown ==
    /\ \A r \in Row : bucket[r] > 1 => r \in raced \cup repeated
    /\ \A r \in InFlight : bucket[r] > 0 => r \in raced \cup repeated
    /\ TwiceInFlight \subseteq raced \cup repeated

Accounting == Locked /\ OnlyStored /\ StoredIsCounted /\ UnseenIsPending /\ DoubleIsKnown

LEMMA AccountingInit == Init => Accounting
  BY LockedInit DEF Init, Accounting, OnlyStored, CountedIsStored, StoredIsCounted,
     UnseenIsPending, DoubleIsKnown, TwiceInFlight, InFlight

OfStream ==
    \/ \E r \in Row : StoreSwap(r) \/ StoreSwapUnacknowledged(r)
    \/ StreamStep
    \/ AddToBucketFails

OfShard(s) ==
    \/ Start(s)
    \/ \E r \in Row : CopyRow(s, r)
    \/ ShardStep(s)
    \/ Kill(s)

\* The statements of the stream keep the accounts.
LEMMA AccountingStream ==
  ASSUME Accounting, Locked', OfStream
  PROVE  Accounting'
<1> USE DEF Accounting, OnlyStored, CountedIsStored, StoredIsCounted, UnseenIsPending,
        DoubleIsKnown, TwiceInFlight, InFlight, tables, streamVars, shardVars, history,
        counters
<1> USE SwapStoreAssumption DEF SwapStoreAssumption
<1>1. ASSUME NEW r \in Row, StoreSwap(r)
      PROVE  Accounting'
  <2>1. /\ stream = NoRow /\ stream' = r /\ swaps' = swaps \cup {r}
        /\ repeated' = IF r \in swaps THEN repeated \cup {r} ELSE repeated
        /\ UNCHANGED <<staging, bucket, orphans, shardVars, copied, owed, raced>>
    BY <1>1 DEF StoreSwap, InsertSwap
  <2>2. InFlight' = InFlight \cup {r}
    BY <2>1
  <2>3. OnlyStored' /\ StoredIsCounted' /\ UnseenIsPending'
    BY <2>1, <2>2
  <2>4. DoubleIsKnown'
    BY <2>1, <2>2 DEF Locked, TypeOK
  <2>5. QED
    BY <2>3, <2>4
<1>2. ASSUME NEW r \in Row, StoreSwapUnacknowledged(r)
      PROVE  Accounting'
  BY <1>2 DEF StoreSwapUnacknowledged, InsertSwap
<1>3. CASE AddToBucket
  BY <1>3 DEF AddToBucket, Locked, TypeOK, LockHeld
<1>4. ASSUME NEW o \in orphans, OrphanRuns(o)
      PROVE  Accounting'
  BY <1>4 DEF OrphanRuns, Locked, TypeOK, LockHeld
<1>5. CASE AddToBucketFails
  <2>1. /\ stream \in Row /\ stream' = NoRow
        /\ UNCHANGED <<swaps, bucket, raced, repeated, pc, snapshot>>
    BY <1>5 DEF AddToBucketFails, Locked, TypeOK
  <2>2. ASSUME abandoned' = abandoned + 1
        PROVE  <<abandoned', stream>> \notin orphans
    <3>1. abandoned' \notin 1 .. abandoned
      BY <2>2 DEF Locked, TypeOK
    <3>2. QED
      BY <3>1 DEF Locked, TypeOK
  <2>3. CASE /\ abandoned' = abandoned + 1 /\ owed' = owed
             /\ orphans' = orphans \cup {<<abandoned', stream>>}
    <3>1. InFlight' = InFlight
      <4>1. stream # NoRow
        BY <2>1
      <4>2. {o[2] : o \in orphans'} = {o[2] : o \in orphans} \cup {stream}
        <5> DEFINE new == <<abandoned', stream>>
        <5>1. new[2] = stream
          OBVIOUS
        <5>2. orphans' = orphans \cup {new}
          BY <2>3
        <5> HIDE DEF new
        <5>3. QED
          BY <5>1, <5>2
      <4>3. QED
        BY <2>1, <4>1, <4>2
    <3>2. TwiceInFlight' = TwiceInFlight
      BY <2>1, <2>2, <2>3
    <3>3. OnlyStored' /\ StoredIsCounted' /\ UnseenIsPending'
      BY <2>1, <2>3, <3>1
    <3>4. DoubleIsKnown'
      <4> HIDE DEF InFlight, TwiceInFlight
      <4>1. QED
        BY <2>1, <3>1, <3>2
    <3>5. QED
      BY <3>3, <3>4
  <2>4. CASE owed' = owed \cup {stream} /\ orphans' = orphans
    BY <2>1, <2>4
  <2>5. QED
    BY <1>5, <2>3, <2>4 DEF AddToBucketFails
<1>6. QED
  BY <1>1, <1>2, <1>3, <1>4, <1>5 DEF OfStream, StreamStep

\* So do the backfill processes and mid_migrate.sh.
LEMMA AccountingShard ==
  ASSUME Accounting, Locked',
         \/ \E s \in Shards : OfShard(s)
         \/ \E rows \in SUBSET staging : MidMigrate(rows)
  PROVE  Accounting'
<1> USE SwapStoreAssumption DEF SwapStoreAssumption, Accounting, OnlyStored,
        CountedIsStored, StoredIsCounted, UnseenIsPending, DoubleIsKnown, TwiceInFlight,
        InFlight, tables, streamVars, shardVars, history, counters, Locked, TypeOK,
        LockHeld, Goto
<1>1. ASSUME NEW s \in Shards, NEW r \in Row, CopyRow(s, r)
      PROVE  Accounting'
  BY <1>1 DEF CopyRow
<1>2. ASSUME NEW s \in Shards, ShardStep(s)
      PROVE  Accounting'
  <2>1. CASE StartMigrate(s)
    BY <2>1 DEF StartMigrate
  <2>2. CASE InsertStaged(s)
    BY <2>2 DEF InsertStaged, MoveToSwaps
  <2>3. CASE TruncateStaging(s)
    BY <2>3 DEF TruncateStaging
  <2>4. CASE SkipsRebuild(s)
    BY <2>4 DEF SkipsRebuild
  <2>5. CASE LockBuckets(s)
    BY <2>5 DEF LockBuckets
  <2>6. CASE ReadSwaps(s)
    BY <2>6 DEF ReadSwaps
  <2>7. CASE CommitRebuild(s)
    <3>1. /\ pc[s] = "commit"
          /\ bucket' = [r \in Row |-> IF r \in snapshot THEN 1 ELSE 0]
          /\ owed' = owed \ snapshot
          /\ raced' = snapshot \cap InFlight
          /\ repeated' = repeated \ snapshot
          /\ snapshot' = {}
          /\ UNCHANGED <<swaps, stream, orphans>>
      BY <2>7 DEF CommitRebuild, ReleaseLock
    <3>2. \A q \in Shards : pc'[q] # "commit"
      BY <2>7 DEF CommitRebuild
    <3>3. OnlyStored' /\ UnseenIsPending'
      BY <3>1, <3>2
    <3>4. StoredIsCounted'
      BY <3>1
    <3>5. DoubleIsKnown'
      BY <3>1
    <3>6. QED
      BY <3>3, <3>4, <3>5
  <2>8. QED
    BY <1>2, <2>1, <2>2, <2>3, <2>4, <2>5, <2>6, <2>7 DEF ShardStep
<1>3. ASSUME NEW s \in Shards, Kill(s)
      PROVE  Accounting'
  BY <1>3 DEF Kill, ReleaseLock
<1>4. ASSUME NEW s \in Shards, Start(s)
      PROVE  Accounting'
  BY <1>4 DEF Start
<1>5. ASSUME NEW rows \in SUBSET staging, MidMigrate(rows)
      PROVE  Accounting'
  BY <1>5 DEF MidMigrate, MoveToSwaps
<1>6. QED
  BY <1>1, <1>2, <1>3, <1>4, <1>5 DEF OfShard

\* The accounts hold in every reachable state.
THEOREM AccountingCorrect == Spec => []Accounting
<1>1. Accounting /\ [Next]_vars => Accounting'
  <2>1. SUFFICES ASSUME Accounting, [Next]_vars
                 PROVE  Accounting'
    OBVIOUS
  <2>2. Locked'
    BY <2>1, LockedStep DEF Accounting
  <2>3. CASE UNCHANGED vars
    BY <2>1, <2>2, <2>3 DEF vars, tables, streamVars, shardVars, history, counters, Accounting,
       OnlyStored, CountedIsStored, StoredIsCounted, UnseenIsPending, DoubleIsKnown,
       TwiceInFlight, InFlight
  <2>4. CASE Next
    <3>1. \/ OfStream
          \/ \E s \in Shards : OfShard(s)
          \/ \E rows \in SUBSET staging : MidMigrate(rows)
      BY <2>4 DEF Next, OfStream, OfShard
    <3>2. QED
      BY <2>1, <2>2, <3>1, AccountingStream, AccountingShard
  <2>5. QED
    BY <2>1, <2>3, <2>4
<1>2. QED
  BY AccountingInit, <1>1, PTL DEF Spec

\* token_1min_stats never holds a swap that swaps does not.
THEOREM OnlyStoredIsCounted == Spec => []CountedIsStored
<1>1. Accounting => CountedIsStored
  BY DEF Accounting, OnlyStored
<1>2. QED
  BY AccountingCorrect, <1>1, PTL

\* A rebuild beside the stream never loses an addition.
THEOREM NothingUncounted == Spec => []StoredIsCounted
<1>1. Accounting => StoredIsCounted
  BY DEF Accounting
<1>2. QED
  BY AccountingCorrect, <1>1, PTL

-----------------------------------------------------------------------------
(***************************************************************************)
(* The bound on double counting                                            *)
(***************************************************************************)

\* Each lost connection leaves at most one statement behind.
Counted ==
    /\ IsFiniteSet(orphans) /\ Cardinality(orphans) <= abandoned
    /\ IsFiniteSet(raced) /\ Cardinality(raced) <= 1 + abandoned

\* There are at most as many rows in flight as statements.
LEMMA InFlightSize ==
  ASSUME IsFiniteSet(orphans), Cardinality(orphans) <= abandoned, abandoned \in Nat,
         NEW S \in SUBSET InFlight
  PROVE  IsFiniteSet(S) /\ Cardinality(S) <= 1 + abandoned
<1> DEFINE Image == {o[2] : o \in orphans}
<1>1. IsFiniteSet(Image) /\ Cardinality(Image) <= Cardinality(orphans)
  <2> DEFINE f == [o \in orphans |-> o[2]]
  <2>1. f \in Surjection(orphans, Image)
    BY DEF Surjection
  <2>2. QED
    BY <2>1, FS_Surjection
<1>2. IsFiniteSet({stream}) /\ Cardinality({stream}) = 1
  BY FS_Singleton
<1>3. /\ IsFiniteSet(Image \cup {stream})
      /\ Cardinality(Image \cup {stream}) <= Cardinality(Image) + 1
  <2>1. /\ IsFiniteSet(Image \cup {stream})
        /\ Cardinality(Image \cup {stream}) =
               IF stream \in Image THEN Cardinality(Image) ELSE Cardinality(Image) + 1
    BY <1>1, FS_AddElement
  <2>2. Cardinality(Image) \in Nat
    BY <1>1, FS_CardinalityType
  <2>3. QED
    BY <2>1, <2>2
<1>4. S \subseteq Image \cup {stream}
  BY DEF InFlight
<1>5. IsFiniteSet(S) /\ Cardinality(S) <= Cardinality(Image \cup {stream})
  BY <1>3, <1>4, FS_Subset
<1>6. /\ Cardinality(S) \in Nat /\ Cardinality(Image) \in Nat
      /\ Cardinality(orphans) \in Nat /\ Cardinality(Image \cup {stream}) \in Nat
  BY <1>1, <1>3, <1>5, FS_CardinalityType
<1>7. Cardinality(S) <= 1 + abandoned
  <2> HIDE DEF Image
  <2>1. QED
    BY <1>1, <1>3, <1>5, <1>6
<1>8. QED
  BY <1>5, <1>7

LEMMA CountedInit == Init => Counted
  BY FS_EmptySet DEF Init, Counted

LEMMA CountedStep ==
  ASSUME Locked, Locked', Counted, [Next]_vars
  PROVE  Counted'
<1> USE DEF tables, streamVars, shardVars, history, counters
<1>1. abandoned \in Nat /\ abandoned' \in Nat
  BY DEF Locked, TypeOK
<1>2. CASE AddToBucketFails
  <2>1. /\ UNCHANGED raced
        /\ \/ UNCHANGED <<orphans, abandoned>>
           \/ abandoned' = abandoned + 1 /\ orphans' = orphans \cup {<<abandoned', stream>>}
    BY <1>2 DEF AddToBucketFails
  <2>2. IsFiniteSet(orphans') /\ Cardinality(orphans') <= abandoned'
    <3>1. CASE UNCHANGED <<orphans, abandoned>>
      BY <3>1 DEF Counted
    <3>2. CASE abandoned' = abandoned + 1 /\ orphans' = orphans \cup {<<abandoned', stream>>}
      <4>1. /\ IsFiniteSet(orphans')
            /\ Cardinality(orphans') = IF <<abandoned', stream>> \in orphans
                                       THEN Cardinality(orphans)
                                       ELSE Cardinality(orphans) + 1
        BY <3>2, FS_AddElement DEF Counted
      <4>2. Cardinality(orphans) \in Nat
        BY FS_CardinalityType DEF Counted
      <4>3. Cardinality(orphans') \in {Cardinality(orphans), Cardinality(orphans) + 1}
        BY <4>1
      <4>4. QED
        BY <1>1, <3>2, <4>1, <4>2, <4>3 DEF Counted
    <3>3. QED
      BY <2>1, <3>1, <3>2
  <2>3. QED
    BY <1>1, <2>1, <2>2, FS_CardinalityType DEF Counted
<1>3. ASSUME NEW o \in orphans, OrphanRuns(o)
      PROVE  Counted'
  <2>1. orphans' = orphans \ {o} /\ UNCHANGED <<raced, abandoned>>
    BY <1>3 DEF OrphanRuns
  <2>2. IsFiniteSet(orphans') /\ Cardinality(orphans') <= Cardinality(orphans)
    BY <2>1, FS_Subset DEF Counted
  <2>3. Cardinality(orphans) \in Nat /\ Cardinality(orphans') \in Nat
    BY <2>2, FS_CardinalityType DEF Counted
  <2>4. QED
    BY <1>1, <2>1, <2>2, <2>3 DEF Counted
<1>4. ASSUME NEW s \in Shards, CommitRebuild(s)
      PROVE  Counted'
  <2>1. raced' = snapshot \cap InFlight /\ UNCHANGED <<orphans, abandoned>>
    BY <1>4 DEF CommitRebuild
  <2>2. IsFiniteSet(raced') /\ Cardinality(raced') <= 1 + abandoned
    BY <1>1, <2>1, InFlightSize DEF Counted
  <2>3. QED
    BY <2>1, <2>2 DEF Counted
<1>5. CASE UNCHANGED <<orphans, raced, abandoned>>
  BY <1>5 DEF Counted
<1>6. ASSUME NEW s \in Shards, ShardStep(s), ~CommitRebuild(s)
      PROVE  UNCHANGED <<orphans, raced, abandoned>>
  BY <1>6 DEF ShardStep, StartMigrate, InsertStaged, TruncateStaging, SkipsRebuild,
     LockBuckets, ReadSwaps
<1>7. ASSUME NEW s \in Shards,
             Start(s) \/ Kill(s) \/ \E r \in Row : CopyRow(s, r)
      PROVE  UNCHANGED <<orphans, raced, abandoned>>
  BY <1>7 DEF Start, Kill, CopyRow
<1>8. ASSUME \/ \E r \in Row : StoreSwap(r) \/ StoreSwapUnacknowledged(r)
             \/ AddToBucket \/ UNCHANGED vars
             \/ \E rows \in SUBSET staging : MidMigrate(rows)
      PROVE  UNCHANGED <<orphans, raced, abandoned>>
  BY <1>8 DEF StoreSwap, StoreSwapUnacknowledged, InsertSwap, AddToBucket, MidMigrate, vars
<1>9. QED
  BY <1>2, <1>3, <1>4, <1>5, <1>6, <1>7, <1>8 DEF Next, StreamStep

\* A swap is counted twice only for a known reason, and for the race with a rebuild at most
\* one swap, and one more per statement that was abandoned to the server, at any time.
THEOREM DoubleCountBounded == Spec => []DoubleCountBound
<1>1. Accounting /\ Counted => DoubleCountBound
  BY DEF Accounting, DoubleIsKnown, Counted, DoubleCountBound
<1>2. Locked /\ Locked' /\ Counted /\ [Next]_vars => Counted'
  BY CountedStep
<1>3. Accounting => Locked
  BY DEF Accounting
<1>4. QED
  BY CountedInit, AccountingCorrect, <1>1, <1>2, <1>3, PTL DEF Spec

-----------------------------------------------------------------------------
(***************************************************************************)
(* Copied rows are kept                                                    *)
(***************************************************************************)

\* Between INSERT and TRUNCATE, staging holds nothing that swaps does not, because a process
\* that migrates is the only one running.
TruncateIsSafe ==
    /\ \A s \in Shards : /\ pc[s] = "truncate" => staging \subseteq swaps
                         /\ pc[s] \in {"insert", "truncate"} => s \notin SkipMigrate
    /\ \A s, q \in Shards : (s # q /\ pc[s] # "off" /\ pc[q] # "off") => s \in SkipMigrate

Kept == CopiedIsKept /\ TruncateIsSafe

LEMMA KeptStep ==
  ASSUME TypeOK, Kept, [Next]_vars
  PROVE  Kept'
<1> USE DEF Kept, CopiedIsKept, TruncateIsSafe, TypeOK, Goto, MoveToSwaps,
        tables, streamVars, shardVars, history, counters
<1>1. ASSUME NEW s \in Shards, NEW r \in Row, CopyRow(s, r)
      PROVE  Kept'
  <2>1. \A q \in Shards : pc[q] # "truncate"
    <3>1. SUFFICES ASSUME NEW q \in Shards, pc[q] = "truncate"
                   PROVE  FALSE
      OBVIOUS
    <3>2. pc[s] = "copy" /\ q # s /\ q \notin SkipMigrate
      BY <1>1, <3>1 DEF CopyRow
    <3>3. QED
      BY <3>1, <3>2
  <2>2. QED
    BY <1>1, <2>1 DEF CopyRow
<1>2. ASSUME NEW s \in Shards, ShardStep(s)
      PROVE  Kept'
  <2>1. CASE StartMigrate(s)
    BY <2>1 DEF StartMigrate
  <2>2. CASE InsertStaged(s)
    BY <2>2 DEF InsertStaged
  <2>3. CASE TruncateStaging(s)
    BY <2>3 DEF TruncateStaging
  <2>4. CASE SkipsRebuild(s)
    BY <2>4 DEF SkipsRebuild
  <2>5. CASE LockBuckets(s)
    BY <2>5 DEF LockBuckets
  <2>6. CASE ReadSwaps(s)
    BY <2>6 DEF ReadSwaps
  <2>7. CASE CommitRebuild(s)
    BY <2>7 DEF CommitRebuild
  <2>8. QED
    BY <1>2, <2>1, <2>2, <2>3, <2>4, <2>5, <2>6, <2>7 DEF ShardStep
<1>3. ASSUME NEW s \in Shards, Start(s) \/ Kill(s)
      PROVE  Kept'
  <2>1. CASE Start(s)
    BY <2>1 DEF Start
  <2>2. CASE Kill(s)
    BY <2>2 DEF Kill
  <2>3. QED
    BY <1>3, <2>1, <2>2
<1>4. ASSUME NEW rows \in SUBSET staging, MidMigrate(rows)
      PROVE  Kept'
  BY <1>4 DEF MidMigrate
<1>5. ASSUME /\ swaps \subseteq swaps'
             /\ UNCHANGED <<staging, pc, copied>>
      PROVE  Kept'
  BY <1>5
<1>6. ASSUME \/ \E r \in Row : StoreSwap(r) \/ StoreSwapUnacknowledged(r)
             \/ StreamStep \/ AddToBucketFails \/ UNCHANGED vars
      PROVE  swaps \subseteq swaps' /\ UNCHANGED <<staging, pc, copied>>
  BY <1>6 DEF StoreSwap, StoreSwapUnacknowledged, InsertSwap, StreamStep, AddToBucket,
     OrphanRuns, AddToBucketFails, vars
<1>7. QED
  BY <1>1, <1>2, <1>3, <1>4, <1>5, <1>6 DEF Next

\* A copied row is in staging or in swaps, through kills and reruns at any point, for any
\* number of processes that are started by the rule.
THEOREM NothingCopiedIsLost == Spec => []CopiedIsKept
<1>1. Init => Kept
  BY DEF Init, Kept, CopiedIsKept, TruncateIsSafe
<1>2. TypeOK /\ Kept /\ [Next]_vars => Kept'
  BY KeptStep
<1>3. Kept => CopiedIsKept
  BY DEF Kept
<1>4. QED
  BY TypeCorrect, <1>1, <1>2, <1>3, PTL DEF Spec
=============================================================================
