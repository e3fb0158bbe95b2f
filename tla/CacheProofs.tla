---------------------------- MODULE CacheProofs ----------------------------
(***************************************************************************)
(* The caches of the archived live process, for every value of the         *)
(* constants: the lookups that fill the pool cache (module PoolLookup) and *)
(* the cache itself (TTLCache).  They share no variable.                   *)
(***************************************************************************)
EXTENDS PoolLookup, TTLCache, NaturalFacts

-----------------------------------------------------------------------------
(***************************************************************************)
(* Pool lookups: what is kept out of the caches and what they may keep from *)
(* a lookup, for any pools, lookups, failures and any bound of the cache.  *)
(***************************************************************************)

Pc == {"idle", "row", "factory", "chain", "store"}
AnswerOf == {NoAnswer, "info", "null", "error"}
Look == [pc : Pc, pool : Pool, answer : AnswerOf]
Prefetch == [pc : {"idle", "rows", "chain", "store"}, lacks : SUBSET Pool, store : SUBSET Pool]

\* Where a lookup that goes on has already passed the check of its family: behind the
\* answer of the chain, and in V3 behind the factory.
Vetted(l) ==
    \/ lk[l].answer = "info"
    \/ lk[l].pc = "store"
    \/ fam = "v3" /\ lk[l].pc = "chain"

\* What may be let in.
Entitled == Believed \cup firstRows \cup unchecked

\* The inductive form of AliensStayOut.
NoAlien ==
    /\ cache \cup rows \cup pf.store \subseteq Entitled
    /\ \A l \in Lookup : Vetted(l) => lk[l].pool \in Entitled
    /\ unchecked # {} => fam = "v3" /\ addresses = {}
    /\ addresses # {} => /\ addresses \subseteq Believed \cup firstRows
                         /\ pf.lacks \subseteq addresses

\* The inductive form of OnlyFaultsHidePools.
Unhidden ==
    /\ pf.pc # "store" => pf.store = {}
    /\ OnlyFaultsHidePools

PoolInv == PoolTypeOK /\ NoAlien /\ Unhidden

-----------------------------------------------------------------------------
\* A full cache drops keys and gains only those it is given.
LEMMA HoldingBounds ==
    ASSUME NEW new, NEW c \in Holding(new)
    PROVE  c \subseteq cache \cup new
  BY DEF Holding

\* One lookup moves: the others are as they were.
LEMMA StepFacts ==
    ASSUME lk \in [Lookup -> Look], NEW l \in Lookup, NEW p \in Pc, NEW a \in AnswerOf,
           Step(l, p, a)
    PROVE  /\ lk' \in [Lookup -> Look]
           /\ lk'[l].pc = p /\ lk'[l].answer = a /\ lk'[l].pool = lk[l].pool
           /\ \A k \in Lookup \ {l} : lk'[k] = lk[k]
  BY DEF Step, Look

LEMMA FaultFacts == ASSUME PoolTypeOK, Fault PROVE faults' \in 0..MaxFaults /\ faults' # 0
  BY PoolLookupAssumption DEF PoolTypeOK, Fault, PoolLookupAssumption

-----------------------------------------------------------------------------
\* The moves of a lookup, by their effect.

\* What every move of a lookup leaves alone.
Frame == UNCHANGED <<fixed, unchecked, pf>>

LEMMA AnswerKeeps ==
    ASSUME PoolInv, Frame, NEW l \in Lookup, NEW a \in {"null", "error"}, Answer(l, a),
           faults' \in 0..MaxFaults, faults' = 0 => faults = 0 /\ lk[l].pool \in Alien,
           faults' # 0 \/ lk[l].pc # "store",
           UNCHANGED <<cache, rows>>,
           invalid' \in {invalid, invalid \cup {lk[l].pool}}
    PROVE  PoolInv'
<1> USE DEF PoolInv, Frame, fixed, Answer
<1>0. lk \in [Lookup -> Look] /\ a \in AnswerOf
  BY DEF PoolTypeOK, Look, Pc, AnswerOf
<1>1. /\ lk' \in [Lookup -> Look]
      /\ lk'[l].pc = "idle" /\ lk'[l].answer = a /\ lk'[l].pool = lk[l].pool
      /\ \A k \in Lookup \ {l} : lk'[k] = lk[k]
  BY <1>0, StepFacts DEF Pc
<1>2. PoolTypeOK'
  BY <1>0, <1>1 DEF PoolTypeOK, Look, Pc, AnswerOf
<1>3. NoAlien'
  BY <1>1 DEF NoAlien, Vetted, Entitled, Believed, fixed
<1>4. Unhidden'
  BY <1>1 DEF Unhidden, OnlyFaultsHidePools, NoAnswer
<1> QED BY <1>2, <1>3, <1>4

LEMMA CachedKeeps ==
    ASSUME PoolInv, Frame, NEW l \in Lookup, lk[l].pool \in rows, lk[l].pc = "row",
           cache' \in Holding({lk[l].pool}), Answer(l, "info"), UNCHANGED <<invalid, rows, faults>>
    PROVE  PoolInv'
<1> USE DEF PoolInv, Frame, fixed, Answer
<1>0. lk \in [Lookup -> Look] /\ "info" \in AnswerOf
  BY DEF PoolTypeOK, Look, Pc, AnswerOf
<1>1. /\ lk' \in [Lookup -> Look]
      /\ lk'[l].pc = "idle" /\ lk'[l].answer = "info" /\ lk'[l].pool = lk[l].pool
      /\ \A k \in Lookup \ {l} : lk'[k] = lk[k]
  BY <1>0, StepFacts DEF Pc
<1>2. cache' \subseteq cache \cup {lk[l].pool} /\ lk[l].pool \in Pool
  BY <1>0, HoldingBounds DEF Look
<1>3. PoolTypeOK'
  BY <1>0, <1>1, <1>2 DEF PoolTypeOK, Look, Pc, AnswerOf
<1>4. NoAlien'
  BY <1>1, <1>2 DEF NoAlien, Vetted, Entitled, Believed, fixed
<1>5. Unhidden'
  BY <1>1, <1>2 DEF Unhidden, OnlyFaultsHidePools
<1> QED BY <1>3, <1>4, <1>5

\* On to the next call, with no answer yet.
LEMMA GoesOnKeeps ==
    ASSUME PoolInv, Frame, NEW l \in Lookup, NEW p \in {"factory", "chain"}, Step(l, p, NoAnswer),
           p = "chain" /\ fam = "v3" => lk[l].pool \in Believed,
           lk[l].pc # "store", UNCHANGED <<cache, invalid, rows, faults>>
    PROVE  PoolInv'
<1> USE DEF PoolInv, Frame, fixed
<1>0. lk \in [Lookup -> Look] /\ NoAnswer \in AnswerOf
  BY DEF PoolTypeOK, Look, Pc, AnswerOf
<1>1. /\ lk' \in [Lookup -> Look]
      /\ lk'[l].pc = p /\ lk'[l].answer = NoAnswer /\ lk'[l].pool = lk[l].pool
      /\ \A k \in Lookup \ {l} : lk'[k] = lk[k]
  BY <1>0, StepFacts DEF Pc
<1>2. PoolTypeOK'
  BY <1>0, <1>1 DEF PoolTypeOK, Look, Pc, AnswerOf
<1>3. NoAlien'
  BY <1>1 DEF NoAlien, Vetted, Entitled, Believed, fixed, NoAnswer
<1>4. Unhidden'
  BY <1>1 DEF Unhidden, OnlyFaultsHidePools, NoAnswer
<1> QED BY <1>2, <1>3, <1>4

LEMMA LearnKeeps ==
    ASSUME PoolInv, Frame, NEW l \in Lookup, lk[l].pc = "chain", lk[l].pool \in Entitled, Learn(l)
    PROVE  PoolInv'
<1> USE DEF PoolInv, Frame, fixed, Learn
<1>0. lk \in [Lookup -> Look] /\ NoAnswer \in AnswerOf
  BY DEF PoolTypeOK, Look, Pc, AnswerOf
<1>1. /\ lk' \in [Lookup -> Look]
      /\ lk'[l].pc = "store" /\ lk'[l].answer = NoAnswer /\ lk'[l].pool = lk[l].pool
      /\ \A k \in Lookup \ {l} : lk'[k] = lk[k]
  BY <1>0, StepFacts DEF Pc
<1>2. cache' \subseteq cache \cup {lk[l].pool} /\ lk[l].pool \in Pool
  BY <1>0, HoldingBounds DEF Look
<1>3. PoolTypeOK'
  BY <1>0, <1>1, <1>2 DEF PoolTypeOK, Look, Pc, AnswerOf
<1>4. NoAlien'
  BY <1>1, <1>2 DEF NoAlien, Vetted, Entitled, Believed, fixed
<1>5. Unhidden'
  <2>1. \A p \in cache' \ rows' : p = lk[l].pool \/ p \in cache \ rows
    BY <1>2
  <2> QED BY <1>1, <2>1 DEF Unhidden, OnlyFaultsHidePools, NoAnswer
<1> QED BY <1>3, <1>4, <1>5

LEMMA StoredKeeps ==
    ASSUME PoolInv, NEW l \in Lookup, Stored(l)
    PROVE  PoolInv'
<1> USE DEF PoolInv, Stored, Answer, fixed
<1>0. lk \in [Lookup -> Look] /\ "info" \in AnswerOf
  BY DEF PoolTypeOK, Look, Pc, AnswerOf
<1>1. /\ lk' \in [Lookup -> Look]
      /\ lk'[l].pc = "idle" /\ lk'[l].answer = "info" /\ lk'[l].pool = lk[l].pool
      /\ \A k \in Lookup \ {l} : lk'[k] = lk[k]
  BY <1>0, StepFacts DEF Pc
<1>2. rows' = rows \cup {lk[l].pool} /\ lk[l].pool \in Pool
  BY <1>0 DEF Look
<1>3. PoolTypeOK'
  BY <1>0, <1>1, <1>2 DEF PoolTypeOK, Look, Pc, AnswerOf
<1>4. NoAlien'
  BY <1>1, <1>2 DEF NoAlien, Vetted, Entitled, Believed, fixed
<1>5. Unhidden'
  BY <1>1, <1>2 DEF Unhidden, OnlyFaultsHidePools
<1> QED BY <1>3, <1>4, <1>5

LEMMA EnterKeeps ==
    ASSUME PoolInv, NEW l \in Lookup, NEW p \in Pool, Enter(l, p)
    PROVE  PoolInv'
<1> USE DEF PoolInv, Enter, fixed
<1>1. /\ lk' \in [Lookup -> Look]
      /\ lk'[l].pool = p
      /\ lk'[l].pc \in {"idle", "row"}
      /\ lk'[l].answer = "info" => p \in cache
      /\ lk'[l].answer = "null" => p \in invalid
      /\ lk'[l].answer # "error"
      /\ \A k \in Lookup \ {l} : lk'[k] = lk[k]
  BY DEF PoolTypeOK, Look, Pc, AnswerOf, NoAnswer
<1>2. PoolTypeOK'
  BY <1>1 DEF PoolTypeOK, Look, Pc, AnswerOf
<1>3. NoAlien'
  BY <1>1 DEF NoAlien, Vetted, Entitled, Believed, fixed
<1>4. Unhidden'
  BY <1>1 DEF Unhidden, OnlyFaultsHidePools
<1> QED BY <1>2, <1>3, <1>4

-----------------------------------------------------------------------------
\* The three lookups.

\* The row is read: an error, or a hit; a miss is next's affair.
LEMMA ReadKeeps ==
    ASSUME PoolInv, Frame, NEW l \in Lookup, lk[l].pc = "row", UNCHANGED <<invalid, rows>>,
           \/ Fault /\ Answer(l, "error") /\ UNCHANGED cache
           \/ /\ lk[l].pool \in rows
              /\ cache' \in Holding({lk[l].pool})
              /\ Answer(l, "info") /\ UNCHANGED faults
    PROVE  PoolInv'
<1>1. CASE Fault /\ Answer(l, "error") /\ UNCHANGED cache
  BY <1>1, FaultFacts, AnswerKeeps DEF PoolInv
<1>2. CASE lk[l].pool \in rows /\ cache' \in Holding({lk[l].pool}) /\ Answer(l, "info")
           /\ UNCHANGED faults
  BY <1>2, CachedKeeps
<1> QED BY <1>1, <1>2

\* A pool is marked after a failed call, or for being alien.
LEMMA MarkKeeps ==
    ASSUME PoolInv, Frame, NEW l \in Lookup, Mark(l),
           Fault \/ (lk[l].pool \notin Believed /\ lk[l].pc # "store" /\ UNCHANGED faults)
    PROVE  PoolInv'
<1>1. faults' \in 0..MaxFaults /\ (faults' # 0 \/ (faults' = faults /\ lk[l].pool \in Alien
                                                   /\ lk[l].pc # "store"))
  BY FaultFacts DEF PoolInv, PoolTypeOK, Believed, Genuine
<1> QED BY <1>1, AnswerKeeps DEF Mark

LEMMA GetPoolInfoKeeps ==
    ASSUME PoolInv, NEW l \in Lookup, GetPoolInfo(l)
    PROVE  PoolInv'
<1> DEFINE next == IF lk[l].pool \in invalid THEN Answer(l, "null")
                                             ELSE Step(l, "factory", NoAnswer)
<1>t. faults \in 0..MaxFaults
  BY DEF PoolInv, PoolTypeOK
<1>v. fam = "v3"
  BY DEF GetPoolInfo
<1>1. CASE ReadRow(l, next)
  <2>0. Frame /\ lk[l].pc = "row" /\ UNCHANGED <<invalid, rows>>
    BY <1>1 DEF ReadRow, Frame
  <2>1. CASE next /\ UNCHANGED <<cache, faults>>
    <3>1. CASE lk[l].pool \in invalid
      <4>1. faults' = 0 => faults = 0 /\ lk[l].pool \in Alien
        BY <2>1, <3>1 DEF PoolInv, Unhidden, OnlyFaultsHidePools
      <4> QED BY <1>t, <2>0, <2>1, <3>1, <4>1, AnswerKeeps
    <3>2. CASE lk[l].pool \notin invalid
      BY <2>0, <2>1, <3>2, GoesOnKeeps
    <3> QED BY <3>1, <3>2
  <2>2. CASE \/ Fault /\ Answer(l, "error") /\ UNCHANGED cache
             \/ /\ lk[l].pool \in rows
                /\ cache' \in Holding({lk[l].pool})
                /\ Answer(l, "info") /\ UNCHANGED faults
    BY <2>0, <2>2, ReadKeeps
  <2> HIDE DEF next
  <2> QED BY <1>1, <2>1, <2>2 DEF ReadRow
<1>2. CASE VerifyPoolFactory(l)
  <2>0. Frame /\ lk[l].pc = "factory"
    BY <1>2 DEF VerifyPoolFactory, Frame
  <2>1. CASE Fault /\ Mark(l)
    BY <2>0, <2>1, MarkKeeps
  <2>2. CASE lk[l].pool \notin Believed /\ Mark(l) /\ UNCHANGED faults
    BY <2>0, <2>2, MarkKeeps
  <2>3. CASE lk[l].pool \in Believed /\ Step(l, "chain", NoAnswer)
             /\ UNCHANGED <<cache, invalid, rows, faults>>
    BY <2>0, <2>3, GoesOnKeeps
  <2> QED BY <1>2, <2>1, <2>2, <2>3 DEF VerifyPoolFactory
<1>3. CASE lk[l].pc = "chain" /\ Learn(l) /\ UNCHANGED <<fixed, unchecked, pf>>
  <2>1. lk[l].pool \in Entitled
    BY <1>3, <1>v DEF PoolInv, NoAlien, Vetted
  <2> QED BY <1>3, <2>1, LearnKeeps DEF Frame
<1>4. CASE /\ lk[l].pc \in {"chain", "store"}
           /\ Fault /\ Answer(l, "null")
           /\ UNCHANGED <<fixed, unchecked, cache, invalid, rows, pf>>
  BY <1>4, FaultFacts, AnswerKeeps DEF PoolInv, Frame
<1>5. CASE Stored(l)
  BY <1>5, StoredKeeps
<1>7. CASE /\ lk[l].pc = "chain" /\ lk[l].pool \in Alien /\ Answer(l, "null")
           /\ UNCHANGED <<fixed, unchecked, cache, invalid, rows, pf, faults>>
  BY <1>t, <1>7, AnswerKeeps DEF Frame
<1> HIDE DEF next
<1>6. ReadRow(l, next) \/ VerifyPoolFactory(l) \/ Stored(l)
      \/ (lk[l].pc = "chain" /\ Learn(l) /\ UNCHANGED <<fixed, unchecked, pf>>)
      \/ (/\ lk[l].pc \in {"chain", "store"}
          /\ Fault /\ Answer(l, "null")
          /\ UNCHANGED <<fixed, unchecked, cache, invalid, rows, pf>>)
      \/ (/\ lk[l].pc = "chain" /\ lk[l].pool \in Alien /\ Answer(l, "null")
          /\ UNCHANGED <<fixed, unchecked, cache, invalid, rows, pf, faults>>)
  BY DEF GetPoolInfo, next
<1> QED BY <1>1, <1>2, <1>3, <1>4, <1>5, <1>6, <1>7

LEMMA PoolKeysKeeps ==
    ASSUME PoolInv, NEW l \in Lookup, fam # "v3", PoolKeys(l)
    PROVE  PoolInv'
<1>1. CASE ReadRow(l, Step(l, "chain", NoAnswer))
  <2>0. Frame /\ lk[l].pc = "row" /\ UNCHANGED <<invalid, rows>>
    BY <1>1 DEF ReadRow, Frame
  <2>1. CASE Step(l, "chain", NoAnswer) /\ UNCHANGED <<cache, faults>>
    BY <2>0, <2>1, GoesOnKeeps
  <2>2. CASE \/ Fault /\ Answer(l, "error") /\ UNCHANGED cache
             \/ /\ lk[l].pool \in rows
                /\ cache' \in Holding({lk[l].pool})
                /\ Answer(l, "info") /\ UNCHANGED faults
    BY <2>0, <2>2, ReadKeeps
  <2> QED BY <1>1, <2>1, <2>2 DEF ReadRow
<1>2. CASE Fault /\ Mark(l) /\ UNCHANGED <<fixed, unchecked, pf>>
  BY <1>2, MarkKeeps DEF Frame
<1>3. CASE /\ lk[l].pc = "chain" /\ lk[l].pool \notin Believed /\ Mark(l)
           /\ UNCHANGED <<faults, fixed, unchecked, pf>>
  BY <1>3, MarkKeeps DEF Frame
<1>4. CASE /\ lk[l].pc = "chain" /\ lk[l].pool \in Believed /\ Learn(l)
           /\ UNCHANGED <<fixed, unchecked, pf>>
  BY <1>4, LearnKeeps DEF Frame, Entitled
<1>5. CASE Stored(l)
  BY <1>5, StoredKeeps
<1> QED BY <1>1, <1>2, <1>3, <1>4, <1>5 DEF PoolKeys

-----------------------------------------------------------------------------
\* The prefetch.

LEMMA PrefetchStartKeeps ==
    ASSUME PoolInv, NEW want \in SUBSET Pool, PrefetchStart(want)
    PROVE  PoolInv'
<1> USE DEF PoolInv, PrefetchStart, fixed
<1>1. PoolTypeOK'
  BY DEF PoolTypeOK
<1>2. NoAlien'
  BY DEF NoAlien, Vetted, Entitled, Believed, fixed, Prefetchable, PoolTypeOK
<1>3. Unhidden'
  BY DEF Unhidden, OnlyFaultsHidePools, PoolTypeOK
<1> QED BY <1>1, <1>2, <1>3

LEMMA PrefetchRowsKeeps ==
    ASSUME PoolInv, PrefetchRows
    PROVE  PoolInv'
<1> USE DEF PoolInv, PrefetchRows, fixed
<1>0. /\ faults' = 0 => faults = 0
      /\ faults' \in 0..MaxFaults
  BY FaultFacts DEF PoolTypeOK
<1>1. cache' \subseteq cache \cup (pf.lacks \cap rows)
  BY HoldingBounds
<1>2. pf' \in Prefetch /\ pf'.pc # "store" /\ pf'.store = {} /\ pf'.lacks \subseteq pf.lacks
  <2>1. pf \in Prefetch /\ pf.store = {}
    BY DEF PoolTypeOK, Prefetch, Unhidden
  <2>2. CASE pf' = [pc |-> "idle", lacks |-> {}, store |-> {}]
    BY <2>2 DEF Prefetch
  <2>3. CASE pf' = [pf EXCEPT !.pc = "chain", !.lacks = pf.lacks \ rows]
    BY <2>1, <2>3 DEF Prefetch
  <2>4. CASE pf' = [pf EXCEPT !.pc = "chain"]
    BY <2>1, <2>4 DEF Prefetch
  <2>5. \/ pf' = [pc |-> "idle", lacks |-> {}, store |-> {}]
        \/ pf' = [pf EXCEPT !.pc = "chain", !.lacks = pf.lacks \ rows]
        \/ pf' = [pf EXCEPT !.pc = "chain"]
    OBVIOUS
  <2> QED BY <2>2, <2>3, <2>4, <2>5
<1>3. PoolTypeOK'
  BY <1>0, <1>1, <1>2 DEF PoolTypeOK, Prefetch
<1>4. NoAlien'
  BY <1>1, <1>2 DEF NoAlien, Vetted, Entitled, Believed, fixed
<1>5. Unhidden'
  BY <1>0, <1>1, <1>2 DEF Unhidden, OnlyFaultsHidePools
<1> QED BY <1>3, <1>4, <1>5

LEMMA PrefetchChainKeeps ==
    ASSUME PoolInv, NEW unknown \in SUBSET Alien, PrefetchChain(unknown),
           fam # "v3" => unknown = Alien
    PROVE  PoolInv'
<1> USE DEF PoolInv, PrefetchChain, fixed
<1>1. CASE Fault /\ pf' = [pc |-> "idle", lacks |-> {}, store |-> {}]
           /\ UNCHANGED <<cache, invalid, unchecked>>
  <2>1. faults' # 0 /\ faults' \in 0..MaxFaults
    BY <1>1, FaultFacts
  <2>2. PoolTypeOK'
    BY <1>1, <2>1 DEF PoolTypeOK
  <2>3. NoAlien'
    BY <1>1 DEF NoAlien, Vetted, Entitled, Believed, fixed
  <2>4. Unhidden'
    BY <1>1, <2>1 DEF Unhidden, OnlyFaultsHidePools
  <2> QED BY <2>2, <2>3, <2>4
<1>2. ASSUME NEW bad \in SUBSET pf.lacks, pf.lacks \cap unknown \subseteq bad,
             IF bad \subseteq Alien THEN UNCHANGED faults ELSE Fault,
             invalid' = invalid \cup bad, cache' \in Holding(pf.lacks \ bad),
             unchecked' = unchecked \cup ((pf.lacks \ bad) \ (Believed \cup firstRows)),
             pf' = [pf EXCEPT !.pc = "store", !.lacks = {}, !.store = pf.lacks \ bad]
      PROVE  PoolInv'
  <2>1. faults' \in 0..MaxFaults /\ (faults' = 0 => faults = 0 /\ bad \subseteq Alien)
    BY <1>2, FaultFacts DEF PoolTypeOK
  <2>2. cache' \subseteq cache \cup (pf.lacks \ bad)
    BY <1>2, HoldingBounds
  <2>3. /\ pf' \in Prefetch
        /\ pf'.pc = "store" /\ pf'.lacks = {} /\ pf'.store = pf.lacks \ bad
        /\ pf.lacks \subseteq Pool
    BY <1>2 DEF PoolTypeOK, Prefetch
  <2>4. PoolTypeOK'
    BY <1>2, <2>1, <2>2, <2>3 DEF PoolTypeOK, Prefetch
  <2>5. /\ pf.lacks \ bad \subseteq Entitled'
        /\ Entitled \subseteq Entitled'
    BY <1>2 DEF Entitled, Believed
  <2>6. \/ unchecked' = unchecked
        \/ fam = "v3" /\ addresses = {}
    <3>1. CASE fam # "v3"
      <4>1. pf.lacks \ bad \subseteq Believed
        BY <1>2, <2>3, <3>1 DEF Believed, Genuine
      <4> QED BY <1>2, <4>1
    <3>2. CASE addresses # {}
      <4>1. pf.lacks \ bad \subseteq Believed \cup firstRows
        BY <3>2 DEF NoAlien
      <4> QED BY <1>2, <4>1
    <3> QED BY <3>1, <3>2
  <2>7. NoAlien'
    <3>1. (cache \cup rows \cup pf.store)' \subseteq Entitled'
      BY <2>2, <2>3, <2>5 DEF NoAlien
    <3>2. \A l \in Lookup : Vetted(l)' => lk[l].pool \in Entitled'
      BY <2>5 DEF NoAlien, Vetted
    <3>3. unchecked' # {} => fam = "v3" /\ addresses = {}
      BY <2>6 DEF NoAlien
    <3>4. /\ (Believed \cup firstRows)' = Believed \cup firstRows
          /\ UNCHANGED <<addresses, lk, fam>>
      BY DEF Believed
    <3> QED BY <2>3, <3>1, <3>2, <3>3, <3>4 DEF NoAlien
  <2>8. pf.store = {}
    BY DEF Unhidden
  <2>9. \A p \in cache' \ rows' : p \in pf'.store \/ p \in cache \ rows
    BY <2>2, <2>3
  <2>10. Unhidden'
    BY <1>2, <2>1, <2>3, <2>8, <2>9 DEF Unhidden, OnlyFaultsHidePools
  <2> QED BY <2>4, <2>7, <2>10
<1> QED BY <1>1, <1>2

LEMMA BulkUpsertKeeps ==
    ASSUME PoolInv, BulkUpsert
    PROVE  PoolInv'
<1> USE DEF PoolInv, BulkUpsert, fixed
<1>1. /\ rows \subseteq rows' /\ rows' \subseteq rows \cup pf.store
      /\ faults' \in 0..MaxFaults
      /\ faults' = 0 => faults = 0 /\ pf.store \subseteq rows'
  BY FaultFacts DEF PoolTypeOK
<1>2. PoolTypeOK'
  BY <1>1 DEF PoolTypeOK
<1>3. NoAlien'
  BY <1>1 DEF NoAlien, Vetted, Entitled, Believed, fixed
<1>4. Unhidden'
  BY <1>1 DEF Unhidden, OnlyFaultsHidePools
<1> QED BY <1>2, <1>3, <1>4

-----------------------------------------------------------------------------
LEMMA PoolInitInv == PoolInit => PoolInv
<1> SUFFICES ASSUME PoolInit PROVE PoolInv
  OBVIOUS
<1> DEFINE q0 == CHOOSE q \in Pool : TRUE
<1>q. q0 \in Pool
  BY PoolLookupAssumption DEF PoolLookupAssumption
<1>0. lk \in [Lookup -> {[pc |-> "idle", pool |-> p, answer |-> NoAnswer] : p \in {q0}}]
  BY DEF PoolInit
<1> HIDE DEF q0
<1>1. \E q \in Pool : lk \in [Lookup -> {[pc |-> "idle", pool |-> q, answer |-> NoAnswer]}]
  BY <1>q, <1>0
<1> USE DEF PoolInit
<1>r. rows \in SUBSET Pool /\ firstRows = rows /\ addresses \in {{}, Genuine \cup firstRows}
  OBVIOUS
<1>2. PoolTypeOK
  <2>1. rows \subseteq Pool /\ firstRows \subseteq Pool /\ addresses \subseteq Pool
    <3> HIDE DEF PoolInit
    <3> QED BY <1>r DEF Genuine
  <2>2. lk \in [Lookup -> Look]
    BY <1>1 DEF Look, Pc, AnswerOf
  <2>3. faults \in 0..MaxFaults
    BY PoolLookupAssumption DEF PoolLookupAssumption
  <2> QED BY <2>1, <2>2, <2>3 DEF PoolTypeOK, Look, Pc, AnswerOf
<1>3. \A l \in Lookup : lk[l].pc = "idle" /\ lk[l].answer = NoAnswer
  BY <1>1
<1>4. NoAlien
  BY <1>3 DEF NoAlien, Vetted, Entitled, Believed, NoAnswer
<1>5. Unhidden
  BY <1>3 DEF Unhidden, OnlyFaultsHidePools, NoAnswer
<1> QED BY <1>2, <1>4, <1>5 DEF PoolInv

LEMMA PoolStepInv == PoolInv /\ [PoolNext]_poolVars => PoolInv'
<1> SUFFICES ASSUME PoolInv, [PoolNext]_poolVars PROVE PoolInv'
  OBVIOUS
<1>1. CASE \E l \in Lookup, p \in Pool : Enter(l, p)
  BY <1>1, EnterKeeps
<1>2. CASE \E l \in Lookup : GetPoolInfo(l)
  BY <1>2, GetPoolInfoKeeps
<1>3. CASE \E l \in Lookup : GetV4PoolInfo(l) \/ GetPcsV4ClPoolInfo(l)
  BY <1>3, PoolKeysKeeps DEF GetV4PoolInfo, GetPcsV4ClPoolInfo
<1>4. CASE \E want \in SUBSET Pool : PrefetchStart(want)
  BY <1>4, PrefetchStartKeeps
<1>5. CASE PrefetchRows
  BY <1>5, PrefetchRowsKeeps
<1>6. CASE fam = "v3" /\ PrefetchChain({})
  BY <1>6, PrefetchChainKeeps
<1>7. CASE fam # "v3" /\ PrefetchChain(Alien)
  BY <1>7, PrefetchChainKeeps
<1>8. CASE BulkUpsert
  BY <1>8, BulkUpsertKeeps
<1>9. CASE UNCHANGED poolVars
  BY <1>9 DEF poolVars, fixed, PoolInv, PoolTypeOK, NoAlien, Vetted, Entitled, Believed, Unhidden, OnlyFaultsHidePools
<1> QED
  BY <1>1, <1>2, <1>3, <1>4, <1>5, <1>6, <1>7, <1>8, <1>9
  DEF PoolNext, PrefetchV3PoolInfo, PrefetchV4PoolInfo, PrefetchPcsV4ClPoolInfo

\* In every reachable state the caches, the rows and the lookups are well typed
\* (swap-listener.ts, the five maps and sets of the pool cache).
THEOREM PoolTypeCorrect == PoolSpec => []PoolTypeOK
<1>1. PoolInv => PoolTypeOK
  BY DEF PoolInv
<1> QED BY <1>1, PoolInitInv, PoolStepInv, PTL DEF PoolSpec

\* An identifier that is no pool of the exchange reaches a cache, a row or the swap
\* processing only from the table the run started with, by naming the exchange's factory
\* itself, or by a V3 prefetch without a discovery, whatever calls fail and however lookups
\* and prefetches interleave (swap-listener.ts verifyPoolFactory, prefetchV3PoolInfo).
THEOREM AliensNeverEnter == PoolSpec => []AliensStayOut
<1>1. PoolInv => AliensStayOut
  <2> SUFFICES ASSUME PoolInv PROVE AliensStayOut
    OBVIOUS
  <2>1. Admitted \subseteq Entitled
    BY DEF Admitted, PoolInv, NoAlien, Vetted
  <2> QED BY <2>1 DEF PoolInv, NoAlien, Entitled, AliensStayOut
<1> QED BY <1>1, PoolInitInv, PoolStepInv, PTL DEF PoolSpec

\* While no call has failed, nothing genuine is refused and every cached pool has, or is
\* about to have, its row (swap-listener.ts getPoolInfo, getV4PoolInfo).
THEOREM NothingHiddenWithoutFault == PoolSpec => []OnlyFaultsHidePools
<1>1. PoolInv => OnlyFaultsHidePools
  BY DEF PoolInv, Unhidden
<1> QED BY <1>1, PoolInitInv, PoolStepInv, PTL DEF PoolSpec

-----------------------------------------------------------------------------
(***************************************************************************)
(* What is left of a sequence when some of its members are deleted         *)
(***************************************************************************)
KeptFrom(g, s, keep, n) ==
    IF n = 0 THEN <<>>
    ELSE IF s[n] \in keep THEN Append(g[n-1], s[n]) ELSE g[n-1]

KeptUpTo(g, s, keep, m) == g = [n \in 0..m |-> KeptFrom(g, s, keep, n)]

\* r is what is left of the first n members of s: h has the old places.
Embeds(h, r, s, keep, n) ==
    /\ h \in [1..Len(r) -> 1..n]
    /\ \A i \in 1..Len(r) : r[i] = s[h[i]] /\ r[i] \in keep
    /\ \A i, j \in 1..Len(r) : i < j => h[i] < h[j]
    /\ \A p \in 1..n : s[p] \in keep => \E i \in 1..Len(r) : h[i] = p
    /\ Len(r) <= n /\ (Len(r) = n => \A p \in 1..n : s[p] \in keep)

LEMMA KeptExists ==
    ASSUME NEW s, NEW keep, NEW l \in Nat PROVE \E g : KeptUpTo(g, s, keep, l)
<1> DEFINE B == {m \in 0..l : ~ \E g : KeptUpTo(g, s, keep, m)}
<1>1. ASSUME B # {} PROVE FALSE
  <2>1. PICK m \in B : \A k \in B : m <= k
    <3>1. B \in SUBSET Nat
      OBVIOUS
    <3> HIDE DEF B
    <3> QED BY <1>1, <3>1, NatMin
  <2>2. m # 0
    <3> DEFINE g == [n \in 0..0 |-> <<>>]
    <3>1. \A n \in 0..0 : KeptFrom(g, s, keep, n) = <<>>
      BY DEF KeptFrom
    <3>2. KeptUpTo(g, s, keep, 0)
      BY <3>1 DEF KeptUpTo
    <3> QED BY <2>1, <3>2
  <2>3. PICK f : KeptUpTo(f, s, keep, m - 1)
    <3>1. m - 1 \in 0..l /\ ~ (m <= m - 1)
      BY <2>1, <2>2
    <3> QED BY <2>1, <3>1
  <2> DEFINE g == [n \in 0..m |-> IF n = m THEN KeptFrom(f, s, keep, m) ELSE f[n]]
  <2>4. ASSUME NEW n \in 0..m PROVE g[n] = KeptFrom(g, s, keep, n)
    <3>1. n # 0 => n - 1 \in 0..m /\ n - 1 # m /\ g[n-1] = f[n-1]
      BY <2>1
    <3>2. KeptFrom(g, s, keep, n) = KeptFrom(f, s, keep, n)
      <4> HIDE DEF g
      <4> QED BY <3>1 DEF KeptFrom
    <3>3. n # m => f[n] = KeptFrom(f, s, keep, n)
      <4>1. n # m => n \in 0..(m - 1)
        BY <2>1
      <4> QED BY <2>3, <4>1 DEF KeptUpTo
    <3>4. g[n] = IF n = m THEN KeptFrom(f, s, keep, m) ELSE f[n]
      OBVIOUS
    <3> HIDE DEF g
    <3> QED BY <3>2, <3>3, <3>4
  <2>5. KeptUpTo(g, s, keep, m)
    <3>1. g = [n \in 0..m |-> g[n]]
      OBVIOUS
    <3> HIDE DEF g
    <3>2. [n \in 0..m |-> g[n]] = [n \in 0..m |-> KeptFrom(g, s, keep, n)]
      BY <2>4
    <3> QED BY <3>1, <3>2 DEF KeptUpTo
  <2> QED BY <2>1, <2>5
<1>2. l \in 0..l
  OBVIOUS
<1> QED BY <1>1, <1>2

LEMMA KeptEmbeds ==
    ASSUME NEW E, NEW s \in Seq(E), NEW keep
    PROVE  /\ Kept(s, keep) \in Seq(E)
           /\ \E h : Embeds(h, Kept(s, keep), s, keep, Len(s))
<1> DEFINE l == Len(s)
           g == CHOOSE f : KeptUpTo(f, s, keep, l)
           Good(n) == g[n] \in Seq(E) /\ \E h : Embeds(h, g[n], s, keep, n)
           B == {n \in 0..l : ~ Good(n)}
<1>1. Kept(s, keep) = g[l]
  BY DEF Kept, KeptUpTo, KeptFrom
<1>2. l \in Nat /\ \A p \in 1..l : s[p] \in E
  OBVIOUS
<1>3. KeptUpTo(g, s, keep, l)
  BY <1>2, KeptExists
<1> HIDE DEF g
<1>4. \A n \in 0..l : g[n] = KeptFrom(g, s, keep, n)
  BY <1>3 DEF KeptUpTo
<1>5. Good(0)
  <2>1. g[0] = <<>>
    BY <1>2, <1>4 DEF KeptFrom
  <2>2. Len(g[0]) = 0 /\ g[0] \in Seq(E)
    BY <2>1
  <2>3. Embeds([i \in 1..0 |-> 0], g[0], s, keep, 0)
    BY <2>2 DEF Embeds
  <2> QED BY <2>2, <2>3
<1>6. ASSUME NEW n \in 1..l, Good(n - 1) PROVE Good(n)
  <2> DEFINE q == g[n-1]
  <2>1. q \in Seq(E) /\ Len(q) \in Nat /\ s[n] \in E
    BY <1>2, <1>6
  <2>2. PICK h : Embeds(h, q, s, keep, n - 1)
    BY <1>6
  <2>3. g[n] = IF s[n] \in keep THEN Append(q, s[n]) ELSE q
    <3>1. n \in 0..l /\ n # 0
      BY <1>2
    <3> QED BY <1>4, <3>1 DEF KeptFrom
  <2> HIDE DEF q
  <2> USE DEF Embeds
  <2>4. CASE s[n] \notin keep
    <3>1. g[n] = q
      BY <2>3, <2>4
    <3>2. \A p \in 1..n : p \in 1..(n - 1) \/ p = n
      BY <1>2
    <3>3. h \in [1..Len(q) -> 1..n]
      <4>1. h \in [1..Len(q) -> 1..(n - 1)]
        BY <2>2
      <4>2. 1..(n - 1) \subseteq 1..n
        BY <1>2
      <4> QED BY <4>1, <4>2
    <3>4. \A p \in 1..n : s[p] \in keep => \E i \in 1..Len(q) : h[i] = p
      BY <2>2, <2>4, <3>2
    <3>5. Len(q) <= n /\ Len(q) # n
      BY <1>2, <2>1, <2>2
    <3>6. Embeds(h, q, s, keep, n)
      BY <2>2, <3>3, <3>4, <3>5
    <3> QED BY <2>1, <3>1, <3>6
  <2>5. CASE s[n] \in keep
    <3> DEFINE m == Len(q)
               r == Append(q, s[n])
               k == [i \in 1..(m + 1) |-> IF i = m + 1 THEN n ELSE h[i]]
    <3>1. g[n] = r /\ r \in Seq(E)
      BY <2>1, <2>3, <2>5
    <3>2. Len(r) = m + 1 /\ r[m + 1] = s[n] /\ \A i \in 1..m : r[i] = q[i]
      BY <2>1
    <3>3. /\ m \in Nat /\ m <= n - 1 /\ \A i \in 1..m : h[i] \in 1..(n - 1)
          /\ \A i \in 1..(m + 1) : i \in 1..m \/ i = m + 1
          /\ m + 1 \in 1..(m + 1) /\ m + 1 \notin 1..m
      <4>1. m \in Nat /\ m <= n - 1 /\ \A i \in 1..m : h[i] \in 1..(n - 1)
        BY <2>1, <2>2
      <4> HIDE DEF m
      <4> QED BY <4>1
    <3>4. k[m + 1] = n /\ \A i \in 1..m : k[i] = h[i] /\ i \in 1..(m + 1)
      BY <3>3
    <3>5. k \in [1..(m + 1) -> 1..n]
      <4>1. \A i \in 1..(m + 1) : k[i] \in 1..n
        BY <1>2, <3>3
      <4> QED BY <4>1
    <3> HIDE DEF r, k, m
    <3>6. \A i \in 1..(m + 1) : r[i] = s[k[i]] /\ r[i] \in keep
      BY <2>2, <2>5, <3>2, <3>3, <3>4 DEF m
    <3>7. ASSUME NEW i \in 1..(m + 1), NEW j \in 1..(m + 1), i < j PROVE k[i] < k[j]
      <4>1. i \in 1..m
        BY <3>3, <3>7
      <4>2. CASE j = m + 1
        BY <1>2, <3>3, <3>4, <4>1, <4>2
      <4>3. CASE j \in 1..m
        BY <2>2, <3>4, <3>7, <4>1, <4>3 DEF m
      <4> QED BY <3>3, <4>2, <4>3
    <3>8. ASSUME NEW p \in 1..n, s[p] \in keep PROVE \E i \in 1..(m + 1) : k[i] = p
      <4>1. CASE p = n
        BY <3>3, <3>4, <4>1
      <4>2. CASE p # n
        <5>1. p \in 1..(n - 1)
          BY <1>2, <4>2
        <5> QED BY <2>2, <3>4, <3>8, <5>1 DEF m
      <4> QED BY <4>1, <4>2
    <3>9. m + 1 <= n /\ (m + 1 = n => \A p \in 1..n : s[p] \in keep)
      <4>1. \A p \in 1..n : p \in 1..(n - 1) \/ p = n
        BY <1>2
      <4>2. m = n - 1 => \A p \in 1..(n - 1) : s[p] \in keep
        BY <2>2 DEF m
      <4> QED BY <1>2, <2>5, <3>3, <4>1, <4>2
    <3>10. Embeds(k, r, s, keep, n)
      BY <3>2, <3>5, <3>6, <3>7, <3>8, <3>9
    <3> QED BY <3>1, <3>10
  <2> QED BY <2>4, <2>5
<1>7. ASSUME B # {} PROVE FALSE
  <2>1. PICK n \in B : \A k \in B : n <= k
    <3>1. B \in SUBSET Nat
      OBVIOUS
    <3> HIDE DEF B
    <3> QED BY <1>7, <3>1, NatMin
  <2>2. n # 0
    BY <1>5, <2>1
  <2>3. n - 1 \in 0..l /\ n \in 1..l /\ ~ (n <= n - 1)
    BY <1>2, <2>1, <2>2
  <2>4. Good(n - 1)
    <3> HIDE DEF Good
    <3> QED BY <2>1, <2>3
  <2> HIDE DEF Good
  <2>5. Good(n)
    BY <1>6, <2>3, <2>4
  <2> QED BY <2>1, <2>5
<1>8. Good(l)
  <2>1. l \in 0..l
    BY <1>2
  <2> HIDE DEF Good
  <2> QED BY <1>7, <2>1
<1> QED BY <1>1, <1>8

-----------------------------------------------------------------------------
(***************************************************************************)
(* The cache                                                               *)
(***************************************************************************)
CacheEntry == [key : Key, value : Value, expireAt : Nat]
Written == [value : Value, at : Nat]

\* The members of u after k.
LaterUses(u, k) == {u[j] : j \in {n \in 1..Len(u) : \E i \in 1..n-1 : u[i] = k}}

\* An entry holds the value last set for its key, and lives as long as it is fresh.
Holds(l, e) ==
    \E s \in Written :
        /\ l[e.key] = {s}
        /\ e.value = s.value
        /\ e.expireAt = IF Ttl > 0 THEN s.at + Ttl ELSE Never

\* Entries in the order of the uses u, each once, with the values of l.
InOrderOfUse(m, u, l) ==
    /\ \A i, j \in 1..Len(m) : m[i].key = m[j].key => i = j
    /\ \A i, j \in 1..Len(m) : i < j => m[j].key \in LaterUses(u, m[i].key)
    /\ \A i \in 1..Len(m) : \E n \in 1..Len(u) : u[n] = m[i].key
    /\ \A i \in 1..Len(m) : Holds(l, m[i])

LEMMA LaterUsesFacts ==
    ASSUME NEW u \in Seq(Key), NEW k
    PROVE  /\ LaterUses(u, k) \subseteq Key /\ IsFiniteSet(LaterUses(u, k))
           /\ Cardinality(LaterUses(u, k)) \in Nat
           /\ \A a, b \in 1..Len(u) : a < b /\ u[a] = k => u[b] \in LaterUses(u, k)
<1>1. LaterUses(u, k) \subseteq Key
  BY DEF LaterUses
<1>2. \A a, b \in 1..Len(u) : a < b /\ u[a] = k => u[b] \in LaterUses(u, k)
  BY DEF LaterUses
<1> QED BY <1>1, <1>2, TTLCacheAssumption, FS_Subset, FS_CardinalityType DEF TTLCacheAssumption

\* w are the uses u with a use of k.
IsUsed(u, k, w) == w = Append(Kept(u, Key \ {k}), k)

\* A use takes nothing from what was used after another key, and adds to it.
LEMMA UsedFacts ==
    ASSUME NEW u \in Seq(Key), NEW k \in Key, NEW w, IsUsed(u, k, w), NEW j \in Key, j # k
    PROVE  /\ LaterUses(u, j) \subseteq LaterUses(w, j)
           /\ (\E n \in 1..Len(u) : u[n] = j) =>
                 k \in LaterUses(w, j) /\ \E n \in 1..Len(w) : w[n] = j
<1>1. PICK r : r = Kept(u, Key \ {k})
  OBVIOUS
<1> DEFINE l == Len(r)
<1>2. r \in Seq(Key) /\ w = Append(r, k)
  BY <1>1, KeptEmbeds DEF IsUsed
<1>3. PICK h : Embeds(h, r, u, Key \ {k}, Len(u))
  BY <1>1, KeptEmbeds
<1>4. /\ w \in Seq(Key) /\ l \in Nat /\ Len(w) = l + 1 /\ w[l + 1] = k
      /\ \A i \in 1..l : w[i] = r[i]
  BY <1>2
<1>5. /\ h \in [1..l -> 1..Len(u)]
      /\ \A i \in 1..l : r[i] = u[h[i]]
      /\ \A a, b \in 1..l : a < b => h[a] < h[b]
      /\ \A p \in 1..Len(u) : u[p] \in Key \ {k} => \E i \in 1..l : h[i] = p
  BY <1>3 DEF Embeds
<1> HIDE DEF l
<1>6. \A p \in 1..Len(u) : u[p] \in Key \ {k} => \E i \in 1..l : h[i] = p /\ w[i] = u[p]
  <2>1. \A i \in 1..l : w[i] = u[h[i]]
    BY <1>4, <1>5
  <2>2. ASSUME NEW p \in 1..Len(u), u[p] \in Key \ {k}
        PROVE  \E i \in 1..l : h[i] = p /\ w[i] = u[p]
    <3>1. PICK i \in 1..l : h[i] = p
      BY <1>5, <2>2
    <3> QED BY <2>1, <3>1
  <2> QED BY <2>2
<1>7. /\ LaterUses(u, j) \subseteq LaterUses(w, j)
      /\ (\E n \in 1..Len(u) : u[n] = j) =>
            k \in LaterUses(w, j) /\ \E n \in 1..Len(w) : w[n] = j
  <2>0. \A a, b \in 1..Len(w) : a < b /\ w[a] = j => w[b] \in LaterUses(w, j)
    BY <1>4, LaterUsesFacts
  <2>1. ASSUME NEW n \in 1..Len(u), u[n] = j
        PROVE  k \in LaterUses(w, j) /\ \E c \in 1..Len(w) : w[c] = j
    <3>1. PICK a \in 1..l : w[a] = j
      BY <1>6, <2>1
    <3>2. a \in 1..(l + 1) /\ l + 1 \in 1..(l + 1) /\ a < l + 1
      BY <1>4
    <3> QED BY <1>4, <2>0, <3>1, <3>2
  <2>2. ASSUME NEW x \in LaterUses(u, j) PROVE x \in LaterUses(w, j)
    <3>1. PICK q \in 1..Len(u), p \in 1..Len(u) : p < q /\ u[q] = x /\ u[p] = j
      BY DEF LaterUses
    <3>2. u[q] \in Key
      BY <3>1
    <3>3. CASE x = k
      BY <2>1, <3>1, <3>2, <3>3
    <3>4. CASE x # k
      <4>1. PICK a \in 1..l : h[a] = p /\ w[a] = j
        BY <1>6, <3>1, <3>2
      <4>2. PICK b \in 1..l : h[b] = q /\ w[b] = x
        BY <1>6, <3>1, <3>2, <3>4
      <4>3. a # b /\ ~ (b < a)
        BY <1>5, <3>1, <4>1, <4>2
      <4>4. a < b /\ a \in 1..(l + 1) /\ b \in 1..(l + 1)
        BY <1>4, <4>3
      <4> QED BY <1>4, <2>0, <4>1, <4>2, <4>4
    <3> QED BY <3>3, <3>4
  <2> QED BY <2>1, <2>2
<1> QED BY <1>7

\* The key that is used comes last.
LEMMA UsedLast ==
    ASSUME NEW u \in Seq(Key), NEW k \in Key, NEW w, IsUsed(u, k, w)
    PROVE  w \in Seq(Key) /\ \E n \in 1..Len(w) : w[n] = k
<1>1. PICK r : r = Kept(u, Key \ {k})
  OBVIOUS
<1>2. r \in Seq(Key) /\ w = Append(r, k)
  BY <1>1, KeptEmbeds DEF IsUsed
<1>3. /\ w \in Seq(Key) /\ w[Len(r) + 1] = k /\ Len(r) \in Nat
      /\ Len(w) = Len(r) + 1
  BY <1>2
<1>4. Len(r) + 1 \in 1..Len(w)
  BY <1>3
<1> QED BY <1>3, <1>4

\* m is what is left of s, m is q and e after it, p is m without its first.
IsKept(m, s, keep) == m = Kept(s, keep)
IsPut(m, q, e) == m = Append(q, e)
IsRest(p, m) == p = SubSeq(m, 2, Len(m))

\* m are the members of s in keep, in their order.
Remains(m, s, keep, u, l) ==
    /\ m \in Seq(CacheEntry) /\ Len(m) \in Nat /\ Len(m) <= Len(s) /\ Len(s) \in Nat
    /\ Len(m) = Len(s) => \A i \in 1..Len(s) : s[i] \in keep
    /\ InOrderOfUse(m, u, l)
    /\ \A i \in 1..Len(m) : m[i] \in keep
    /\ \A p \in 1..Len(s) : s[p] \in keep => \E i \in 1..Len(m) : m[i] = s[p]

\* Deletions keep the order.
LEMMA DeletedFacts ==
    ASSUME NEW s \in Seq(CacheEntry), NEW u, NEW l, InOrderOfUse(s, u, l),
           NEW keep, NEW m, IsKept(m, s, keep)
    PROVE  Remains(m, s, keep, u, l)
<1>1. m \in Seq(CacheEntry)
  BY KeptEmbeds DEF IsKept
<1>2. PICK h : Embeds(h, m, s, keep, Len(s))
  BY KeptEmbeds DEF IsKept
<1>3. /\ \A i \in 1..Len(m) : h[i] \in 1..Len(s) /\ m[i] = s[h[i]] /\ m[i] \in keep
      /\ \A i, j \in 1..Len(m) : i < j => h[i] < h[j]
      /\ \A p \in 1..Len(s) : s[p] \in keep => \E i \in 1..Len(m) : h[i] = p
      /\ Len(m) <= Len(s) /\ (Len(m) = Len(s) => \A p \in 1..Len(s) : s[p] \in keep)
  BY <1>2 DEF Embeds
<1>4. Len(m) \in Nat /\ Len(s) \in Nat
  BY <1>1
<1>5. ASSUME NEW i \in 1..Len(m), NEW j \in 1..Len(m), m[i].key = m[j].key, i # j PROVE FALSE
  <2>1. h[i] \in 1..Len(s) /\ h[j] \in 1..Len(s) /\ s[h[i]].key = s[h[j]].key
    BY <1>3, <1>5
  <2>2. h[i] = h[j]
    BY <2>1 DEF InOrderOfUse
  <2>3. i < j \/ j < i
    BY <1>4, <1>5
  <2>4. h[i] < h[j] \/ h[j] < h[i]
    BY <1>3, <2>3
  <2> QED BY <2>1, <2>2, <2>4
<1>6. ASSUME NEW i \in 1..Len(m), NEW j \in 1..Len(m), i < j
      PROVE  m[j].key \in LaterUses(u, m[i].key)
  <2>1. h[i] \in 1..Len(s) /\ h[j] \in 1..Len(s) /\ h[i] < h[j]
    BY <1>3, <1>6
  <2>2. s[h[j]].key \in LaterUses(u, s[h[i]].key)
    BY <2>1 DEF InOrderOfUse
  <2> QED BY <1>3, <2>2
<1>7. ASSUME NEW i \in 1..Len(m) PROVE Holds(l, m[i]) /\ \E n \in 1..Len(u) : u[n] = m[i].key
  <2>1. h[i] \in 1..Len(s) /\ m[i] = s[h[i]]
    BY <1>3
  <2>2. Holds(l, s[h[i]]) /\ \E n \in 1..Len(u) : u[n] = s[h[i]].key
    BY <2>1 DEF InOrderOfUse
  <2> QED BY <2>1, <2>2
<1>8. InOrderOfUse(m, u, l)
  BY <1>5, <1>6, <1>7 DEF InOrderOfUse
<1>9. ASSUME NEW p \in 1..Len(s), s[p] \in keep PROVE \E i \in 1..Len(m) : m[i] = s[p]
  <2>1. PICK i \in 1..Len(m) : h[i] = p
    BY <1>3, <1>9
  <2>2. m[i] = s[h[i]]
    BY <1>3
  <2> QED BY <2>1, <2>2
<1> QED BY <1>1, <1>3, <1>4, <1>8, <1>9 DEF Remains

\* A new entry at the end, its key used now.
LEMMA PutInOrder ==
    ASSUME NEW q \in Seq(CacheEntry), NEW u \in Seq(Key), NEW l, InOrderOfUse(q, u, l),
           NEW k \in Key, \A i \in 1..Len(q) : q[i].key # k,
           NEW e \in CacheEntry, e.key = k, NEW m, IsPut(m, q, e),
           NEW w, IsUsed(u, k, w),
           NEW l2, \A j \in Key \ {k} : l2[j] = l[j], Holds(l2, e)
    PROVE  InOrderOfUse(m, w, l2)
<1> DEFINE n == Len(q)
<1>1. /\ n \in Nat /\ Len(m) = n + 1 /\ m[n + 1] = e
      /\ \A i \in 1..n : m[i] = q[i]
      /\ \A i \in 1..n : q[i].key \in Key \ {k}
  <2>1. /\ n \in Nat /\ Len(m) = n + 1 /\ m[n + 1] = e
        /\ \A i \in 1..n : m[i] = q[i] /\ q[i] \in CacheEntry
    BY DEF IsPut
  <2> QED BY <2>1 DEF CacheEntry
<1>2. /\ \E c \in 1..Len(w) : w[c] = k
      /\ \A j \in Key \ {k} :
            /\ LaterUses(u, j) \subseteq LaterUses(w, j)
            /\ (\E c \in 1..Len(u) : u[c] = j) =>
                  k \in LaterUses(w, j) /\ \E c \in 1..Len(w) : w[c] = j
  <2>1. ASSUME NEW j \in Key \ {k}
        PROVE  /\ LaterUses(u, j) \subseteq LaterUses(w, j)
               /\ (\E c \in 1..Len(u) : u[c] = j) =>
                     k \in LaterUses(w, j) /\ \E c \in 1..Len(w) : w[c] = j
    BY <2>1, UsedFacts
  <2> QED BY <2>1, UsedLast
<1>3. /\ \A i, j \in 1..n : q[i].key = q[j].key => i = j
      /\ \A i, j \in 1..n : i < j => q[j].key \in LaterUses(u, q[i].key)
      /\ \A i \in 1..n : \E c \in 1..Len(u) : u[c] = q[i].key
      /\ \A i \in 1..n : Holds(l, q[i])
  BY DEF InOrderOfUse
<1> HIDE DEF n
<1>4. \A i \in 1..(n + 1) : i \in 1..n \/ i = n + 1
  BY <1>1
<1>5. ASSUME NEW i \in 1..(n + 1), NEW j \in 1..(n + 1), m[i].key = m[j].key PROVE i = j
  <2>1. CASE i \in 1..n /\ j \in 1..n
    BY <1>1, <1>3, <1>5, <2>1
  <2>2. CASE i = n + 1 \/ j = n + 1
    <3>1. \A c \in 1..n : m[c].key # k
      BY <1>1
    <3> QED BY <1>1, <1>4, <1>5, <2>2, <3>1
  <2> QED BY <1>4, <2>1, <2>2
<1>6. ASSUME NEW i \in 1..(n + 1), NEW j \in 1..(n + 1), i < j
      PROVE  m[j].key \in LaterUses(w, m[i].key)
  <2>1. i \in 1..n
    BY <1>1, <1>6
  <2>2. m[i] = q[i] /\ q[i].key \in Key \ {k}
    BY <1>1, <2>1
  <2>3. CASE j = n + 1
    <3>1. k \in LaterUses(w, q[i].key)
      BY <1>2, <1>3, <2>1, <2>2
    <3> QED BY <1>1, <2>2, <2>3, <3>1
  <2>4. CASE j \in 1..n
    <3>1. q[j].key \in LaterUses(u, q[i].key) /\ m[j] = q[j]
      BY <1>1, <1>3, <1>6, <2>1, <2>4
    <3> QED BY <1>2, <2>2, <3>1
  <2> QED BY <1>4, <2>3, <2>4
<1>7. ASSUME NEW i \in 1..(n + 1)
      PROVE  Holds(l2, m[i]) /\ \E c \in 1..Len(w) : w[c] = m[i].key
  <2>1. CASE i = n + 1
    BY <1>1, <1>2, <2>1
  <2>2. CASE i \in 1..n
    <3>1. m[i] = q[i] /\ q[i].key \in Key \ {k} /\ Holds(l, q[i])
      BY <1>1, <1>3, <2>2
    <3>2. Holds(l2, q[i])
      BY <3>1 DEF Holds
    <3>3. \E c \in 1..Len(w) : w[c] = q[i].key
      BY <1>2, <1>3, <2>2, <3>1
    <3> QED BY <3>1, <3>2, <3>3
  <2> QED BY <1>4, <2>1, <2>2
<1> QED BY <1>1, <1>5, <1>6, <1>7 DEF InOrderOfUse

\* p is m without its first, after which all the others were used.
FirstOut(p, m, w, l) ==
    /\ p \in Seq(CacheEntry) /\ Len(p) = Len(m) - 1 /\ InOrderOfUse(p, w, l)
    /\ \A i \in 1..Len(p) : p[i] = m[i + 1]
    /\ Cardinality(LaterUses(w, m[1].key)) >= Len(p)

LEMMA FrontOut ==
    ASSUME NEW m \in Seq(CacheEntry), NEW w \in Seq(Key), NEW l, InOrderOfUse(m, w, l),
           Len(m) > 1, NEW p, IsRest(p, m)
    PROVE  FirstOut(p, m, w, l)
<1>0. PICK n \in Nat \ {0} : Len(m) = n + 1
  <2>1. Len(m) \in Nat
    OBVIOUS
  <2>2. PICK l0 \in Nat : l0 = Len(m)
    BY <2>1
  <2>3. l0 - 1 \in Nat \ {0} /\ Len(m) = (l0 - 1) + 1
    BY <2>2
  <2> QED BY <2>3
<1>1. /\ p \in Seq(CacheEntry) /\ Len(p) = n
      /\ \A i \in 1..n : p[i] = m[i + 1]
  BY <1>0 DEF IsRest
<1>2. \A i \in 1..n : i + 1 \in 1..(n + 1)
  BY <1>0
<1>3. /\ \A i, j \in 1..(n + 1) : m[i].key = m[j].key => i = j
      /\ \A i, j \in 1..(n + 1) : i < j => m[j].key \in LaterUses(w, m[i].key)
      /\ \A i \in 1..(n + 1) : \E c \in 1..Len(w) : w[c] = m[i].key
      /\ \A i \in 1..(n + 1) : Holds(l, m[i])
  BY <1>0 DEF InOrderOfUse
<1>4. ASSUME NEW i \in 1..n, NEW j \in 1..n, p[i].key = p[j].key PROVE i = j
  <2>1. m[i + 1].key = m[j + 1].key
    BY <1>1, <1>4
  <2>2. i + 1 = j + 1
    BY <1>2, <1>3, <2>1
  <2> QED BY <1>0, <2>2
<1>5. ASSUME NEW i \in 1..n, NEW j \in 1..n, i < j PROVE p[j].key \in LaterUses(w, p[i].key)
  <2>1. i + 1 < j + 1 /\ i + 1 \in 1..(n + 1) /\ j + 1 \in 1..(n + 1)
    BY <1>0, <1>2, <1>5
  <2>2. m[j + 1].key \in LaterUses(w, m[i + 1].key)
    BY <1>3, <2>1
  <2> QED BY <1>1, <2>2
<1>6. InOrderOfUse(p, w, l)
  <2>1. ASSUME NEW i \in 1..n
        PROVE  Holds(l, p[i]) /\ \E c \in 1..Len(w) : w[c] = p[i].key
    <3>1. Holds(l, m[i + 1]) /\ \E c \in 1..Len(w) : w[c] = m[i + 1].key
      BY <1>2, <1>3
    <3> QED BY <1>1, <3>1
  <2> QED BY <1>1, <1>4, <1>5, <2>1 DEF InOrderOfUse
<1> DEFINE f == [i \in 2..(n + 1) |-> m[i].key]
           U == LaterUses(w, m[1].key)
<1>7. \A i \in 2..(n + 1) : i \in 1..(n + 1) /\ 1 < i /\ 1 \in 1..(n + 1)
  BY <1>0
<1>8. f \in [2..(n + 1) -> U]
  <2>1. ASSUME NEW i \in 2..(n + 1) PROVE m[i].key \in U
    BY <1>3, <1>7
  <2> QED BY <2>1
<1>9. \A x, y \in 2..(n + 1) : f[x] = f[y] => x = y
  BY <1>3, <1>7
<1>10. IsFiniteSet(U) /\ Cardinality(U) \in Nat
  BY LaterUsesFacts
<1>11. IsFiniteSet(2..(n + 1)) /\ Cardinality(2..(n + 1)) = n
  <2>1. /\ IsFiniteSet(2..(n + 1))
        /\ Cardinality(2..(n + 1)) = IF 2 > n + 1 THEN 0 ELSE (n + 1) - 2 + 1
    BY <1>0, FS_Interval
  <2> QED BY <1>0, <2>1
<1> HIDE DEF f, U
<1>12. ~ (Cardinality(U) < n)
  <2> DEFINE S == 2..(n + 1)
  <2>1. /\ IsFiniteSet(S) /\ Cardinality(S) = n /\ f \in [S -> U]
        /\ \A x, y \in S : f[x] = f[y] => x = y
    BY <1>8, <1>9, <1>11
  <2> HIDE DEF S
  <2>2. ASSUME Cardinality(U) < n PROVE FALSE
    <3>1. \E x, y \in S : x # y /\ f[x] = f[y]
      BY <1>10, <2>1, <2>2, FS_PigeonHole
    <3> QED BY <2>1, <3>1
  <2> QED BY <2>2
<1> QED BY <1>0, <1>1, <1>6, <1>10, <1>12 DEF U, FirstOut

-----------------------------------------------------------------------------
CacheTypes ==
    /\ map \in Seq(CacheEntry)
    /\ now \in 1..MaxNow
    /\ latest \in [Key -> SUBSET Written]
    /\ \A k \in Key : latest[k] = {} \/ \E s \in Written : latest[k] = {s}
    /\ uses \in Seq(Key)

\* A value that is missing before its time was pushed out.
PushedOut(k) == Fresh(k) => Cardinality(LaterUses(uses, k)) >= CacheMax

CacheInv ==
    /\ CacheTypes
    /\ InOrderOfUse(map, uses, latest)
    /\ Len(map) <= CacheMax
    /\ \A k \in Key \ Keys : PushedOut(k)

\* An entry has expired when its key is not fresh.
LEMMA EntryFacts ==
    ASSUME CacheInv, NEW e \in Entries
    PROVE  /\ e \in CacheEntry /\ e.key \in Keys /\ e.key \in Key /\ Holds(latest, e)
           /\ e = EntryOf(e.key)
           /\ Expired(e) <=> ~ Fresh(e.key)
<1>1. /\ map \in Seq(CacheEntry) /\ InOrderOfUse(map, uses, latest)
      /\ now \in Nat /\ Ttl \in Nat
  BY TTLCacheAssumption DEF CacheInv, CacheTypes, TTLCacheAssumption
<1>2. PICK i \in 1..Len(map) : e = map[i]
  BY DEF Entries
<1>3. e \in CacheEntry /\ e.key \in Keys /\ e.key \in Key /\ Holds(latest, e)
  <2>1. e \in CacheEntry /\ Holds(latest, e)
    BY <1>1, <1>2 DEF InOrderOfUse
  <2>2. e.key \in Keys
    BY <1>2 DEF Keys
  <2> QED BY <2>1, <2>2 DEF CacheEntry
<1>4. \A f \in Entries : f.key = e.key => f = e
  BY <1>1, <1>2 DEF Entries, InOrderOfUse
<1>5. EntryOf(e.key) \in Entries /\ EntryOf(e.key).key = e.key
  BY DEF EntryOf
<1>6. PICK s \in Written : /\ latest[e.key] = {s}
                           /\ e.expireAt = IF Ttl > 0 THEN s.at + Ttl ELSE Never
  BY <1>3 DEF Holds
<1>7. s.at \in Nat
  BY DEF Written
<1>8. Fresh(e.key) <=> (Ttl = 0 \/ now < s.at + Ttl)
  BY <1>6 DEF Fresh
<1>9. Expired(e) <=> ~ (Ttl = 0 \/ now < s.at + Ttl)
  BY <1>1, <1>6, <1>7 DEF Expired, Never
<1> QED BY <1>3, <1>4, <1>5, <1>8, <1>9

LEMMA KeyHasEntry ==
    ASSUME CacheInv, NEW k \in Keys
    PROVE  EntryOf(k) \in Entries /\ EntryOf(k).key = k /\ k \in Key
<1>1. PICK i \in 1..Len(map) : map[i].key = k
  BY DEF Keys
<1>2. map[i] \in Entries /\ map[i].key = k
  BY <1>1 DEF Entries
<1>3. EntryOf(k) \in Entries /\ EntryOf(k).key = k
  BY <1>2 DEF EntryOf
<1> QED BY <1>3, EntryFacts

-----------------------------------------------------------------------------
\* Entries that have expired may go: their keys are not fresh.
LEMMA ExpiredGo ==
    ASSUME CacheInv, NEW keep, map' = Kept(map, keep),
           \A e \in Entries : e \notin keep => Expired(e),
           UNCHANGED <<now, latest, uses>>
    PROVE  CacheInv'
<1>1. PICK m : m = map'
  OBVIOUS
<1>2. map \in Seq(CacheEntry) /\ InOrderOfUse(map, uses, latest) /\ IsKept(m, map, keep)
  BY <1>1 DEF CacheInv, CacheTypes, IsKept
<1>3. /\ m \in Seq(CacheEntry) /\ Len(m) \in Nat /\ Len(m) <= Len(map) /\ Len(map) \in Nat
      /\ InOrderOfUse(m, uses, latest)
      /\ \A p \in 1..Len(map) : map[p] \in keep => \E i \in 1..Len(m) : m[i] = map[p]
  <2>1. Remains(m, map, keep, uses, latest)
    BY <1>2, DeletedFacts
  <2> QED BY <2>1 DEF Remains
<1>4. CacheTypes'
  BY <1>1, <1>3 DEF CacheInv, CacheTypes
<1>5. InOrderOfUse(map, uses, latest)'
  BY <1>1, <1>3
<1>6. Len(map') <= CacheMax
  BY <1>1, <1>3, TTLCacheAssumption DEF CacheInv, TTLCacheAssumption
<1>7. ASSUME NEW k \in Key \ Keys' PROVE PushedOut(k)'
  <2>1. PushedOut(k)' <=> PushedOut(k)
    BY DEF PushedOut, Fresh
  <2>2. CASE k \notin Keys
    BY <2>1, <2>2 DEF CacheInv
  <2>3. CASE k \in Keys
    <3>1. EntryOf(k) \in Entries /\ EntryOf(k).key = k
      BY <2>3, KeyHasEntry
    <3>2. ASSUME EntryOf(k) \in keep PROVE FALSE
      <4>1. PICK p \in 1..Len(map) : map[p] = EntryOf(k)
        BY <3>1 DEF Entries
      <4>2. PICK i \in 1..Len(m) : m[i] = EntryOf(k)
        BY <1>3, <3>2, <4>1
      <4>3. k \in Keys'
        BY <1>1, <3>1, <4>2 DEF Keys
      <4> QED BY <4>3
    <3>3. ~ Fresh(k)
      BY <3>1, <3>2, EntryFacts
    <3> QED BY <2>1, <3>3 DEF PushedOut
  <2> QED BY <2>2, <2>3
<1> QED BY <1>4, <1>5, <1>6, <1>7 DEF CacheInv

\* Deleting the key of an expired entry is such a step.
LEMMA WithoutExpired ==
    ASSUME CacheInv, NEW k \in Keys, Expired(EntryOf(k)), map' = Without(k),
           UNCHANGED <<now, latest, uses>>
    PROVE  CacheInv'
<1>1. PICK keep : keep = {e \in Entries : e.key # k}
  OBVIOUS
<1>2. ASSUME NEW e \in Entries, e \notin keep PROVE Expired(e)
  <2>1. e.key = k
    BY <1>1, <1>2
  <2> QED BY <2>1, EntryFacts
<1>3. map' = Kept(map, keep)
  BY <1>1 DEF Without
<1> QED BY <1>2, <1>3, ExpiredGo

\* At most one too many: nothing or the first is deleted.
LEMMA EnforceMaxFacts ==
    ASSUME NEW m \in Seq(CacheEntry)
    PROVE  /\ Len(m) <= CacheMax => EnforceMax(m) = m
           /\ Len(m) = CacheMax + 1 => EnforceMax(m) = SubSeq(m, 2, Len(m))
<1>1. Len(m) \in Nat /\ CacheMax \in Nat
  BY TTLCacheAssumption DEF TTLCacheAssumption
<1> DEFINE d == 1 + (IF Len(m) > CacheMax THEN Len(m) - CacheMax ELSE 0)
<1>2. EnforceMax(m) = SubSeq(m, d, Len(m))
  BY DEF EnforceMax
<1>3. Len(m) <= CacheMax => d = 1
  BY <1>1
<1>4. Len(m) = CacheMax + 1 => d = 2
  BY <1>1
<1> HIDE DEF d
<1>5. SubSeq(m, 1, Len(m)) = m
  OBVIOUS
<1> QED BY <1>2, <1>3, <1>4, <1>5

\* What is left without a key.
LEMMA WithoutFacts ==
    ASSUME CacheInv, NEW k, NEW q, q = Without(k)
    PROVE  /\ q \in Seq(CacheEntry) /\ Len(q) \in Nat /\ Len(q) <= CacheMax
           /\ k \in Keys => Len(q) < CacheMax
           /\ InOrderOfUse(q, uses, latest)
           /\ \A i \in 1..Len(q) : q[i].key # k
           /\ \A j \in Keys : j # k => \E i \in 1..Len(q) : q[i].key = j
<1>1. PICK keep : keep = {e \in Entries : e.key # k}
  OBVIOUS
<1>2. /\ map \in Seq(CacheEntry) /\ InOrderOfUse(map, uses, latest) /\ IsKept(q, map, keep)
      /\ Len(map) <= CacheMax /\ CacheMax \in Nat
  BY <1>1, TTLCacheAssumption DEF CacheInv, CacheTypes, Without, IsKept, TTLCacheAssumption
<1>3. /\ q \in Seq(CacheEntry) /\ Len(q) \in Nat /\ Len(q) <= Len(map) /\ Len(map) \in Nat
      /\ Len(q) = Len(map) => \A i \in 1..Len(map) : map[i] \in keep
      /\ InOrderOfUse(q, uses, latest)
      /\ \A i \in 1..Len(q) : q[i] \in keep
      /\ \A p \in 1..Len(map) : map[p] \in keep => \E i \in 1..Len(q) : q[i] = map[p]
  <2>1. Remains(q, map, keep, uses, latest)
    BY <1>2, DeletedFacts
  <2> QED BY <2>1 DEF Remains
<1>4. ASSUME k \in Keys PROVE Len(q) # Len(map)
  <2>1. PICK i \in 1..Len(map) : map[i].key = k
    BY <1>4 DEF Keys
  <2> QED BY <1>1, <1>3, <2>1
<1>5. ASSUME NEW j \in Keys, j # k PROVE \E i \in 1..Len(q) : q[i].key = j
  <2>1. PICK p \in 1..Len(map) : map[p].key = j
    BY DEF Keys
  <2>2. map[p] \in keep
    BY <1>1, <1>5, <2>1 DEF Entries
  <2> QED BY <1>3, <2>1, <2>2
<1>6. \A i \in 1..Len(q) : q[i].key # k
  BY <1>1, <1>3
<1> QED BY <1>2, <1>3, <1>4, <1>5, <1>6

\* An entry at the end, and the front pushed out if there are too many.
LEMMA PutKeeps ==
    ASSUME CacheInv, NEW k \in Key, NEW e \in CacheEntry, e.key = k,
           NEW q, q = Without(k), NEW m, m = Append(q, e), map' = EnforceMax(m),
           uses' = Used(k), now' = now, latest' \in [Key -> SUBSET Written],
           \A j \in Key \ {k} : latest'[j] = latest[j], Holds(latest, e)'
    PROVE  CacheInv'
<1> DEFINE n == Len(q)
<1>1. CacheMax \in Nat \ {0} /\ IsFiniteSet(Key)
  BY TTLCacheAssumption DEF TTLCacheAssumption
<1>2. PICK u, l, w, l2, p : u = uses /\ l = latest /\ w = uses' /\ l2 = latest' /\ p = map'
  OBVIOUS
<1>3. /\ q \in Seq(CacheEntry) /\ n \in Nat /\ n <= CacheMax /\ InOrderOfUse(q, u, l)
      /\ \A i \in 1..n : q[i].key # k
      /\ \A j \in Keys : j # k => \E i \in 1..n : q[i].key = j
  BY <1>2, WithoutFacts
<1>4. u \in Seq(Key) /\ IsUsed(u, k, w)
  BY <1>2 DEF CacheInv, CacheTypes, Used, IsUsed
<1>5. w \in Seq(Key)
  BY <1>4, UsedLast
<1>6. Holds(l2, e) /\ \A j \in Key \ {k} : l2[j] = l[j]
  BY <1>2
<1>7. InOrderOfUse(m, w, l2)
  <2>1. IsPut(m, q, e) /\ e \in CacheEntry /\ e.key = k
    BY DEF IsPut
  <2> QED BY <1>3, <1>4, <1>6, <2>1, PutInOrder
<1>8. /\ m \in Seq(CacheEntry) /\ Len(m) = n + 1 /\ m[n + 1] = e
      /\ \A i \in 1..n : m[i] = q[i]
  BY <1>3
<1>9. ASSUME NEW j \in Key, j # k, j \notin Keys PROVE PushedOut(j)'
  <2>1. PushedOut(j)
    BY <1>9 DEF CacheInv
  <2>2. Fresh(j)' <=> Fresh(j)
    BY <1>9 DEF Fresh
  <2>3. LaterUses(u, j) \subseteq LaterUses(w, j)
    BY <1>4, <1>9, UsedFacts
  <2>4. /\ IsFiniteSet(LaterUses(w, j)) /\ Cardinality(LaterUses(w, j)) \in Nat
        /\ Cardinality(LaterUses(u, j)) \in Nat
    BY <1>4, <1>5, LaterUsesFacts
  <2>5. Cardinality(LaterUses(u, j)) <= Cardinality(LaterUses(w, j))
    BY <2>3, <2>4, FS_Subset
  <2>6. Fresh(j) => Cardinality(LaterUses(w, j)) >= CacheMax
    BY <1>1, <1>2, <2>1, <2>4, <2>5 DEF PushedOut
  <2> QED BY <1>2, <2>2, <2>6 DEF PushedOut
<1>10. \A j \in Key : latest'[j] = {} \/ \E s \in Written : latest'[j] = {s}
  <2>1. \E s \in Written : latest'[k] = {s}
    BY <1>2, <1>6 DEF Holds
  <2> QED BY <2>1 DEF CacheInv, CacheTypes
<1> HIDE DEF n
<1>11. ASSUME p \in Seq(CacheEntry) PROVE CacheTypes'
  BY <1>2, <1>5, <1>10, <1>11 DEF CacheInv, CacheTypes
<1>12. Keys' = {p[i].key : i \in 1..Len(p)} /\ p = EnforceMax(m)
  BY <1>2 DEF Keys
<1>13. CASE n < CacheMax
  <2>1. p = m
    <3>1. Len(m) \in Nat /\ Len(m) <= CacheMax
      BY <1>1, <1>3, <1>8, <1>13
    <3> QED BY <1>8, <1>12, <3>1, EnforceMaxFacts
  <2>2. ASSUME NEW j \in Key \ Keys' PROVE j # k /\ j \notin Keys
    <3>1. n + 1 \in 1..Len(p) /\ p[n + 1].key = k
      BY <1>3, <1>8, <2>1
    <3>2. j # k
      BY <1>12, <3>1
    <3>3. ASSUME j \in Keys PROVE FALSE
      <4>1. PICK i \in 1..n : q[i].key = j
        BY <1>3, <3>2, <3>3
      <4>2. i \in 1..Len(p) /\ p[i].key = j
        BY <1>3, <1>8, <2>1, <4>1
      <4> QED BY <1>12, <4>2
    <3> QED BY <3>2, <3>3
  <2>3. \A j \in Key \ Keys' : PushedOut(j)'
    BY <1>9, <2>2
  <2>4. InOrderOfUse(map, uses, latest)' /\ CacheTypes'
    BY <1>2, <1>7, <1>8, <1>11, <2>1
  <2>5. Len(map') <= CacheMax
    BY <1>1, <1>2, <1>3, <1>8, <1>13, <2>1
  <2> QED BY <2>3, <2>4, <2>5 DEF CacheInv
<1>14. CASE n = CacheMax
  <2>1. IsRest(p, m)
    <3>1. m \in Seq(CacheEntry) /\ Len(m) = CacheMax + 1
      BY <1>8, <1>14
    <3>2. EnforceMax(m) = SubSeq(m, 2, Len(m))
      BY <3>1, EnforceMaxFacts
    <3> QED BY <1>12, <3>2 DEF IsRest
  <2>2. /\ p \in Seq(CacheEntry) /\ Len(p) = n /\ InOrderOfUse(p, w, l2)
        /\ \A i \in 1..n : p[i] = m[i + 1]
        /\ Cardinality(LaterUses(w, m[1].key)) >= n
    <3>1. Len(m) > 1 /\ Len(m) - 1 = n /\ m \in Seq(CacheEntry)
      BY <1>1, <1>8, <1>14
    <3>2. FirstOut(p, m, w, l2)
      BY <1>5, <1>7, <2>1, <3>1, FrontOut
    <3> QED BY <3>1, <3>2 DEF FirstOut
  <2>3. ASSUME NEW i \in 2..(n + 1) PROVE m[i].key \in Keys'
    <3>1. i - 1 \in 1..n /\ (i - 1) + 1 = i
      BY <1>3, <2>3
    <3>2. p[i - 1] = m[i]
      BY <2>2, <3>1
    <3> QED BY <1>12, <2>2, <3>1, <3>2
  <2>4. ASSUME NEW j \in Key \ Keys' PROVE PushedOut(j)'
    <3>1. j # k
      <4>1. n + 1 \in 2..(n + 1)
        BY <1>1, <1>14
      <4> QED BY <1>8, <2>3, <4>1
    <3>2. CASE j \notin Keys
      BY <1>9, <3>1, <3>2
    <3>3. CASE j \in Keys
      <4>1. PICK i \in 1..n : q[i].key = j
        BY <1>3, <3>1, <3>3
      <4>2. i = 1
        <5>1. ASSUME i # 1 PROVE FALSE
          <6>1. i \in 2..(n + 1) /\ m[i].key = j
            BY <1>3, <1>8, <4>1, <5>1
          <6> QED BY <2>3, <6>1
        <5> QED BY <5>1
      <4>3. Cardinality(LaterUses(w, j)) >= CacheMax
        BY <1>8, <1>14, <2>2, <4>1, <4>2
      <4> QED BY <1>2, <4>3 DEF PushedOut
    <3> QED BY <3>2, <3>3
  <2>5. InOrderOfUse(map, uses, latest)' /\ CacheTypes'
    BY <1>2, <1>11, <2>2
  <2>6. Len(map') <= CacheMax
    BY <1>1, <1>2, <1>14, <2>2
  <2> QED BY <2>4, <2>5, <2>6 DEF CacheInv
<1> QED BY <1>1, <1>3, <1>13, <1>14

-----------------------------------------------------------------------------
LEMMA GetKeeps == ASSUME CacheInv, NEW k \in Key, Get(k) PROVE CacheInv'
<1>1. k \in Keys /\ UNCHANGED <<now, latest>>
  BY DEF Get
<1>2. CASE Expired(EntryOf(k))
  BY <1>1, <1>2, WithoutExpired DEF Get
<1>3. CASE ~ Expired(EntryOf(k))
  <2>1. PICK e, q, m : e = EntryOf(k) /\ q = Without(k) /\ m = Append(q, e)
    OBVIOUS
  <2>2. e \in CacheEntry /\ e.key = k /\ Holds(latest, e)
    BY <1>1, <2>1, KeyHasEntry, EntryFacts
  <2>3. map' = m /\ uses' = Used(k)
    BY <1>3, <2>1 DEF Get
  <2>4. q \in Seq(CacheEntry) /\ Len(q) \in Nat /\ Len(q) < CacheMax
    BY <1>1, <2>1, WithoutFacts
  <2>5. EnforceMax(m) = m
    <3>1. m \in Seq(CacheEntry) /\ Len(m) = Len(q) + 1
      BY <2>1, <2>2, <2>4
    <3>2. Len(m) <= CacheMax
      BY <2>4, <3>1, TTLCacheAssumption DEF TTLCacheAssumption
    <3> QED BY <3>1, <3>2, EnforceMaxFacts
  <2>6. Holds(latest, e)'
    BY <1>1, <2>2
  <2>7. latest' \in [Key -> SUBSET Written]
    BY <1>1 DEF CacheInv, CacheTypes
  <2> QED BY <1>1, <2>1, <2>2, <2>3, <2>5, <2>6, <2>7, PutKeeps
<1> QED BY <1>2, <1>3

LEMMA HasKeeps == ASSUME CacheInv, NEW k \in Key, Has(k) PROVE CacheInv'
<1>1. CASE Expired(EntryOf(k))
  BY <1>1, WithoutExpired DEF Has
<1>2. CASE ~ Expired(EntryOf(k))
  <2>1. UNCHANGED <<map, now, latest, uses>>
    BY <1>2 DEF Has
  <2> QED BY <2>1 DEF CacheInv, CacheTypes, Keys, PushedOut, Fresh
<1> QED BY <1>1, <1>2

LEMMA SetKeeps == ASSUME CacheInv, NEW k \in Key, NEW v \in Value, Set(k, v) PROVE CacheInv'
<1>1. PICK e, q, m : e = Entry(k, v) /\ q = Without(k) /\ m = Append(q, e)
  OBVIOUS
<1>2. Ttl \in Nat /\ now \in Nat /\ latest \in [Key -> SUBSET Written]
  BY TTLCacheAssumption DEF CacheInv, CacheTypes, TTLCacheAssumption
<1>3. PICK s : s = [value |-> v, at |-> now]
  OBVIOUS
<1>4. s \in Written /\ s.value = v /\ s.at = now
  BY <1>2, <1>3 DEF Written
<1>5. /\ e \in CacheEntry /\ e.key = k /\ e.value = v
      /\ e.expireAt = IF Ttl > 0 THEN now + Ttl ELSE Never
  BY <1>1, <1>2 DEF Entry, CacheEntry, Never
<1>6. /\ latest' = [latest EXCEPT ![k] = {s}] /\ map' = EnforceMax(m)
      /\ uses' = Used(k) /\ now' = now
  BY <1>1, <1>3 DEF Set
<1>7. /\ latest' \in [Key -> SUBSET Written] /\ latest'[k] = {s}
      /\ \A j \in Key \ {k} : latest'[j] = latest[j]
  BY <1>2, <1>4, <1>6
<1>8. Holds(latest, e)'
  BY <1>4, <1>5, <1>7 DEF Holds
<1> QED BY <1>1, <1>5, <1>6, <1>7, <1>8, PutKeeps

LEMMA SweepKeeps == ASSUME CacheInv, Sweep PROVE CacheInv'
<1>1. PICK keep : keep = {e \in Entries : ~ Expired(e)}
  OBVIOUS
<1>2. \A e \in Entries : e \notin keep => Expired(e)
  BY <1>1
<1>3. map' = Kept(map, keep) /\ UNCHANGED <<now, latest, uses>>
  BY <1>1 DEF Sweep
<1> QED BY <1>2, <1>3, ExpiredGo

LEMMA CacheTickKeeps == ASSUME CacheInv, CacheTick PROVE CacheInv'
<1>1. /\ now \in Nat /\ now' = now + 1 /\ now' \in 1..MaxNow /\ UNCHANGED <<map, latest, uses>>
      /\ Ttl \in Nat
  BY TTLCacheAssumption DEF CacheInv, CacheTypes, CacheTick, TTLCacheAssumption
<1>2. ASSUME NEW k \in Key \ Keys' PROVE PushedOut(k)'
  <2>1. k \notin Keys
    BY <1>1 DEF Keys
  <2>2. ASSUME Fresh(k)' PROVE Fresh(k)
    <3>1. PICK s \in Written : latest[k] = {s}
      BY <1>1, <2>2 DEF CacheInv, CacheTypes, Fresh
    <3>2. s.at \in Nat
      BY DEF Written
    <3>3. Ttl = 0 \/ now + 1 < s.at + Ttl
      BY <1>1, <2>2, <3>1 DEF Fresh
    <3>4. Ttl = 0 \/ now < s.at + Ttl
      BY <1>1, <3>2, <3>3
    <3> QED BY <3>1, <3>4 DEF Fresh
  <2>3. PushedOut(k)
    BY <2>1 DEF CacheInv
  <2> QED BY <1>1, <2>2, <2>3 DEF PushedOut
<1> QED BY <1>1, <1>2 DEF CacheInv, CacheTypes

LEMMA CacheInitInv == CacheInit => CacheInv
<1> SUFFICES ASSUME CacheInit PROVE CacheInv
  OBVIOUS
<1>1. /\ map = <<>> /\ now = 1 /\ latest = [k \in Key |-> {}] /\ uses = <<>>
      /\ MaxNow \in Nat \ {0} /\ CacheMax \in Nat
  BY TTLCacheAssumption DEF CacheInit, TTLCacheAssumption
<1>2. CacheTypes
  BY <1>1 DEF CacheTypes
<1>3. InOrderOfUse(map, uses, latest) /\ Len(map) <= CacheMax
  BY <1>1 DEF InOrderOfUse
<1>4. \A k \in Key : PushedOut(k)
  BY <1>1 DEF PushedOut, Fresh
<1> QED BY <1>2, <1>3, <1>4 DEF CacheInv

LEMMA CacheStepInv == CacheInv /\ [CacheNext]_cacheVars => CacheInv'
<1>1. ASSUME CacheInv, UNCHANGED cacheVars PROVE CacheInv'
  <2>1. UNCHANGED <<map, now, latest, uses>>
    BY <1>1 DEF cacheVars
  <2> QED BY <1>1, <2>1 DEF CacheInv, CacheTypes, Keys, PushedOut, Fresh
<1> QED BY <1>1, GetKeeps, HasKeeps, SetKeeps, SweepKeeps, CacheTickKeeps DEF CacheNext

LEMMA CacheInvKeepsLatest == CacheInv => CacheTypeOK /\ CacheKeepsLatest
<1> SUFFICES ASSUME CacheInv PROVE CacheTypeOK /\ CacheKeepsLatest
  OBVIOUS
<1>1. CacheTypeOK
  <2>1. \A k \in Key : Cardinality(latest[k]) <= 1
    <3>1. ASSUME NEW k \in Key PROVE Cardinality(latest[k]) <= 1
      <4>1. CASE latest[k] = {}
        <5>1. Cardinality({}) = 0
          BY FS_EmptySet
        <5> QED BY <4>1, <5>1
      <4>2. CASE \E s \in Written : latest[k] = {s}
        <5>1. PICK s \in Written : latest[k] = {s}
          BY <4>2
        <5>2. Cardinality({s}) = 1
          BY FS_Singleton
        <5> QED BY <5>1, <5>2
      <4> QED BY <4>1, <4>2 DEF CacheInv, CacheTypes
    <3> QED BY <3>1
  <2> QED BY <2>1 DEF CacheTypeOK, CacheInv, CacheTypes, CacheEntry
<1>2. \A i, j \in 1..Len(map) : map[i].key = map[j].key => i = j
  BY DEF CacheInv, InOrderOfUse
<1>3. ASSUME NEW k \in Keys, ~ Expired(EntryOf(k))
      PROVE  Fresh(k) /\ \A s \in latest[k] : EntryOf(k).value = s.value
  <2>1. EntryOf(k) \in Entries /\ EntryOf(k).key = k
    BY KeyHasEntry
  <2>2. Fresh(k) /\ Holds(latest, EntryOf(k))
    BY <1>3, <2>1, EntryFacts
  <2> QED BY <2>1, <2>2 DEF Holds
<1>4. \A k \in Key \ Keys : Fresh(k) => Cardinality(UsedAfter(k)) >= CacheMax
  BY DEF CacheInv, PushedOut, UsedAfter, LaterUses
<1> QED BY <1>1, <1>2, <1>3, <1>4 DEF CacheKeepsLatest, CacheInv

LEMMA CacheCorrect == CacheSpec => []CacheInv
  BY CacheInitInv, CacheStepInv, PTL DEF CacheSpec

\* A hit is the value last set, at most the bound is kept, and a value that is missing before
\* its time was pushed out by as many other keys, each used after it (utils/ttlCache.ts get,
\* set, enforceMax), for any keys, bound and lifetime.
THEOREM CacheServesLatest == CacheSpec => []CacheKeepsLatest
  BY CacheCorrect, CacheInvKeepsLatest, PTL

\* The types of the cache.
THEOREM CacheTypeCorrect == CacheSpec => []CacheTypeOK
  BY CacheCorrect, CacheInvKeepsLatest, PTL
=============================================================================
