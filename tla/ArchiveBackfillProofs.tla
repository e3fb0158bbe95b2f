----------------------- MODULE ArchiveBackfillProofs ------------------------
(***************************************************************************)
(* The archived backfill, for every number of workers, every range and     *)
(* every step: the queue of batches (module FetchQueue), the scan for      *)
(* pools (Discovery), and the tables the scripts write (BackfillTables).   *)
(* They share no variable.                                                 *)
(***************************************************************************)
EXTENDS FetchQueue, Discovery, BackfillTables, FiniteSetTheorems, SequenceTheorems,
        NaturalFacts, TLAPS

-----------------------------------------------------------------------------
(***************************************************************************)
(* The queue: how long it gets, and that no job is forgotten or settled    *)
(* twice.                                                                  *)
(***************************************************************************)

FetcherState == [pc : {"start", "gate", "fetch", "done"}, job : 0..JobCount]
FlusherState == [pc : {"poll", "flush", "done"}, job : 0..JobCount]

LEMMA JobCountNat ==
    ASSUME NEW s \in Nat, NEW b \in Nat \ {0}
    PROVE  (s + b - 1) \div b \in Nat
  OBVIOUS

LEMMA JobCountIsNat == ASSUME QueueTypeOK PROVE JobCount \in Nat
<1>1. span \in Nat /\ batch \in Nat \ {0}
  BY QueueAssumption DEF QueueTypeOK, QueueAssumption
<1> QED BY <1>1, JobCountNat DEF JobCount

LEMMA SameJobs ==
    ASSUME UNCHANGED <<span, batch>> PROVE JobCount' = JobCount /\ Jobs' = Jobs
  BY DEF JobCount, Jobs

-----------------------------------------------------------------------------
\* The loop of a fetch worker up to its next await.
LEMMA TakeJobFacts ==
    ASSUME QueueTypeOK, NEW f \in Fetcher, NEW q, TakeJob(f, q), UNCHANGED <<span, batch>>
    PROVE  /\ fetcher' \in [Fetcher -> FetcherState]
           /\ next' \in 0..JobCount
           /\ \A g \in Fetcher \ {f} : fetcher'[g] = fetcher[g]
           /\ \/ /\ fetcher'[f].pc = "done" /\ next' = next /\ next = JobCount
              \/ /\ fetcher'[f].pc = Gate(q) /\ fetcher'[f].job = next
                 /\ next < JobCount /\ next' = next + 1
<1>1. JobCount \in Nat /\ fetcher \in [Fetcher -> FetcherState] /\ next \in 0..JobCount
  BY JobCountIsNat DEF QueueTypeOK, FetcherState
<1>2. JobCount' = JobCount
  BY SameJobs
<1>3. CASE next < JobCount
  <2>1. Gate(q) \in {"fetch", "gate"}
    BY DEF Gate
  <2> HIDE DEF Gate
  <2>2. fetcher' = [fetcher EXCEPT ![f] = [pc |-> Gate(q), job |-> next]] /\ next' = next + 1
    BY <1>3 DEF TakeJob
  <2>3. [pc |-> Gate(q), job |-> next] \in FetcherState
    BY <1>1, <2>1 DEF FetcherState
  <2> QED BY <1>1, <1>3, <2>2, <2>3
<1>4. CASE ~(next < JobCount)
  <2>1. fetcher' = [fetcher EXCEPT ![f].pc = "done"] /\ next' = next
    BY <1>4 DEF TakeJob
  <2> QED BY SMTT(40), <1>1, <1>4, <2>1 DEF FetcherState
<1> QED BY <1>3, <1>4

\* The loop of a flush worker up to its next await.
LEMMA TakeBufferFacts ==
    ASSUME QueueTypeOK, NEW w \in Flusher, TakeBuffer(w)
    PROVE  /\ flusher' \in [Flusher -> FlusherState]
           /\ flushQueue' \in Seq(Jobs)
           /\ \A v \in Flusher \ {w} : flusher'[v] = flusher[v]
           /\ \/ /\ flushQueue # <<>> /\ flushQueue' = Tail(flushQueue)
                 /\ flusher'[w].pc = "flush" /\ flusher'[w].job = Head(flushQueue)
              \/ /\ flushQueue = <<>> /\ flushQueue' = flushQueue
                 /\ flusher'[w].pc = IF fetchersDone THEN "done" ELSE "poll"
<1>1. JobCount \in Nat /\ flusher \in [Flusher -> FlusherState] /\ flushQueue \in Seq(Jobs)
      /\ fetchersDone \in BOOLEAN
  BY JobCountIsNat DEF QueueTypeOK, FlusherState
<1>2. CASE flushQueue # <<>>
  <2>1. /\ flusher' = [flusher EXCEPT ![w] = [pc |-> "flush", job |-> Head(flushQueue)]]
        /\ flushQueue' = Tail(flushQueue)
    BY <1>2 DEF TakeBuffer
  <2>2. Head(flushQueue) \in Jobs /\ Tail(flushQueue) \in Seq(Jobs)
    BY <1>1, <1>2
  <2>3. [pc |-> "flush", job |-> Head(flushQueue)] \in FlusherState
    BY <1>1, <2>2 DEF FlusherState, Jobs
  <2> QED BY <1>1, <1>2, <2>1, <2>2, <2>3
<1>3. CASE flushQueue = <<>>
  <2>1. /\ flushQueue' = flushQueue
        /\ flusher' = [flusher EXCEPT ![w].pc = IF fetchersDone THEN "done" ELSE "poll"]
    BY <1>1, <1>3 DEF TakeBuffer
  <2> QED BY <1>1, <1>3, <2>1 DEF FlusherState
<1> QED BY <1>2, <1>3

-----------------------------------------------------------------------------
Busy(f) == fetcher[f].pc \in {"gate", "fetch"}
Flushing(w) == flusher[w].pc = "flush"
Place == 1..Len(flushQueue)

\* The jobs the fetch workers have, those in the queue, those the flush workers have.
FetchJobs == {fetcher[f].job : f \in {g \in Fetcher : Busy(g)}}
QueueJobs == {flushQueue[i] : i \in Place}
FlushJobs == {flusher[w].job : w \in {v \in Flusher : Flushing(v)}}

OwnFetch(f) == IF Busy(f) THEN {fetcher[f].job} ELSE {}
OwnFlush(w) == IF Flushing(w) THEN {flusher[w].job} ELSE {}

\* No job is twice in one place.
FetchOnce == \A f, g \in Fetcher :
    Busy(f) /\ Busy(g) /\ fetcher[f].job = fetcher[g].job => f = g
QueueOnce == \A i, j \in Place : flushQueue[i] = flushQueue[j] => i = j
FlushOnce == \A v, w \in Flusher :
    Flushing(v) /\ Flushing(w) /\ flusher[v].job = flusher[w].job => v = w

\* The jobs that were taken are each in one of five places.
InPlace ==
    /\ FetchJobs \cup QueueJobs \cup FlushJobs \cup stored \cup lost = 0..(next - 1)
    /\ FetchJobs \cap (QueueJobs \cup FlushJobs \cup stored \cup lost) = {}
    /\ QueueJobs \cap (FlushJobs \cup stored \cup lost) = {}
    /\ FlushJobs \cap (stored \cup lost) = {}
    /\ stored \cap lost = {}

\* Workers end in the order that leaves nothing behind.
InOrder ==
    /\ \A f \in Fetcher : fetcher[f].pc = "done" => next = JobCount
    /\ fetchersDone => \A f \in Fetcher : fetcher[f].pc = "done"
    /\ \A w \in Flusher : flusher[w].pc = "done" => fetchersDone /\ flushQueue = <<>>
    /\ ended => fetchersDone /\ \A w \in Flusher : flusher[w].pc = "done"

QueueInv == QueueTypeOK /\ FetchOnce /\ QueueOnce /\ FlushOnce /\ InPlace /\ InOrder

-----------------------------------------------------------------------------
\* A fetch worker gives up the job it had and has the next one, or none.
LEMMA TakeJobMoves ==
    ASSUME QueueTypeOK, FetchOnce, FetchJobs \subseteq 0..(next - 1),
           NEW f \in Fetcher, NEW q, TakeJob(f, q), UNCHANGED <<span, batch>>
    PROVE  /\ FetchOnce'
           /\ FetchJobs' = (FetchJobs \ OwnFetch(f)) \cup (next .. next' - 1)
           /\ \/ next' = next /\ next = JobCount
              \/ next' = next + 1 /\ fetcher'[f].pc # "done"
<1>1. Gate(q) \in {"fetch", "gate"}
  BY DEF Gate
<1>2. /\ fetcher' \in [Fetcher -> FetcherState]
      /\ \A g \in Fetcher \ {f} : fetcher'[g] = fetcher[g]
      /\ \/ /\ fetcher'[f].pc = "done" /\ next' = next /\ next = JobCount
         \/ /\ fetcher'[f].pc \in {"gate", "fetch"} /\ fetcher'[f].job = next
            /\ next < JobCount /\ next' = next + 1
  BY <1>1, TakeJobFacts
<1>3. next \in Nat
  BY JobCountIsNat DEF QueueTypeOK
<1>4. \A g \in Fetcher : Busy(g) => fetcher[g].job \in FetchJobs
  BY DEF FetchJobs
<1>5. next \notin FetchJobs
  BY <1>3
<1>6. CASE fetcher'[f].pc = "done" /\ next' = next /\ next = JobCount
  <2>1. FetchOnce'
    BY <1>2, <1>6 DEF FetchOnce, Busy
  <2>2. FetchJobs' = FetchJobs \ OwnFetch(f)
    BY <1>2, <1>6 DEF FetchJobs, OwnFetch, Busy, FetchOnce
  <2>3. next .. next' - 1 = {}
    BY <1>3, <1>6
  <2> QED BY <1>6, <2>1, <2>2, <2>3
<1>7. CASE /\ fetcher'[f].pc \in {"gate", "fetch"} /\ fetcher'[f].job = next
           /\ next < JobCount /\ next' = next + 1
  <2>1. FetchOnce'
    BY <1>2, <1>4, <1>5, <1>7 DEF FetchOnce, Busy
  <2>2. FetchJobs' = (FetchJobs \ OwnFetch(f)) \cup {next}
    BY <1>2, <1>7 DEF FetchJobs, OwnFetch, Busy, FetchOnce
  <2>3. next .. next' - 1 = {next}
    BY <1>3, <1>7
  <2> QED BY <1>7, <2>1, <2>2, <2>3
<1> QED BY <1>2, <1>6, <1>7

LEMMA AppendFacts ==
    ASSUME NEW S, NEW q \in Seq(S), NEW e \in S
    PROVE  /\ Append(q, e) \in Seq(S) /\ Len(Append(q, e)) = Len(q) + 1 /\ Len(q) \in Nat
           /\ \A i \in 1..Len(q) : Append(q, e)[i] = q[i]
           /\ Append(q, e)[Len(q) + 1] = e
  OBVIOUS

LEMMA LenAppended ==
    ASSUME NEW S, NEW q \in Seq(S), NEW e
    PROVE  Len(Append(q, e)) = Len(q) + 1
<1>1. q \in Seq(S \cup {e}) /\ e \in S \cup {e}
  OBVIOUS
<1> QED BY <1>1, AppendFacts

LEMMA TailFacts ==
    ASSUME NEW S, NEW q \in Seq(S), q # <<>>
    PROVE  /\ Tail(q) \in Seq(S) /\ Len(Tail(q)) = Len(q) - 1 /\ Len(q) \in Nat /\ Len(q) # 0
           /\ Head(q) = q[1]
           /\ \A i \in 1..(Len(q) - 1) : Tail(q)[i] = q[i + 1]
  OBVIOUS

LEMMA PushMoves ==
    ASSUME QueueTypeOK, QueueOnce, NEW k \in Jobs, k \notin QueueJobs,
           flushQueue' = Append(flushQueue, k)
    PROVE  QueueOnce' /\ QueueJobs' = QueueJobs \cup {k}
<1>1. /\ Len(flushQueue) \in Nat /\ Len(flushQueue') = Len(flushQueue) + 1
      /\ \A i \in 1..Len(flushQueue) : flushQueue'[i] = flushQueue[i]
      /\ flushQueue'[Len(flushQueue) + 1] = k
  BY AppendFacts DEF QueueTypeOK
<1>2. \A i \in Place' : i \in Place \/ i = Len(flushQueue) + 1
  BY <1>1 DEF Place
<1>3. Place \subseteq Place' /\ Len(flushQueue) + 1 \in Place'
  BY <1>1 DEF Place
<1>4. \A i \in Place : flushQueue[i] # k
  BY DEF QueueJobs
<1>5. QueueOnce'
  BY <1>1, <1>2, <1>4 DEF QueueOnce, Place
<1>6. QueueJobs' = QueueJobs \cup {k}
  BY <1>1, <1>2, <1>3 DEF QueueJobs, Place
<1> QED BY <1>5, <1>6

LEMMA PopMoves ==
    ASSUME QueueTypeOK, QueueOnce, flushQueue # <<>>, flushQueue' = Tail(flushQueue)
    PROVE  /\ Head(flushQueue) \in QueueJobs /\ QueueOnce'
           /\ QueueJobs' = QueueJobs \ {Head(flushQueue)}
<1>1. /\ Len(flushQueue) \in Nat /\ Len(flushQueue) # 0
      /\ Len(flushQueue') = Len(flushQueue) - 1
      /\ Head(flushQueue) = flushQueue[1]
      /\ \A i \in 1..(Len(flushQueue) - 1) : flushQueue'[i] = flushQueue[i + 1]
  BY TailFacts DEF QueueTypeOK
<1>2. /\ 1 \in Place
      /\ \A i \in Place' : i + 1 \in Place /\ i + 1 # 1 /\ flushQueue'[i] = flushQueue[i + 1]
      /\ \A j \in Place : j # 1 => j - 1 \in Place' /\ flushQueue'[j - 1] = flushQueue[j]
  BY <1>1 DEF Place
<1>3. QueueOnce'
  <2>1. SUFFICES ASSUME NEW i \in Place', NEW j \in Place', flushQueue'[i] = flushQueue'[j]
                 PROVE  i = j
    BY DEF QueueOnce
  <2>2. i + 1 = j + 1
    <3>1. /\ i + 1 \in Place /\ j + 1 \in Place
          /\ flushQueue[i + 1] = flushQueue[j + 1]
      BY <1>2, <2>1
    <3> HIDE DEF Place
    <3> QED BY ONLY <3>1, QueueOnce DEF QueueOnce
  <2>3. i \in Int /\ j \in Int
    BY <1>1, <2>1 DEF Place
  <2> QED BY <2>2, <2>3
<1>4. Head(flushQueue) \in QueueJobs
  BY <1>1, <1>2 DEF QueueJobs
<1>5. ASSUME NEW k \in QueueJobs' PROVE k \in QueueJobs \ {flushQueue[1]}
  <2>1. PICK i \in Place' : k = flushQueue'[i]
    BY <1>5 DEF QueueJobs
  <2>2. i + 1 \in Place /\ i + 1 # 1 /\ k = flushQueue[i + 1]
    BY <1>2, <2>1
  <2>3. k # flushQueue[1]
    BY <1>2, <2>2 DEF QueueOnce
  <2> QED BY <2>2, <2>3 DEF QueueJobs
<1>6. ASSUME NEW k \in QueueJobs \ {flushQueue[1]} PROVE k \in QueueJobs'
  <2>1. PICK j \in Place : k = flushQueue[j]
    BY <1>6 DEF QueueJobs
  <2>2. j - 1 \in Place' /\ k = flushQueue'[j - 1]
    BY <1>2, <1>6, <2>1
  <2> QED BY <2>2 DEF QueueJobs
<1> QED BY <1>1, <1>3, <1>4, <1>5, <1>6

\* A flush worker gives up the job it had and takes one from the queue, or none.
LEMMA TakeBufferMoves ==
    ASSUME QueueTypeOK, QueueOnce, FlushOnce, FlushJobs \cap QueueJobs = {},
           NEW w \in Flusher, TakeBuffer(w)
    PROVE  /\ FlushOnce' /\ QueueOnce'
           /\ QueueJobs' \subseteq QueueJobs
           /\ FlushJobs' = (FlushJobs \ OwnFlush(w)) \cup (QueueJobs \ QueueJobs')
<1>1. /\ flusher' \in [Flusher -> FlusherState]
      /\ \A v \in Flusher \ {w} : flusher'[v] = flusher[v]
      /\ \/ /\ flushQueue # <<>> /\ flushQueue' = Tail(flushQueue)
            /\ flusher'[w].pc = "flush" /\ flusher'[w].job = Head(flushQueue)
         \/ /\ flushQueue = <<>> /\ flushQueue' = flushQueue
            /\ flusher'[w].pc \in {"done", "poll"}
  BY TakeBufferFacts
<1>2. \A v \in Flusher : Flushing(v) => flusher[v].job \in FlushJobs
  BY DEF FlushJobs
<1>3. CASE /\ flushQueue # <<>> /\ flushQueue' = Tail(flushQueue)
           /\ flusher'[w].pc = "flush" /\ flusher'[w].job = Head(flushQueue)
  <2> DEFINE h == Head(flushQueue)
  <2>1. h \in QueueJobs /\ QueueOnce' /\ QueueJobs' = QueueJobs \ {h}
    BY <1>3, PopMoves
  <2>2. flusher'[w].pc = "flush" /\ flusher'[w].job = h /\ h \notin FlushJobs
    BY <1>3, <2>1
  <2> HIDE DEF h
  <2>3. FlushOnce'
    BY <1>1, <1>2, <2>2 DEF FlushOnce, Flushing
  <2>4. FlushJobs' = (FlushJobs \ OwnFlush(w)) \cup {h}
    BY <1>1, <2>2 DEF FlushJobs, OwnFlush, Flushing, FlushOnce
  <2> QED BY <2>1, <2>3, <2>4
<1>4. CASE /\ flushQueue = <<>> /\ flushQueue' = flushQueue
           /\ flusher'[w].pc \in {"done", "poll"}
  <2>1. FlushOnce'
    BY <1>1, <1>4 DEF FlushOnce, Flushing
  <2>2. FlushJobs' = FlushJobs \ OwnFlush(w)
    BY <1>1, <1>4 DEF FlushJobs, OwnFlush, Flushing, FlushOnce
  <2>3. QueueJobs' = QueueJobs /\ QueueOnce'
    BY <1>4 DEF QueueJobs, QueueOnce, Place
  <2> QED BY <2>1, <2>2, <2>3
<1> QED BY <1>1, <1>3, <1>4

-----------------------------------------------------------------------------
LEMMA QueueInitInv == QueueInit => QueueInv
<1> SUFFICES ASSUME QueueInit PROVE QueueInv
  OBVIOUS
<1>1. span \in Nat /\ batch \in Nat \ {0}
  BY QueueAssumption DEF QueueInit, QueueAssumption
<1>2. JobCount \in Nat
  BY <1>1, JobCountNat DEF JobCount
<1>3. fetcher \in [Fetcher -> FetcherState] /\ flusher \in [Flusher -> FlusherState]
  BY <1>2 DEF QueueInit, FetcherState, FlusherState
<1>4. flushQueue \in Seq(Jobs) /\ Place = {} /\ next \in 0..JobCount
  BY <1>2 DEF QueueInit, Place
<1>5. fetchersDone \in BOOLEAN /\ ended \in BOOLEAN /\ stored \subseteq Jobs /\ lost \subseteq Jobs
  BY DEF QueueInit
<1>6. QueueTypeOK
  BY <1>3, <1>4, <1>5 DEF QueueInit, QueueTypeOK, FetcherState, FlusherState
<1>7. FetchOnce /\ QueueOnce /\ FlushOnce
  BY <1>4 DEF QueueInit, FetchOnce, QueueOnce, FlushOnce, Busy, Flushing
<1>8. FetchJobs = {} /\ QueueJobs = {} /\ FlushJobs = {} /\ stored = {} /\ lost = {}
  BY <1>4 DEF QueueInit, FetchJobs, QueueJobs, FlushJobs, Busy, Flushing
<1>9. 0..(next - 1) = {}
  BY DEF QueueInit
<1>10. InPlace
  BY <1>8, <1>9 DEF InPlace
<1>11. InOrder
  BY DEF QueueInit, InOrder
<1> QED BY <1>6, <1>7, <1>10, <1>11 DEF QueueInv

\* What a step that moves only fetch workers leaves alone.
LEMMA FlushSideKept ==
    ASSUME UNCHANGED flusher, FlushOnce PROVE FlushOnce' /\ FlushJobs' = FlushJobs
  BY DEF FlushOnce, FlushJobs, Flushing

LEMMA FetchSideKept ==
    ASSUME UNCHANGED fetcher, FetchOnce PROVE FetchOnce' /\ FetchJobs' = FetchJobs
  BY DEF FetchOnce, FetchJobs, Busy

LEMMA QueueKept ==
    ASSUME UNCHANGED flushQueue, QueueOnce PROVE QueueOnce' /\ QueueJobs' = QueueJobs
  BY DEF QueueOnce, QueueJobs, Place

LEMMA Grows ==
    ASSUME QueueTypeOK, next' \in {next, next + 1}
    PROVE  /\ 0..(next' - 1) = (0..(next - 1)) \cup (next .. next' - 1)
           /\ (0..(next - 1)) \cap (next .. next' - 1) = {}
<1>1. next \in Nat
  BY JobCountIsNat DEF QueueTypeOK
<1>2. CASE next' = next
  BY <1>1, <1>2
<1>3. CASE next' = next + 1
  BY <1>1, <1>3
<1> QED BY <1>2, <1>3

LEMMA FetchWorkerKeeps ==
    ASSUME QueueInv, NEW f \in Fetcher, FetchWorker(f)
    PROVE  QueueInv'
<1> USE DEF QueueInv
<1>0. JobCount' = JobCount /\ Jobs' = Jobs
  BY SameJobs DEF FetchWorker
<1>1. /\ FetchOnce'
      /\ FetchJobs' = (FetchJobs \ OwnFetch(f)) \cup (next .. next' - 1)
      /\ \/ next' = next /\ next = JobCount
         \/ next' = next + 1 /\ fetcher'[f].pc # "done"
  BY TakeJobMoves DEF FetchWorker, InPlace
<1>2. OwnFetch(f) = {}
  BY DEF FetchWorker, OwnFetch, Busy
<1>3. /\ fetcher' \in [Fetcher -> FetcherState] /\ next' \in 0..JobCount
      /\ \A g \in Fetcher \ {f} : fetcher'[g] = fetcher[g]
  BY TakeJobFacts DEF FetchWorker
<1>4. FlushOnce' /\ FlushJobs' = FlushJobs /\ QueueOnce' /\ QueueJobs' = QueueJobs
  BY FlushSideKept, QueueKept DEF FetchWorker
<1>5. QueueTypeOK'
  BY <1>0, <1>3 DEF QueueTypeOK, FetcherState, FetchWorker
<1>6. InPlace'
  <2> DEFINE taken == 0..(next - 1)
             more == next .. next' - 1
  <2>1. 0..(next' - 1) = taken \cup more /\ taken \cap more = {}
    BY <1>1, Grows
  <2>2. FetchJobs \cup QueueJobs \cup FlushJobs \cup stored \cup lost = taken
    BY DEF InPlace
  <2>3. FetchJobs' = FetchJobs \cup more
    BY <1>1, <1>2
  <2>4. UNCHANGED <<stored, lost>>
    BY DEF FetchWorker
  <2> HIDE DEF taken, more
  <2> QED BY <1>4, <2>1, <2>2, <2>3, <2>4 DEF InPlace
<1>7. InOrder'
  BY <1>0, <1>1, <1>3 DEF InOrder, FetchWorker, QueueTypeOK
<1> QED BY <1>1, <1>4, <1>5, <1>6, <1>7

LEMMA PassGateKeeps ==
    ASSUME QueueInv, NEW f \in Fetcher, PassGate(f)
    PROVE  QueueInv'
<1> USE DEF QueueInv
<1>0. JobCount' = JobCount /\ Jobs' = Jobs
  BY SameJobs DEF PassGate
<1>1. /\ fetcher' \in [Fetcher -> FetcherState]
      /\ \A g \in Fetcher : /\ fetcher'[g].job = fetcher[g].job
                            /\ Busy(g)' <=> Busy(g)
                            /\ fetcher'[g].pc = "done" <=> fetcher[g].pc = "done"
  BY DEF PassGate, Busy, QueueTypeOK, FetcherState
<1>2. FetchOnce' /\ FetchJobs' = FetchJobs
  BY <1>1 DEF FetchOnce, FetchJobs
<1>3. FlushOnce' /\ FlushJobs' = FlushJobs /\ QueueOnce' /\ QueueJobs' = QueueJobs
  BY FlushSideKept, QueueKept DEF PassGate
<1>4. QueueTypeOK'
  BY <1>0, <1>1 DEF QueueTypeOK, FetcherState, PassGate
<1>5. InPlace'
  BY <1>2, <1>3 DEF InPlace, PassGate
<1>6. InOrder'
  BY <1>0, <1>1 DEF InOrder, PassGate
<1> QED BY <1>2, <1>3, <1>4, <1>5, <1>6

LEMMA FetchAndProcessBatchKeeps ==
    ASSUME QueueInv, NEW f \in Fetcher, FetchAndProcessBatch(f)
    PROVE  QueueInv'
<1> USE DEF QueueInv
<1> DEFINE k == fetcher[f].job
           taken == 0..(next - 1)
           more == next .. next' - 1
<1>0. JobCount' = JobCount /\ Jobs' = Jobs
  BY SameJobs DEF FetchAndProcessBatch
<1>1. /\ FetchOnce'
      /\ FetchJobs' = (FetchJobs \ OwnFetch(f)) \cup more
      /\ \/ next' = next /\ next = JobCount
         \/ next' = next + 1 /\ fetcher'[f].pc # "done"
  BY TakeJobMoves DEF FetchAndProcessBatch, InPlace
<1>2. OwnFetch(f) = {k} /\ k \in FetchJobs
  BY DEF FetchAndProcessBatch, OwnFetch, Busy, FetchJobs
<1>3. /\ fetcher' \in [Fetcher -> FetcherState] /\ next' \in 0..JobCount
      /\ \A g \in Fetcher \ {f} : fetcher'[g] = fetcher[g]
  BY TakeJobFacts DEF FetchAndProcessBatch
<1>4. FlushOnce' /\ FlushJobs' = FlushJobs
  BY FlushSideKept DEF FetchAndProcessBatch
<1>5. k \in taken /\ k \notin QueueJobs \cup FlushJobs \cup stored \cup lost
  BY <1>2 DEF InPlace
<1>6. k \in Jobs
  BY <1>5, JobCountIsNat DEF QueueTypeOK, Jobs
<1>7. 0..(next' - 1) = taken \cup more /\ taken \cap more = {}
  BY <1>1, Grows
<1>8. /\ FetchJobs \cup QueueJobs \cup FlushJobs \cup stored \cup lost = taken
      /\ UNCHANGED stored
  BY DEF InPlace, FetchAndProcessBatch
<1>9. InOrder'
  <2>1. ~fetchersDone /\ fetchersDone' = fetchersDone
    BY DEF FetchAndProcessBatch, InOrder
  <2>2. UNCHANGED <<flusher, ended>>
    BY DEF FetchAndProcessBatch
  <2>3. JobCount \in Nat
    BY JobCountIsNat
  <2>4. ASSUME NEW g \in Fetcher, fetcher'[g].pc = "done"
        PROVE  next' = JobCount
    <3>1. CASE g = f
      BY <1>1, <2>4, <3>1
    <3>2. CASE g # f
      <4>1. next = JobCount
        BY <1>3, <2>4, <3>2 DEF InOrder
      <4> QED BY <1>0, <1>1, <1>3, <2>3, <4>1
    <3> QED BY <3>1, <3>2
  <2> QED BY <1>0, <2>1, <2>2, <2>4 DEF InOrder
<1>10. CASE flushQueue' = Append(flushQueue, k) /\ UNCHANGED lost
  <2>1. QueueOnce' /\ QueueJobs' = QueueJobs \cup {k}
    BY <1>5, <1>6, <1>10, PushMoves
  <2>2. flushQueue' \in Seq(Jobs)
    BY <1>6, <1>10, AppendFacts DEF QueueTypeOK
  <2>3. QueueTypeOK'
    BY <1>0, <1>3, <1>10, <2>2 DEF QueueTypeOK, FetcherState, FetchAndProcessBatch
  <2> HIDE DEF taken, more, k
  <2>4. InPlace'
    BY <1>1, <1>2, <1>4, <1>5, <1>7, <1>8, <1>10, <2>1 DEF InPlace
  <2> QED BY <1>1, <1>4, <1>9, <2>1, <2>3, <2>4
<1>11. CASE lost' = lost \cup {k} /\ UNCHANGED flushQueue
  <2>1. QueueOnce' /\ QueueJobs' = QueueJobs
    BY <1>11, QueueKept
  <2>2. QueueTypeOK'
    BY <1>0, <1>3, <1>6, <1>11 DEF QueueTypeOK, FetcherState, FetchAndProcessBatch
  <2> HIDE DEF taken, more, k
  <2>3. InPlace'
    BY <1>1, <1>2, <1>4, <1>5, <1>7, <1>8, <1>11, <2>1 DEF InPlace
  <2> QED BY <1>1, <1>4, <1>9, <2>1, <2>2, <2>3
<1> QED BY <1>10, <1>11 DEF FetchAndProcessBatch

LEMMA FlushWorkerKeeps ==
    ASSUME QueueInv, NEW w \in Flusher, FlushWorker(w)
    PROVE  QueueInv'
<1> USE DEF QueueInv
<1>0. JobCount' = JobCount /\ Jobs' = Jobs
  BY SameJobs DEF FlushWorker
<1>1. /\ FlushOnce' /\ QueueOnce' /\ QueueJobs' \subseteq QueueJobs
      /\ FlushJobs' = (FlushJobs \ OwnFlush(w)) \cup (QueueJobs \ QueueJobs')
  BY TakeBufferMoves DEF FlushWorker, InPlace
<1>2. OwnFlush(w) = {}
  BY DEF FlushWorker, OwnFlush, Flushing
<1>3. FetchOnce' /\ FetchJobs' = FetchJobs
  BY FetchSideKept DEF FlushWorker
<1>4. /\ flusher' \in [Flusher -> FlusherState] /\ flushQueue' \in Seq(Jobs)
      /\ \A v \in Flusher \ {w} : flusher'[v] = flusher[v]
      /\ flushQueue # <<>> => flusher'[w].pc = "flush"
      /\ flushQueue = <<>> =>
           flushQueue' = <<>> /\ flusher'[w].pc = IF fetchersDone THEN "done" ELSE "poll"
  BY TakeBufferFacts DEF FlushWorker
<1>5. QueueTypeOK'
  BY <1>0, <1>4 DEF QueueTypeOK, FlusherState, FlushWorker
<1>6. InPlace'
  BY <1>1, <1>2, <1>3 DEF InPlace, FlushWorker
<1>7. InOrder'
  BY <1>0, <1>4 DEF InOrder, FlushWorker
<1> QED BY <1>1, <1>3, <1>5, <1>6, <1>7

LEMMA FlushBatchBufferKeeps ==
    ASSUME QueueInv, NEW w \in Flusher, FlushBatchBuffer(w)
    PROVE  QueueInv'
<1> USE DEF QueueInv
<1> DEFINE k == flusher[w].job
<1>0. JobCount' = JobCount /\ Jobs' = Jobs
  BY SameJobs DEF FlushBatchBuffer
<1>1. /\ FlushOnce' /\ QueueOnce' /\ QueueJobs' \subseteq QueueJobs
      /\ FlushJobs' = (FlushJobs \ OwnFlush(w)) \cup (QueueJobs \ QueueJobs')
  BY TakeBufferMoves DEF FlushBatchBuffer, InPlace
<1>2. OwnFlush(w) = {k} /\ k \in FlushJobs
  BY DEF FlushBatchBuffer, OwnFlush, Flushing, FlushJobs
<1>3. FetchOnce' /\ FetchJobs' = FetchJobs
  BY FetchSideKept DEF FlushBatchBuffer
<1>4. /\ flusher' \in [Flusher -> FlusherState] /\ flushQueue' \in Seq(Jobs)
      /\ \A v \in Flusher \ {w} : flusher'[v] = flusher[v]
      /\ flushQueue # <<>> => flusher'[w].pc = "flush"
      /\ flushQueue = <<>> =>
           flushQueue' = <<>> /\ flusher'[w].pc = IF fetchersDone THEN "done" ELSE "poll"
  BY TakeBufferFacts DEF FlushBatchBuffer
<1>5. k \in 0..(next - 1) /\ k \notin stored \cup lost
  BY <1>2 DEF InPlace
<1>6. k \in Jobs
  BY <1>5, JobCountIsNat DEF QueueTypeOK, Jobs
<1>7. \/ stored' = stored \cup {k} /\ lost' = lost
      \/ lost' = lost \cup {k} /\ stored' = stored
  BY DEF FlushBatchBuffer
<1>8. QueueTypeOK'
  BY <1>0, <1>4, <1>6, <1>7 DEF QueueTypeOK, FlusherState, FlushBatchBuffer
<1>9. InOrder'
  BY <1>0, <1>4 DEF InOrder, FlushBatchBuffer
<1>10. UNCHANGED next
  BY DEF FlushBatchBuffer
<1> HIDE DEF k
<1>11. InPlace'
  BY <1>1, <1>2, <1>3, <1>5, <1>7, <1>10 DEF InPlace
<1> QED BY <1>1, <1>3, <1>8, <1>9, <1>11

LEMMA QueueStepInv == QueueInv /\ [QueueNext]_queueVars => QueueInv'
<1> SUFFICES ASSUME QueueInv, [QueueNext]_queueVars PROVE QueueInv'
  OBVIOUS
<1>1. CASE \E f \in Fetcher : FetchStep(f)
  BY <1>1, FetchWorkerKeeps, PassGateKeeps, FetchAndProcessBatchKeeps DEF FetchStep
<1>2. CASE \E w \in Flusher : FlushStep(w)
  BY <1>2, FlushWorkerKeeps, FlushBatchBufferKeeps DEF FlushStep
<1>3. CASE FetchersDone \/ QueueEnds \/ UNCHANGED queueVars
  <2>1. UNCHANGED <<span, batch, next, fetcher, flushQueue, flusher, stored, lost>>
    BY <1>3 DEF FetchersDone, QueueEnds, queueVars
  <2>2. /\ FlushOnce' /\ FlushJobs' = FlushJobs /\ QueueOnce' /\ QueueJobs' = QueueJobs
        /\ FetchOnce' /\ FetchJobs' = FetchJobs
    BY <2>1, FlushSideKept, QueueKept, FetchSideKept DEF QueueInv
  <2>3. JobCount' = JobCount /\ Jobs' = Jobs
    BY <2>1, SameJobs
  <2>4. QueueTypeOK'
    BY <1>3, <2>1, <2>3 DEF QueueInv, QueueTypeOK, FetchersDone, QueueEnds, queueVars
  <2>5. InPlace'
    BY <2>1, <2>2 DEF QueueInv, InPlace
  <2>6. InOrder'
    BY <1>3, <2>1, <2>3 DEF QueueInv, InOrder, FetchersDone, QueueEnds, queueVars
  <2> QED BY <2>2, <2>4, <2>5, <2>6 DEF QueueInv
<1> QED BY <1>1, <1>2, <1>3 DEF QueueNext

\* In every reachable state of the backfill its jobs, queue and workers are well typed
\* (scripts/backfill.ts main).
THEOREM QueueTypeCorrect == QueueSpec => []QueueTypeOK
<1>1. QueueInv => QueueTypeOK
  BY DEF QueueInv
<1> QED BY <1>1, QueueInitInv, QueueStepInv, PTL DEF QueueSpec

-----------------------------------------------------------------------------
(***************************************************************************)
(* How long the queue gets                                                 *)
(***************************************************************************)

Fetching == {f \in Fetcher : fetcher[f].pc = "fetch"}

\* Each worker that fetches has looked at a queue with room for one; each may add one.
RoomLeft == Len(flushQueue) + Cardinality(Fetching) <= QueueMax - 1 + Cardinality(Fetcher)

LEMMA FetchingFinite ==
    /\ IsFiniteSet(Fetching) /\ Cardinality(Fetching) \in Nat
    /\ Cardinality(Fetcher) \in Nat /\ Cardinality(Fetching) <= Cardinality(Fetcher)
  BY QueueAssumption, FS_Subset, FS_CardinalityType DEF QueueAssumption, Fetching

LEMMA FetchingFiniteLater ==
    /\ IsFiniteSet(Fetching') /\ Cardinality(Fetching') \in Nat
    /\ Cardinality(Fetching') <= Cardinality(Fetcher)
<1>1. Fetching' \subseteq Fetcher
  BY DEF Fetching
<1> QED BY <1>1, QueueAssumption, FS_Subset, FS_CardinalityType DEF QueueAssumption

\* A worker that looks at a queue of length n, after which the queue is not longer.
LEMMA LookedKeepsRoom ==
    ASSUME QueueMax \in Nat, Len(flushQueue') \in Nat, Len(flushQueue') < QueueMax
    PROVE  RoomLeft'
  BY FetchingFinite, FetchingFiniteLater DEF RoomLeft

LEMMA FewerKeepsRoom ==
    ASSUME QueueMax \in Nat, RoomLeft, Len(flushQueue) \in Nat, Len(flushQueue') \in Nat,
           Len(flushQueue') <= Len(flushQueue), Fetching' \subseteq Fetching
    PROVE  RoomLeft'
<1>1. Cardinality(Fetching') <= Cardinality(Fetching)
  BY FetchingFinite, FS_Subset
<1> QED BY <1>1, FetchingFinite, FetchingFiniteLater DEF RoomLeft

LEMMA RoomInit == QueueInit => RoomLeft
<1> SUFFICES ASSUME QueueInit PROVE RoomLeft
  OBVIOUS
<1>1. Fetching = {} /\ flushQueue = <<>>
  BY DEF QueueInit, Fetching
<1>2. Len(flushQueue) = 0 /\ Cardinality(Fetching) = 0
  BY <1>1, FS_EmptySet
<1>3. QueueMax \in Nat \ {0}
  BY QueueAssumption DEF QueueAssumption
<1> QED BY <1>2, <1>3, FetchingFinite DEF RoomLeft

\* What a worker does when its loop comes to the gate with q in the queue.
LEMMA GateFacts ==
    ASSUME QueueTypeOK, NEW f \in Fetcher, TakeJob(f, flushQueue'), UNCHANGED <<span, batch>>,
           Len(flushQueue') \in Nat
    PROVE  \/ Len(flushQueue') < QueueMax
           \/ Fetching' = Fetching \ {f}
<1>1. QueueMax \in Nat
  BY QueueAssumption DEF QueueAssumption
<1>2. /\ \A g \in Fetcher \ {f} : fetcher'[g] = fetcher[g]
      /\ fetcher'[f].pc = "done" \/ fetcher'[f].pc = Gate(flushQueue')
  BY TakeJobFacts
<1>3. CASE fetcher'[f].pc = "fetch"
  BY <1>1, <1>2, <1>3 DEF Gate
<1>4. CASE fetcher'[f].pc # "fetch"
  BY <1>2, <1>4 DEF Fetching
<1> QED BY <1>3, <1>4

LEMMA RoomStep == QueueTypeOK /\ RoomLeft /\ [QueueNext]_queueVars => RoomLeft'
<1> SUFFICES ASSUME QueueTypeOK, RoomLeft, [QueueNext]_queueVars PROVE RoomLeft'
  OBVIOUS
<1>0. Len(flushQueue) \in Nat /\ QueueMax \in Nat /\ flushQueue \in Seq(Jobs)
  BY QueueAssumption DEF QueueTypeOK, QueueAssumption
<1>1. ASSUME NEW f \in Fetcher, FetchWorker(f) PROVE RoomLeft'
  <2>1. flushQueue' = flushQueue
    BY <1>1 DEF FetchWorker
  <2>2. Len(flushQueue') < QueueMax \/ Fetching' = Fetching \ {f}
    BY <1>0, <1>1, <2>1, GateFacts DEF FetchWorker
  <2> QED BY <1>0, <2>1, <2>2, LookedKeepsRoom, FewerKeepsRoom
<1>2. ASSUME NEW f \in Fetcher, PassGate(f) PROVE RoomLeft'
  <2>1. flushQueue' = flushQueue /\ Len(flushQueue) < QueueMax
    BY <1>0, <1>2 DEF PassGate, Gate
  <2> QED BY <1>0, <2>1, LookedKeepsRoom
<1>3. ASSUME NEW f \in Fetcher, FetchAndProcessBatch(f) PROVE RoomLeft'
  <2>1. \/ flushQueue' = Append(flushQueue, fetcher[f].job)
        \/ flushQueue' = flushQueue
    BY <1>3 DEF FetchAndProcessBatch
  <2>2. Len(flushQueue') \in Nat /\ Len(flushQueue') <= Len(flushQueue) + 1
    BY <1>0, <2>1, LenAppended
  <2>3. f \in Fetching
    BY <1>3 DEF FetchAndProcessBatch, Fetching
  <2>4. Len(flushQueue') < QueueMax \/ Fetching' = Fetching \ {f}
    BY <1>3, <2>2, GateFacts DEF FetchAndProcessBatch
  <2>5. CASE Fetching' = Fetching \ {f}
    <3>1. Cardinality(Fetching') = Cardinality(Fetching) - 1
      BY <2>3, <2>5, FetchingFinite, FS_RemoveElement
    <3> QED BY <1>0, <2>2, <3>1, FetchingFinite DEF RoomLeft
  <2> QED BY <1>0, <2>2, <2>4, <2>5, LookedKeepsRoom
<1>4. ASSUME NEW w \in Flusher, TakeBuffer(w), UNCHANGED fetcher PROVE RoomLeft'
  <2>1. \/ flushQueue # <<>> /\ flushQueue' = Tail(flushQueue)
        \/ flushQueue' = flushQueue
    BY <1>4, TakeBufferFacts
  <2>2. Len(flushQueue') \in Nat /\ Len(flushQueue') <= Len(flushQueue)
    BY <1>0, <2>1, TailFacts
  <2>3. Fetching' = Fetching
    BY <1>4 DEF Fetching
  <2> QED BY <1>0, <2>2, <2>3, FewerKeepsRoom
<1>5. CASE UNCHANGED <<fetcher, flushQueue>>
  <2>1. Fetching' = Fetching
    BY <1>5 DEF Fetching
  <2> QED BY <1>0, <1>5, <2>1, FewerKeepsRoom
<1> QED
  BY <1>1, <1>2, <1>3, <1>4, <1>5
  DEF QueueNext, FetchStep, FlushStep, FlushWorker, FlushBatchBuffer, FetchersDone, QueueEnds,
      queueVars

\* The queue never holds more than QUEUE_MAX - 1 + CONCURRENCY buffers: its length is looked
\* at before a fetch and not again before the push (scripts/backfill.ts:774).
THEOREM QueueBounded == QueueSpec => []QueueBound
<1>1. QueueTypeOK /\ RoomLeft => QueueBound
  <2>1. ASSUME QueueTypeOK, RoomLeft PROVE QueueBound
    <3>1. Len(flushQueue) \in Nat /\ QueueMax \in Nat
      BY <2>1, QueueAssumption DEF QueueTypeOK, QueueAssumption
    <3> QED BY <2>1, <3>1, FetchingFinite DEF RoomLeft, QueueBound
  <2> QED BY <2>1
<1>3. QueueInv /\ RoomLeft /\ [QueueNext]_queueVars => QueueInv' /\ RoomLeft'
  BY QueueStepInv, RoomStep DEF QueueInv
<1>4. QueueInv => QueueTypeOK
  BY DEF QueueInv
<1> QED BY <1>1, <1>3, <1>4, QueueInitInv, RoomInit, PTL DEF QueueSpec

-----------------------------------------------------------------------------
(***************************************************************************)
(* Which blocks are in which batch                                         *)
(***************************************************************************)

\* A block of the range is in the batch its number divides to, and in no other.
LEMMA OwnBatch ==
    ASSUME NEW s \in Nat, NEW n \in Nat \ {0}, span = s, batch = n,
           NEW b \in 0..s, NEW k \in Nat
    PROVE  b \in BlocksOf(k) <=> k = b \div n
<1>1. b \in BlocksOf(k) <=> k * n <= b /\ b <= k * n + n - 1
  BY Multiples DEF BlocksOf
<1>2. ASSUME k * n <= b, b <= k * n + n - 1 PROVE k = b \div n
  <2>1. b - k * n \in 0..(n - 1) /\ b = k * n + (b - k * n)
    BY <1>2, Multiples
  <2> QED BY <2>1, DivisionUnique
<1>3. ASSUME k = b \div n PROVE k * n <= b /\ b <= k * n + n - 1
  <2>1. b = (b \div n) * n + (b % n) /\ b % n \in 0..(n - 1)
    BY Division
  <2> QED BY <1>3, <2>1, Multiples
<1> QED BY <1>1, <1>2, <1>3

\* The batch of a block is among the jobs, but for the last block when n divides s.
LEMMA BatchIsJob ==
    ASSUME NEW s \in Nat, NEW n \in Nat \ {0}, span = s, batch = n, NEW b \in 0..s
    PROVE  b \div n \in Jobs <=> ~(b = s /\ s % n = 0)
<1> DEFINE q == s \div n
           r == s % n
           c == b \div n
           m == (s + n - 1) \div n
<1>1. s = q * n + r /\ r \in 0..(n - 1) /\ q \in Nat /\ q * n \in Nat
  BY Division, Multiples
<1>2. b = c * n + (b % n) /\ b % n \in 0..(n - 1) /\ c \in Nat /\ c * n \in Nat
  <2>1. b \in Nat
    OBVIOUS
  <2>2. b = c * n + (b % n) /\ b % n \in 0..(n - 1) /\ c \in Nat
    BY ONLY <2>1, n \in Nat \ {0}, Division
  <2> HIDE DEF c
  <2>3. c * n \in Nat
    BY <2>2, Multiples
  <2> QED BY <2>2, <2>3
<1>3. Jobs = 0 .. m - 1
  BY DEF Jobs, JobCount
<1>4. CASE r = 0
  <2>1. s + n - 1 = q * n + (n - 1) /\ n - 1 \in 0..(n - 1) /\ s + n - 1 \in Nat
    BY <1>1, <1>4
  <2>2. m = q
    <3> HIDE DEF q
    <3> QED BY <1>1, <2>1, DivisionUnique
  <2>3. b = s => c = q
    OBVIOUS
  <2>4. ASSUME b # s PROVE c < q
    <3>1. ASSUME c >= q PROVE FALSE
      <4>1. b >= c * n
        BY <1>2
      <4>2. c = q \/ c >= q + 1
        BY <3>1, <1>1, <1>2
      <4>3. c * n >= q * n
        <5>1. CASE c = q
          BY <5>1, <1>1
        <5>2. CASE c >= q + 1
          <6> HIDE DEF c, q
          <6>1. c * n >= q * n + n
            BY <5>2, <1>1, <1>2, NextMultiple
          <6> QED BY <6>1, <1>1, <1>2
        <5> QED BY <4>2, <5>1, <5>2
      <4> HIDE DEF c, q, r
      <4> QED BY <1>1, <1>2, <1>4, <2>4, <4>1, <4>3
    <3> HIDE DEF c, q
    <3> QED BY <1>1, <1>2, <3>1
  <2> HIDE DEF c, q, m
  <2> QED BY <1>1, <1>2, <1>3, <1>4, <2>2, <2>3, <2>4 DEF c
<1>5. CASE r # 0
  <2>1. s + n - 1 = (q + 1) * n + (r - 1) /\ r - 1 \in 0..(n - 1) /\ s + n - 1 \in Nat
    <3>1. (q + 1) * n = q * n + n
      BY <1>1
    <3> HIDE DEF q, r
    <3> QED BY <1>1, <1>5, <3>1
  <2>2. m = q + 1
    <3> HIDE DEF q, r
    <3> QED BY <1>1, <2>1, DivisionUnique
  <2>3. c <= q
    <3>1. ASSUME c >= q + 1 PROVE FALSE
      <4> HIDE DEF c, q, r
      <4>1. c * n >= q * n + n
        BY <3>1, <1>1, <1>2, NextMultiple
      <4> QED BY <1>1, <1>2, <4>1
    <3> HIDE DEF c, q
    <3> QED BY <1>1, <1>2, <3>1
  <2> HIDE DEF c, q, m
  <2> QED BY <1>1, <1>2, <1>3, <1>5, <2>2, <2>3 DEF c
<1> QED BY <1>4, <1>5

\* When the main loop ends, each block of the range is in exactly one batch that was stored
\* or given up, but for the last block when the size of a batch divides the range, for any
\* range, batch size and number of workers (scripts/backfill.ts:706).
THEOREM BlocksAccounted == QueueSpec => []AllBlocksAccounted
<1>1. ASSUME QueueInv PROVE AllBlocksAccounted
  <2> SUFFICES ASSUME ended PROVE AllBlocksAccounted
    BY DEF AllBlocksAccounted
  <2> USE <1>1
  <2>1. /\ \A f \in Fetcher : fetcher[f].pc = "done"
        /\ \A w \in Flusher : flusher[w].pc = "done"
        /\ next = JobCount /\ flushQueue = <<>>
    BY QueueAssumption DEF QueueInv, InOrder, QueueAssumption
  <2>2. FetchJobs = {} /\ QueueJobs = {} /\ FlushJobs = {}
    BY <2>1 DEF FetchJobs, QueueJobs, FlushJobs, Busy, Flushing, Place
  <2>3. stored \cup lost = Jobs /\ stored \cap lost = {}
    BY <2>1, <2>2 DEF QueueInv, InPlace, Jobs
  <2>4. span \in Nat /\ batch \in Nat \ {0} /\ Jobs \subseteq Nat
    BY QueueAssumption, JobCountIsNat DEF QueueInv, QueueTypeOK, QueueAssumption, Jobs
  <2>5. ASSUME NEW b \in 0..span
        PROVE  Cardinality({k \in stored \cup lost : b \in BlocksOf(k)})
                 = IF b = span /\ span % batch = 0 THEN 0 ELSE 1
    <3>1. \A k \in Jobs : b \in BlocksOf(k) <=> k = b \div batch
      BY <2>4, OwnBatch
    <3>2. b \div batch \in Jobs <=> ~(b = span /\ span % batch = 0)
      BY <2>4, BatchIsJob
    <3>3. CASE b = span /\ span % batch = 0
      <4>1. {k \in stored \cup lost : b \in BlocksOf(k)} = {}
        BY <2>3, <3>1, <3>2, <3>3
      <4> QED BY <3>3, <4>1, FS_EmptySet
    <3>4. CASE ~(b = span /\ span % batch = 0)
      <4>1. {k \in stored \cup lost : b \in BlocksOf(k)} = {b \div batch}
        BY <2>3, <3>1, <3>2, <3>4
      <4>2. Cardinality({b \div batch}) = 1
        BY FS_Singleton
      <4> QED BY <3>4, <4>1, <4>2
    <3> QED BY <3>3, <3>4
  <2> QED BY <2>3, <2>5 DEF AllBlocksAccounted
<1> QED BY <1>1, QueueInitInv, QueueStepInv, PTL DEF QueueSpec

-----------------------------------------------------------------------------
(***************************************************************************)
(* The queue settles a batch once and ends when every batch is settled     *)
(***************************************************************************)

\* There is no more than one batch for each block after the first.
LEMMA FewJobs ==
    ASSUME QueueTypeOK
    PROVE  Jobs \subseteq 0..MaxSpan
<1>1. span \in 0..MaxSpan /\ batch \in Nat \ {0} /\ span \in Nat /\ MaxSpan \in Nat
  BY QueueAssumption DEF QueueTypeOK, QueueAssumption
<1>2. JobCount \in Nat /\ JobCount <= span
  BY <1>1, NoMoreParts DEF JobCount
<1> QED BY <1>1, <1>2 DEF Jobs

\* The job of a worker that fetches or stores is one of the run, and is not settled.
LEMMA JobOpen ==
    ASSUME QueueInv
    PROVE  /\ \A f \in Fetcher : fetcher[f].pc = "fetch" =>
                 fetcher[f].job \in Jobs \ (stored \cup lost)
           /\ \A w \in Flusher : flusher[w].pc = "flush" =>
                 flusher[w].job \in Jobs \ (stored \cup lost)
           /\ stored \cap lost = {}
<1>1. next \in 0..JobCount /\ JobCount \in Nat
  BY JobCountIsNat DEF QueueInv, QueueTypeOK
<1>2. FetchJobs \subseteq 0..(next - 1) /\ FlushJobs \subseteq 0..(next - 1)
  BY DEF QueueInv, InPlace
<1>3. FetchJobs \subseteq Jobs /\ FlushJobs \subseteq Jobs
  BY <1>1, <1>2 DEF Jobs
<1>4. \A f \in Fetcher : fetcher[f].pc = "fetch" => fetcher[f].job \in FetchJobs
  BY DEF FetchJobs, Busy
<1>5. \A w \in Flusher : flusher[w].pc = "flush" => flusher[w].job \in FlushJobs
  BY DEF FlushJobs, Flushing
<1> QED BY <1>3, <1>4, <1>5 DEF QueueInv, InPlace

\* A batch that is settled, from the point of view of the promise.
LEMMA SettleOne ==
    ASSUME QueueInv, UNCHANGED <<span, batch, ended>>, ~ended,
           NEW k \in Jobs \ (stored \cup lost),
           \/ stored' = stored \cup {k} /\ UNCHANGED lost
           \/ lost' = lost \cup {k} /\ UNCHANGED stored
    PROVE  Ledger!LedgerNext
<1>1. Jobs' = Jobs
  BY SameJobs
<1>2. k \in 0..MaxSpan
  BY FewJobs DEF QueueInv
<1>3. Ledger!Settle(k)
  BY <1>1 DEF Ledger!Settle
<1> QED BY <1>2, <1>3 DEF Ledger!LedgerNext

\* Whatever the workers do is for the promise the settling of one batch, the end, or
\* nothing: no batch is settled twice, and the run ends with all of them settled
\* (scripts/backfill.ts fetchWorker, flushWorker; the liveness of BatchLedger is not part
\* of this).
THEOREM QueueKeepsLedger == QueueSpec => Ledger!LedgerSafety
<1>1. QueueInit => Ledger!LedgerInit
  <2> SUFFICES ASSUME QueueInit PROVE Ledger!LedgerInit
    OBVIOUS
  <2>1. Jobs \subseteq 0..MaxSpan
    BY FewJobs, QueueInitInv DEF QueueInv
  <2> QED BY <2>1 DEF QueueInit, Ledger!LedgerInit
<1>2. QueueInv /\ [QueueNext]_queueVars => [Ledger!LedgerNext]_(Ledger!ledgerVars)
  <2> SUFFICES ASSUME QueueInv, [QueueNext]_queueVars
               PROVE  Ledger!LedgerNext \/ UNCHANGED Ledger!ledgerVars
    OBVIOUS
  <2>1. ASSUME UNCHANGED <<span, batch, stored, lost, ended>> PROVE UNCHANGED Ledger!ledgerVars
    BY <2>1, SameJobs DEF Ledger!ledgerVars
  <2>2. ASSUME NEW f \in Fetcher, FetchStep(f)
        PROVE  Ledger!LedgerNext \/ UNCHANGED Ledger!ledgerVars
    <3>1. CASE FetchWorker(f) \/ PassGate(f)
      BY <2>1, <3>1 DEF FetchWorker, PassGate
    <3>2. CASE FetchAndProcessBatch(f)
      <4>1. fetcher[f].job \in Jobs \ (stored \cup lost) /\ ~ended
        BY <3>2, JobOpen DEF FetchAndProcessBatch, QueueInv, InOrder
      <4>2. CASE UNCHANGED lost
        BY <2>1, <3>2, <4>2 DEF FetchAndProcessBatch
      <4>3. CASE lost' = lost \cup {fetcher[f].job}
        BY <3>2, <4>1, <4>3, SettleOne DEF FetchAndProcessBatch
      <4> QED BY <3>2, <4>2, <4>3 DEF FetchAndProcessBatch
    <3> QED BY <2>2, <3>1, <3>2 DEF FetchStep
  <2>3. ASSUME NEW w \in Flusher, FlushStep(w)
        PROVE  Ledger!LedgerNext \/ UNCHANGED Ledger!ledgerVars
    <3>1. CASE FlushWorker(w)
      BY <2>1, <3>1 DEF FlushWorker
    <3>2. CASE FlushBatchBuffer(w)
      <4>1. flusher[w].job \in Jobs \ (stored \cup lost) /\ ~ended
        BY <3>2, JobOpen DEF FlushBatchBuffer, QueueInv, InOrder
      <4> QED BY <3>2, <4>1, SettleOne DEF FlushBatchBuffer
    <3> QED BY <2>3, <3>1, <3>2 DEF FlushStep
  <2>4. CASE FetchersDone
    BY <2>1, <2>4 DEF FetchersDone
  <2>5. CASE QueueEnds
    <3>1. next = JobCount /\ flushQueue = <<>>
      BY <2>5, QueueAssumption DEF QueueEnds, QueueInv, InOrder, QueueAssumption
    <3>2. FetchJobs = {} /\ QueueJobs = {} /\ FlushJobs = {}
      BY <2>5, <3>1 DEF QueueEnds, QueueInv, InOrder, FetchJobs, QueueJobs, FlushJobs, Busy,
                        Flushing, Place
    <3>3. stored \cup lost = Jobs
      BY <3>1, <3>2 DEF QueueInv, InPlace, Jobs
    <3>4. Jobs' = Jobs
      BY <2>5, SameJobs DEF QueueEnds
    <3>5. Ledger!Close
      BY <2>5, <3>3, <3>4 DEF QueueEnds, Ledger!Close
    <3> QED BY <3>5 DEF Ledger!LedgerNext
  <2>6. CASE UNCHANGED queueVars
    BY <2>1, <2>6 DEF queueVars
  <2> QED BY <2>2, <2>3, <2>4, <2>5, <2>6 DEF QueueNext
<1> QED BY <1>1, <1>2, QueueInitInv, QueueStepInv, PTL DEF QueueSpec, Ledger!LedgerSafety

-----------------------------------------------------------------------------
(***************************************************************************)
(* The scan: what is not handed to the main loop was created in a range    *)
(* whose scan failed.                                                      *)
(***************************************************************************)

ScannerState == [pc : {"start", "scan", "done"}, range : 0..RangeCount]
Scanning(w) == scanner[w].pc = "scan"
DoneScanners == {w \in Scanner : scanner[w].pc = "done"}

\* A range that was taken is being scanned, was missed, or gave what it has.
Covered(i) ==
    \/ \E w \in Scanner : Scanning(w) /\ scanner[w].range = i
    \/ i \in missed
    \/ RangeOf(i) \cap wanted \subseteq found

Scanned ==
    /\ \A i \in 0..(RangeCount - 1) : i < cursor => Covered(i)
    /\ \A w \in Scanner : Scanning(w) => scanner[w].range < RangeCount
    /\ \A w \in Scanner : scanner[w].pc = "done" => cursor >= RangeCount
    /\ cursor <= RangeCount + Cardinality(DoneScanners)
    /\ found \subseteq wanted

\* What the table holds after each phase.
Listed ==
    /\ scanPc # "scan" => \A w \in Scanner : scanner[w].pc = "done"
    /\ scanPc \in {"scan", "upsert"} => poolRows = dump
    /\ scanPc \in {"select", "end"} => poolRows = dump \cup found
    /\ scanPc = "end" => listed = poolRows

ScanInv == ScanTypeOK /\ Scanned /\ Listed

-----------------------------------------------------------------------------
LEMMA Quotient ==
    ASSUME NEW a \in Nat, NEW n \in Nat \ {0}
    PROVE  a = (a \div n) * n + (a % n) /\ a % n \in 0..(n - 1) /\ a \div n \in Nat
  OBVIOUS

LEMMA QuotientMonotone ==
    ASSUME NEW a \in Nat, NEW b \in Nat, NEW n \in Nat \ {0}, a <= b
    PROVE  a \div n <= b \div n
<1> DEFINE p == a \div n
           q == b \div n
<1>1. a = p * n + (a % n) /\ a % n \in 0..(n - 1) /\ p \in Nat
  BY Quotient
<1>2. b = q * n + (b % n) /\ b % n \in 0..(n - 1) /\ q \in Nat
  BY Quotient
<1>3. ASSUME p >= q + 1 PROVE FALSE
  <2> HIDE DEF p, q
  <2>1. p * n >= q * n + n /\ p * n \in Nat /\ q * n \in Nat
    BY <1>1, <1>2, <1>3
  <2> QED BY <1>1, <1>2, <2>1
<1> HIDE DEF p, q
<1> QED BY <1>1, <1>2, <1>3 DEF p, q

LEMMA RangeCountNat == ASSUME ScanTypeOK PROVE RangeCount \in Nat \ {0}
<1>1. scanTo \in Nat /\ step + 1 \in Nat \ {0}
  BY DiscoveryAssumption DEF ScanTypeOK, DiscoveryAssumption
<1>2. scanTo \div (step + 1) \in Nat
  BY <1>1, Quotient
<1> QED BY <1>2 DEF RangeCount

\* buildRanges leaves no block out.
LEMMA EveryBlockInRange ==
    ASSUME ScanTypeOK, NEW b \in Block
    PROVE  \E i \in 0..(RangeCount - 1) : b \in RangeOf(i)
<1> DEFINE n == step + 1
           i == b \div n
<1>1. /\ scanTo \in Nat /\ step \in Nat /\ n \in Nat \ {0} /\ b \in Nat /\ b <= scanTo
  BY DiscoveryAssumption DEF ScanTypeOK, DiscoveryAssumption, Block
<1>2. b = i * n + (b % n) /\ b % n \in 0..(n - 1) /\ i \in Nat
  BY <1>1, Quotient
<1>3. i <= scanTo \div n /\ scanTo \div n \in Nat
  BY <1>1, Quotient, QuotientMonotone
<1>4. RangeCount = scanTo \div n + 1
  BY DEF RangeCount
<1> HIDE DEF i
<1>5. i \in 0..(RangeCount - 1)
  BY <1>2, <1>3, <1>4
<1>6. i * n \in Nat /\ n - 1 = step
  BY <1>1, <1>2
<1>7. b \in RangeOf(i)
  <2>1. RangeOf(i) = {c \in Block : i * n <= c /\ c <= i * n + step}
    BY DEF RangeOf
  <2> HIDE DEF n
  <2> QED BY <1>1, <1>2, <1>6, <2>1
<1> QED BY <1>5, <1>7

LEMMA SameRanges ==
    ASSUME UNCHANGED <<scanTo, step>>
    PROVE  /\ RangeCount' = RangeCount /\ Block' = Block
           /\ \A i : RangeOf(i)' = RangeOf(i)
  BY DEF RangeCount, RangeOf, Block

LEMMA ScannersFinite ==
    /\ IsFiniteSet(DoneScanners) /\ Cardinality(DoneScanners) \in Nat
    /\ Cardinality(Scanner) \in Nat /\ Cardinality(DoneScanners) <= Cardinality(Scanner)
  BY DiscoveryAssumption, FS_Subset, FS_CardinalityType DEF DiscoveryAssumption, DoneScanners

-----------------------------------------------------------------------------
\* The loop of a worker up to its next await.
LEMMA TakeRangeFacts ==
    ASSUME ScanTypeOK, NEW w \in Scanner, TakeRange(w)
    PROVE  /\ scanner' \in [Scanner -> ScannerState] /\ cursor' = cursor + 1
           /\ \A v \in Scanner \ {w} : scanner'[v] = scanner[v]
           /\ \/ cursor < RangeCount /\ scanner'[w] = [pc |-> "scan", range |-> cursor]
              \/ cursor >= RangeCount /\ scanner'[w] = [pc |-> "done", range |-> 0]
<1>1. RangeCount \in Nat /\ cursor \in Nat /\ scanner \in [Scanner -> ScannerState]
  BY RangeCountNat, ScannersFinite DEF ScanTypeOK, ScannerState
<1>2. CASE cursor < RangeCount
  <2>1. scanner' = [scanner EXCEPT ![w] = [pc |-> "scan", range |-> cursor]]
    BY <1>2 DEF TakeRange
  <2>2. [pc |-> "scan", range |-> cursor] \in ScannerState
    BY <1>1, <1>2 DEF ScannerState
  <2> QED BY <1>1, <1>2, <2>1, <2>2 DEF TakeRange
<1>3. CASE ~(cursor < RangeCount)
  <2>1. scanner' = [scanner EXCEPT ![w] = [pc |-> "done", range |-> 0]]
    BY <1>3 DEF TakeRange
  <2>2. [pc |-> "done", range |-> 0] \in ScannerState
    BY <1>1 DEF ScannerState
  <2> QED BY <1>1, <1>3, <2>1, <2>2 DEF TakeRange
<1> QED BY <1>2, <1>3

\* A worker that was not done takes a range and leaves the one it had, if any, settled.
LEMMA TakeRangeKeeps ==
    ASSUME ScanInv, NEW w \in Scanner, scanner[w].pc # "done", TakeRange(w),
           UNCHANGED <<scanTo, step, wanted>>,
           missed \subseteq missed', found \subseteq found', found' \subseteq wanted,
           Scanning(w) => \/ scanner[w].range \in missed'
                          \/ RangeOf(scanner[w].range) \cap wanted \subseteq found'
    PROVE  Scanned' /\ cursor' \in 0..(RangeCount + Cardinality(Scanner))
           /\ scanner' \in [Scanner -> ScannerState]
<1>0. /\ RangeCount' = RangeCount /\ RangeCount \in Nat \ {0}
      /\ \A i : RangeOf(i)' = RangeOf(i)
  BY SameRanges, RangeCountNat DEF ScanInv
<1>1. /\ scanner' \in [Scanner -> ScannerState] /\ cursor' = cursor + 1
      /\ \A v \in Scanner \ {w} : scanner'[v] = scanner[v]
      /\ \/ cursor < RangeCount /\ scanner'[w] = [pc |-> "scan", range |-> cursor]
         \/ cursor >= RangeCount /\ scanner'[w] = [pc |-> "done", range |-> 0]
  BY TakeRangeFacts DEF ScanInv
<1>2. cursor \in Nat
  BY <1>0, ScannersFinite DEF ScanInv, ScanTypeOK
<1>3. ASSUME NEW i \in 0..(RangeCount - 1), i < cursor'
      PROVE  Covered(i)'
  <2>1. CASE i = cursor
    <3>1. Scanning(w)' /\ scanner'[w].range = i
      BY <1>1, <1>0, <2>1 DEF Scanning
    <3> QED BY <3>1 DEF Covered
  <2>2. CASE i < cursor
    <3>1. Covered(i)
      BY <2>2 DEF ScanInv, Scanned
    <3>2. ASSUME NEW v \in Scanner, v # w, Scanning(v), scanner[v].range = i
          PROVE  Scanning(v)' /\ scanner'[v].range = i
      BY <1>1, <3>2 DEF Scanning
    <3>3. CASE Scanning(w) /\ scanner[w].range = i
      BY <1>0, <3>3 DEF Covered
    <3> QED BY <1>0, <3>1, <3>2, <3>3 DEF Covered
  <2> QED BY <1>0, <1>1, <1>2, <1>3, <2>1, <2>2
<1>4. \A v \in Scanner : Scanning(v)' => scanner'[v].range < RangeCount
  BY <1>1 DEF ScanInv, Scanned, Scanning
<1>5. \A v \in Scanner : scanner'[v].pc = "done" => cursor' >= RangeCount
  BY <1>0, <1>1, <1>2 DEF ScanInv, Scanned
<1>6. cursor' <= RangeCount + Cardinality(DoneScanners') /\ Cardinality(DoneScanners') \in Nat
      /\ Cardinality(DoneScanners') <= Cardinality(Scanner)
  <2>1. CASE cursor < RangeCount /\ scanner'[w] = [pc |-> "scan", range |-> cursor]
    <3>1. DoneScanners' = DoneScanners
      BY <1>1, <2>1 DEF DoneScanners
    <3>2. Cardinality(DoneScanners') = Cardinality(DoneScanners)
      BY <3>1
    <3>3. cursor' = cursor + 1 /\ cursor < RangeCount /\ RangeCount \in Nat
      BY <1>0, <1>1, <2>1
    <3> QED BY <1>2, <3>2, <3>3, ScannersFinite
  <2>2. CASE cursor >= RangeCount /\ scanner'[w] = [pc |-> "done", range |-> 0]
    <3>1. DoneScanners' = DoneScanners \cup {w} /\ w \notin DoneScanners
      BY <1>1, <2>2 DEF DoneScanners
    <3>2. Cardinality(DoneScanners') = Cardinality(DoneScanners) + 1
      BY <3>1, ScannersFinite, FS_AddElement
    <3>3. DoneScanners' \subseteq Scanner
      BY DEF DoneScanners
    <3>4. Cardinality(DoneScanners') <= Cardinality(Scanner)
      BY <3>3, DiscoveryAssumption, FS_Subset DEF DiscoveryAssumption
    <3> QED BY <1>0, <1>1, <1>2, <3>2, <3>4, ScannersFinite DEF ScanInv, Scanned
  <2> QED BY <1>1, <2>1, <2>2
<1>7. Scanned'
  BY <1>0, <1>3, <1>4, <1>5, <1>6 DEF Scanned
<1>8. cursor' \in 0..(RangeCount + Cardinality(Scanner))
  BY <1>0, <1>1, <1>2, <1>6, ScannersFinite
<1> QED BY <1>1, <1>7, <1>8

LEMMA ScanFaultFacts == ASSUME ScanTypeOK, ScanFault PROVE scanFaults' \in 0..MaxScanFaults
  BY DiscoveryAssumption DEF ScanTypeOK, ScanFault, DiscoveryAssumption

LEMMA ScanStepKeeps ==
    ASSUME ScanInv, NEW w \in Scanner, ScanStep(w)
    PROVE  ScanInv'
<1>0. /\ UNCHANGED <<scanTo, step, wanted, dump, poolRows, listed, scanPc>>
      /\ scanner[w].pc # "done" /\ TakeRange(w)
  BY DEF ScanStep, StartScan, ScanRange
<1>1. RangeCount' = RangeCount /\ Block' = Block /\ RangeCount \in Nat \ {0}
  BY <1>0, SameRanges, RangeCountNat DEF ScanInv
<1>2. scanPc = "scan"
  BY <1>0 DEF ScanInv, Listed, ScanTypeOK
<1>3. /\ missed \subseteq missed' /\ found \subseteq found' /\ found' \subseteq wanted
      /\ missed' \subseteq 0..(RangeCount - 1) /\ scanFaults' \in 0..MaxScanFaults
      /\ Scanning(w) => \/ scanner[w].range \in missed'
                        \/ RangeOf(scanner[w].range) \cap wanted \subseteq found'
  <2>1. CASE StartScan(w)
    BY <2>1 DEF StartScan, ScanInv, ScanTypeOK, Scanned, Scanning
  <2>2. CASE scanner[w].pc = "scan"
             /\ found' = found \cup (RangeOf(scanner[w].range) \cap wanted)
             /\ UNCHANGED <<missed, scanFaults>>
    BY <2>2 DEF ScanInv, ScanTypeOK, Scanned
  <2>3. CASE scanner[w].pc = "scan" /\ ScanFault
             /\ missed' = missed \cup {scanner[w].range} /\ UNCHANGED found
    <3>1. scanner[w].range \in 0..(RangeCount - 1)
      BY <1>1, <2>3 DEF ScanInv, ScanTypeOK, Scanned, Scanning
    <3> QED BY <2>3, <3>1, ScanFaultFacts DEF ScanInv, ScanTypeOK, Scanned
  <2> QED BY <2>1, <2>2, <2>3 DEF ScanStep, ScanRange
<1>4. Scanned' /\ cursor' \in 0..(RangeCount + Cardinality(Scanner))
      /\ scanner' \in [Scanner -> ScannerState]
  BY <1>0, <1>3, TakeRangeKeeps
<1>5. found' \subseteq Block
  BY <1>3 DEF ScanInv, ScanTypeOK
<1>6. ScanTypeOK'
  BY <1>0, <1>1, <1>3, <1>4, <1>5 DEF ScanInv, ScanTypeOK, ScannerState
<1>7. Listed'
  BY <1>0, <1>2 DEF ScanInv, Listed
<1> QED BY <1>4, <1>6, <1>7 DEF ScanInv

\* A step of the phases behind the scan: the workers and their results stay.
LEMMA LaterKeeps ==
    ASSUME ScanInv,
           UNCHANGED <<scanTo, step, wanted, dump, cursor, scanner, found, missed>>,
           poolRows' \subseteq Block, listed' \subseteq Block,
           scanPc' \in {"scan", "upsert", "select", "end", "dead"},
           scanFaults' \in 0..MaxScanFaults, Listed'
    PROVE  ScanInv'
<1>1. /\ RangeCount' = RangeCount /\ Block' = Block
      /\ \A i : RangeOf(i)' = RangeOf(i)
  BY SameRanges
<1>2. DoneScanners' = DoneScanners /\ \A i : Covered(i)' <=> Covered(i)
  BY <1>1 DEF DoneScanners, Covered, Scanning
<1>3. ScanTypeOK'
  BY <1>1 DEF ScanInv, ScanTypeOK
<1>4. Scanned'
  BY <1>1, <1>2 DEF ScanInv, Scanned, Scanning
<1> QED BY <1>3, <1>4 DEF ScanInv

LEMMA ScanInitInv == ScanInit => ScanInv
<1> SUFFICES ASSUME ScanInit PROVE ScanInv
  OBVIOUS
<1>1. scanTo \in Nat /\ step \in Nat /\ step + 1 \in Nat \ {0}
  BY DiscoveryAssumption DEF ScanInit, DiscoveryAssumption
<1>2. scanTo \div (step + 1) \in Nat
  BY <1>1, Quotient
<1>3. RangeCount \in Nat \ {0}
  BY <1>2 DEF RangeCount
<1>4. cursor \in 0..(RangeCount + Cardinality(Scanner)) /\ scanFaults \in 0..MaxScanFaults
  BY <1>3, ScannersFinite, DiscoveryAssumption DEF ScanInit, DiscoveryAssumption
<1>5. scanner \in [Scanner -> ScannerState] /\ \A w \in Scanner : scanner[w].pc = "start"
  BY <1>3 DEF ScanInit, ScannerState
<1>6. ScanTypeOK
  BY <1>4, <1>5 DEF ScanInit, ScanTypeOK, ScannerState
<1>7. Scanned
  BY <1>3, <1>5, ScannersFinite DEF ScanInit, Scanned, Scanning
<1>8. Listed
  BY DEF ScanInit, Listed
<1> QED BY <1>6, <1>7, <1>8 DEF ScanInv

LEMMA ScanStepInv == ScanInv /\ [ScanNext]_scanVars => ScanInv'
<1> SUFFICES ASSUME ScanInv, [ScanNext]_scanVars PROVE ScanInv'
  OBVIOUS
<1> USE DEF ScanInv
<1>1. CASE \E w \in Scanner : ScanStep(w)
  BY <1>1, ScanStepKeeps
<1>2. CASE ScanDone
  <2>1. Listed'
    BY <1>2 DEF ScanDone, Listed
  <2>2. scanPc' \in {"scan", "upsert", "select", "end", "dead"}
    BY <1>2 DEF ScanDone
  <2> QED BY <1>2, <2>1, <2>2, LaterKeeps DEF ScanDone, ScanTypeOK
<1>3. CASE UpsertFound
  <2>1. scanFaults' \in 0..MaxScanFaults
    BY <1>3, ScanFaultFacts DEF UpsertFound, ScanTypeOK
  <2>2. Listed'
    BY <1>3 DEF UpsertFound, Listed
  <2>3. poolRows' \subseteq Block /\ scanPc' \in {"scan", "upsert", "select", "end", "dead"}
    BY <1>3 DEF UpsertFound, ScanTypeOK
  <2> QED BY <1>3, <2>1, <2>2, <2>3, LaterKeeps DEF UpsertFound, ScanTypeOK
<1>4. CASE SelectPools
  <2>1. scanFaults' \in 0..MaxScanFaults
    BY <1>4, ScanFaultFacts DEF SelectPools, ScanTypeOK
  <2>2. Listed'
    BY <1>4 DEF SelectPools, Listed
  <2>3. listed' \subseteq Block /\ scanPc' \in {"scan", "upsert", "select", "end", "dead"}
    BY <1>4 DEF SelectPools, ScanTypeOK
  <2> QED BY <1>4, <2>1, <2>2, <2>3, LaterKeeps DEF SelectPools, ScanTypeOK
<1>5. CASE UNCHANGED scanVars
  <2>1. Listed'
    BY <1>5 DEF scanVars, Listed
  <2> QED BY <1>5, <2>1, LaterKeeps DEF scanVars, ScanTypeOK
<1> QED BY <1>1, <1>2, <1>3, <1>4, <1>5 DEF ScanNext

\* In every reachable state of a discovery its workers, ranges and results are well typed
\* (backfill.ts concurrentScan).
THEOREM ScanTypeCorrect == ScanSpec => []ScanTypeOK
<1>1. ScanInv => ScanTypeOK
  BY DEF ScanInv
<1> QED BY <1>1, ScanInitInv, ScanStepInv, PTL DEF ScanSpec

\* A pool that should be scanned for swaps and is not was created in a range whose scan
\* failed, for every range, step and number of workers (backfill.ts buildRanges).
THEOREM OnlyMissedRanges == ScanSpec => []DiscoveryComplete
<1>1. ASSUME ScanInv PROVE DiscoveryComplete
  <2> SUFFICES ASSUME scanPc = "end" PROVE DiscoveryComplete
    BY DEF DiscoveryComplete
  <2> USE <1>1 DEF ScanInv
  <2>1. listed = dump \cup found /\ \A w \in Scanner : scanner[w].pc = "done"
    BY DEF Listed
  <2>2. cursor >= RangeCount /\ cursor \in Nat /\ RangeCount \in Nat
    BY <2>1, DiscoveryAssumption, RangeCountNat, ScannersFinite
    DEF Scanned, DiscoveryAssumption, ScanTypeOK
  <2>3. ASSUME NEW p \in wanted \ listed
        PROVE  \E i \in missed : p \in RangeOf(i)
    <3>1. p \in Block
      BY DEF ScanTypeOK
    <3>2. PICK i \in 0..(RangeCount - 1) : p \in RangeOf(i)
      BY <3>1, EveryBlockInRange
    <3>3. Covered(i)
      BY <2>2, <3>2 DEF Scanned
    <3> QED BY <2>1, <2>3, <3>2, <3>3 DEF Covered, Scanning
  <2> QED BY <2>1, <2>3 DEF DiscoveryComplete, Scanned
<1> QED BY <1>1, ScanInitInv, ScanStepInv, PTL DEF ScanSpec
-----------------------------------------------------------------------------
(***************************************************************************)
(* The tables: no staged row is lost but the exposed ones, and a rebuild   *)
(* washes out what the retries of a range added twice.                     *)
(***************************************************************************)

ShardState == [pc : {"flush", "count", "copy", "truncate", "pool", "token", "done", "dead"},
               skips : BOOLEAN, stages : BOOLEAN]
ScriptState == [pc : {"fetch", "flush", "pool", "token", "done", "dead"},
                from : Stamp, to : Stamp, attempt : 1..MaxRetry]
ToolState == [pc : {"idle", "token", "done"}, from : Stamp]

-----------------------------------------------------------------------------
(***************************************************************************)
(* Minutes                                                                 *)
(***************************************************************************)

LEMMA CountNat ==
    ASSUME NEW S, S \subseteq Stamp, NEW m
    PROVE  CountIn(m, S) \in Nat
<1>1. IsFiniteSet(Stamp)
  BY TablesAssumption, FS_Interval DEF TablesAssumption, Stamp
<1>2. IsFiniteSet({s \in S : MinuteOf(s) = m})
  BY <1>1, FS_Subset
<1> QED BY <1>2, FS_CardinalityType DEF CountIn

\* The unit of time s is in its minute, and the minutes of the table cover all of them.
LEMMA InMinute ==
    ASSUME NEW s \in Stamp
    PROVE  /\ MinuteOf(s) \in Minute /\ s \in Nat
           /\ MinuteOf(s) * PerMinute \in Nat
           /\ MinuteOf(s) * PerMinute <= s /\ s < MinuteOf(s) * PerMinute + PerMinute
<1> DEFINE m == s \div PerMinute
<1>1. s \in Nat /\ MaxStamp \in Nat /\ s <= MaxStamp /\ PerMinute \in Nat \ {0}
  BY TablesAssumption DEF TablesAssumption, Stamp
<1>2. s = m * PerMinute + (s % PerMinute) /\ s % PerMinute \in 0..(PerMinute - 1) /\ m \in Nat
  BY <1>1, Division
<1>3. m <= MaxStamp \div PerMinute /\ MaxStamp \div PerMinute \in Nat
  BY <1>1, DivisionOrder, Division
<1> HIDE DEF m
<1>4. m * PerMinute \in Nat
  BY <1>1, <1>2, Multiples
<1>5. m \in Minute
  BY <1>2, <1>3 DEF Minute, MinuteOf
<1> QED BY <1>1, <1>2, <1>4, <1>5 DEF MinuteOf, m

LEMMA MinuteNat == ASSUME NEW m \in Minute PROVE m \in Nat /\ m * PerMinute \in Nat
<1>1. m \in Nat
  BY DEF Minute
<1> QED BY <1>1, TablesAssumption, Multiples DEF TablesAssumption

\* What a rebuild does to the minutes of its table: one that begins at the start or later
\* is counted whole; one that begins before it stays, if the start is the beginning of a
\* minute.
LEMMA RebuildCounts ==
    ASSUME TablesTypeOK, NEW x \in Stats, NEW start \in Int, Rebuild(x, start)
    PROVE  /\ minutes' \in [Stats -> [Minute -> Nat]]
           /\ \A y \in Stats \ {x} : minutes'[y] = minutes[y]
           /\ \A m \in Minute : m * PerMinute >= start =>
                 minutes'[x][m] = CountIn(m, swapRows)
           /\ \A m \in Minute : start \in Nat /\ ~Cuts(start) /\ m * PerMinute < start =>
                 minutes'[x][m] = minutes[x][m]
<1> DEFINE counted == {s \in swapRows : s >= start}
           Later(m) == IF m * PerMinute >= start \/ CountIn(m, counted) > 0
                         THEN CountIn(m, counted) ELSE minutes[x][m]
<1>1. minutes \in [Stats -> [Minute -> Nat]] /\ swapRows \subseteq Stamp /\ counted \subseteq Stamp
  BY DEF TablesTypeOK
<1>2. minutes' = [minutes EXCEPT ![x] = [m \in Minute |-> Later(m)]]
  BY DEF Rebuild
<1>3. \A m \in Minute : CountIn(m, counted) \in Nat /\ minutes[x][m] \in Nat
  BY <1>1, CountNat
<1>4. \A m \in Minute : Later(m) \in Nat
  BY <1>3
<1>5. /\ minutes' \in [Stats -> [Minute -> Nat]]
      /\ \A y \in Stats \ {x} : minutes'[y] = minutes[y]
      /\ \A m \in Minute : minutes'[x][m] = Later(m)
  <2> HIDE DEF Later
  <2> QED BY <1>1, <1>2, <1>4
<1>6. ASSUME NEW m \in Minute, m * PerMinute >= start
      PROVE  minutes'[x][m] = CountIn(m, swapRows)
  <2>1. ASSUME NEW s \in swapRows, MinuteOf(s) = m PROVE s >= start
    BY <1>1, <1>6, <2>1, InMinute, MinuteNat
  <2>2. {s \in counted : MinuteOf(s) = m} = {s \in swapRows : MinuteOf(s) = m}
    BY <2>1
  <2>3. CountIn(m, counted) = CountIn(m, swapRows)
    BY <2>2 DEF CountIn
  <2>4. Later(m) = CountIn(m, counted)
    BY <1>6
  <2> QED BY <1>5, <2>3, <2>4
<1>7. ASSUME NEW m \in Minute, start \in Nat, ~Cuts(start), m * PerMinute < start
      PROVE  minutes'[x][m] = minutes[x][m]
  <2> DEFINE c == start \div PerMinute
  <2>1. PerMinute \in Nat \ {0} /\ m \in Nat /\ m * PerMinute \in Nat
    BY TablesAssumption, MinuteNat DEF TablesAssumption
  <2>2. start = c * PerMinute /\ c \in Nat /\ c * PerMinute \in Nat
    <3>1. start = c * PerMinute + (start % PerMinute) /\ c \in Nat
      BY <1>7, <2>1, Division
    <3>2. start % PerMinute = 0
      BY <1>7 DEF Cuts
    <3> HIDE DEF c
    <3> QED BY <2>1, <3>1, <3>2, Multiples
  <2> HIDE DEF c
  <2>3. c >= m + 1
    <3>1. ASSUME c <= m PROVE FALSE
      <4>1. c * PerMinute <= m * PerMinute
        BY <2>1, <2>2, <3>1, Products
      <4> QED BY <1>7, <2>1, <2>2, <4>1
    <3> QED BY <2>1, <2>2, <3>1
  <2>4. m * PerMinute + PerMinute <= start
    BY <2>1, <2>2, <2>3, NextMultiple
  <2>5. ASSUME NEW s \in counted, MinuteOf(s) = m PROVE FALSE
    BY <1>1, <1>7, <2>1, <2>4, <2>5, InMinute
  <2>6. {s \in counted : MinuteOf(s) = m} = {}
    BY <2>5
  <2>7. CountIn(m, counted) = 0
    BY <2>6, FS_EmptySet DEF CountIn
  <2>8. Later(m) = minutes[x][m]
    BY <1>7, <2>1, <2>7
  <2> QED BY <1>5, <2>8
<1> QED BY <1>5, <1>6, <1>7
-----------------------------------------------------------------------------
(***************************************************************************)
(* The inductive invariant                                                 *)
(***************************************************************************)

\* While a shard has still to truncate what it copied, what is staged is in swaps, but for
\* the exposed rows.
Copied ==
    (\E j \in Shard : ShardAt(j, "truncate")) => staging \ exposed \subseteq swapRows

\* The minutes of table x that the range of the script falls into count the rows.
Right(x) == \A s \in Buffer : minutes[x][MinuteOf(s)] = CountIn(MinuteOf(s), swapRows)

Washed ==
    /\ Rebuilding /\ ~disturbed => Right("pool")
    /\ script.pc = "done" /\ ~disturbed => Right("token")

TablesInv == TablesTypeOK /\ StagedIsKept /\ Copied /\ Washed

-----------------------------------------------------------------------------
LEMMA ShardMoves ==
    ASSUME TablesTypeOK, NEW k \in Shard, NEW pc, ShardGoes(k, pc),
           pc \in {"flush", "count", "copy", "truncate", "pool", "token", "done", "dead"}
    PROVE  /\ shard' \in [Shard -> ShardState]
           /\ \A j \in Shard \ {k} : shard'[j] = shard[j]
           /\ shard'[k].pc = pc
<1>1. shard \in [Shard -> ShardState]
  BY DEF TablesTypeOK, ShardState
<1>2. shard' = [shard EXCEPT ![k] = [shard[k] EXCEPT !.pc = pc]]
  BY DEF ShardGoes
<1>3. [shard[k] EXCEPT !.pc = pc] \in ShardState
  BY <1>1 DEF ShardState
<1>4. [shard[k] EXCEPT !.pc = pc].pc = pc
  BY <1>1 DEF ShardState
<1> QED BY <1>1, <1>2, <1>3, <1>4

LEMMA FaultType == ASSUME TablesTypeOK, TableFault PROVE tableFaults' \in 0..MaxTableFaults
  BY TablesAssumption DEF TablesTypeOK, TableFault, TablesAssumption

LEMMA DisturbType ==
    ASSUME TablesTypeOK, NEW yes \in BOOLEAN, Disturb(yes)
    PROVE  /\ disturbed' \in BOOLEAN
           /\ ~disturbed' => ~disturbed
           /\ yes /\ Rebuilding => disturbed'
  BY DEF TablesTypeOK, Disturb

\* The range of the script is one of stamps, and of those after its start.
LEMMA BufferStamps ==
    ASSUME TablesTypeOK
    PROVE  /\ script.from \in Nat /\ Buffer \subseteq Stamp
           /\ \A s \in Buffer : s >= script.from
<1>1. script.from \in Stamp /\ script.to \in Stamp
  BY DEF TablesTypeOK
<1>2. script.from \in 0..MaxStamp /\ script.to \in 0..MaxStamp /\ MaxStamp \in Nat
  BY <1>1, TablesAssumption DEF Stamp, TablesAssumption
<1> QED BY <1>2 DEF Buffer, Stamp

\* The minutes of the range stay right when neither they nor the rows change.
LEMMA WashedKept ==
    ASSUME Washed, UNCHANGED <<swapRows, minutes, script>>, ~disturbed' => ~disturbed
    PROVE  Washed'
  BY DEF Washed, Right, Buffer, Rebuilding

\* The invariant of the script says nothing while others write under its rebuild.
LEMMA WashedDisturbed ==
    ASSUME Rebuilding' => disturbed'
    PROVE  Washed'
  BY DEF Washed, Rebuilding

\* A rebuild by another that begins at the beginning of a minute.
LEMMA RebuildWashes ==
    ASSUME TablesTypeOK, NEW x \in Stats, NEW start \in Stamp, Rebuild(x, start),
           Disturb(Cuts(start)), Washed, UNCHANGED <<swapRows, script>>
    PROVE  Washed'
<1>1. ~disturbed' => ~disturbed /\ (Rebuilding => ~Cuts(start))
  BY DEF Disturb
<1>2. start \in Nat
  BY InMinute
<1>3. ASSUME Rebuilding, ~disturbed', NEW y \in Stats, Right(y) PROVE Right(y)'
  <2> SUFFICES ASSUME NEW s \in Buffer
               PROVE  minutes'[y][MinuteOf(s)] = CountIn(MinuteOf(s), swapRows)
    BY DEF Right, Buffer
  <2>1. minutes[y][MinuteOf(s)] = CountIn(MinuteOf(s), swapRows)
    BY <1>3 DEF Right
  <2>2. s \in Stamp
    BY BufferStamps
  <2>3. MinuteOf(s) \in Minute /\ MinuteOf(s) * PerMinute \in Nat
    BY <2>2, InMinute
  <2>4. CASE y = x
    <3>1. ~Cuts(start)
      BY <1>1, <1>3
    <3>2. MinuteOf(s) * PerMinute >= start \/ MinuteOf(s) * PerMinute < start
      BY <1>2, <2>3
    <3> QED BY <1>2, <2>1, <2>3, <2>4, <3>1, <3>2, RebuildCounts
  <2>5. CASE y # x
    <3>1. minutes'[y] = minutes[y]
      BY <1>2, <2>5, RebuildCounts
    <3> QED BY <2>1, <3>1
  <2> QED BY <2>4, <2>5
<1>4. "pool" \in Stats /\ "token" \in Stats
  BY DEF Stats
<1>5. script.pc = "done" => Rebuilding
  BY DEF Rebuilding
<1>6. Rebuilding' <=> Rebuilding
  BY DEF Rebuilding
<1> QED BY <1>1, <1>3, <1>4, <1>5, <1>6 DEF Washed

\* What is staged stays where it is found, when only rows are added.
LEMMA StagedKept ==
    ASSUME StagedIsKept, Copied, UNCHANGED <<staging, staged, exposed>>,
           swapRows \subseteq swapRows',
           \A j \in Shard : ShardAt(j, "truncate")' => ShardAt(j, "truncate")
    PROVE  StagedIsKept' /\ Copied'
  BY DEF StagedIsKept, Copied

-----------------------------------------------------------------------------
LEMMA TablesInitInv == TablesInit => TablesInv
<1> SUFFICES ASSUME TablesInit PROVE TablesInv
  OBVIOUS
<1>1. \A m \in Minute : CountIn(m, swapRows) \in Nat
  BY CountNat DEF TablesInit
<1>2. minutes \in [Stats -> [Minute -> Nat]]
  BY <1>1 DEF TablesInit
<1>3. 0 \in Stamp /\ 1 \in 1..MaxRetry
  BY TablesAssumption DEF TablesAssumption, Stamp
<1>4. shard \in [Shard -> ShardState]
  BY DEF TablesInit, ShardState
<1>5. script \in ScriptState
  BY <1>3 DEF TablesInit, ScriptState
<1>6. tool \in ToolState
  BY <1>3 DEF TablesInit, ToolState
<1>7. tableFaults \in 0..MaxTableFaults
  BY TablesAssumption DEF TablesInit, TablesAssumption
<1>8. TablesTypeOK
  BY <1>2, <1>4, <1>5, <1>6, <1>7 DEF TablesInit, TablesTypeOK, ShardState, ScriptState, ToolState
<1>9. StagedIsKept /\ Copied
  BY DEF TablesInit, StagedIsKept, Copied
<1>10. Washed
  BY DEF TablesInit, Washed, Rebuilding
<1> QED BY <1>8, <1>9, <1>10 DEF TablesInv
-----------------------------------------------------------------------------
(***************************************************************************)
(* The shards                                                              *)
(***************************************************************************)

LEMMA ShardFlushKeeps ==
    ASSUME TablesInv, NEW k \in Shard, NEW s \in Stamp, ShardFlush(k, s)
    PROVE  TablesInv'
<1> USE DEF TablesInv
<1>1. UNCHANGED <<minutes, since, shard, script, inFlight, tool>> /\ unfetched' \subseteq Stamp
  BY DEF ShardFlush, TablesTypeOK
<1>2. \A j \in Shard : ShardAt(j, "truncate")' <=> ShardAt(j, "truncate")
  BY <1>1 DEF ShardAt
<1>3. CASE /\ staging' = staging \cup {s} /\ staged' = staged \cup {s}
           /\ exposed' = IF \E j \in Shard : ShardAt(j, "truncate")
                           THEN exposed \cup {s} ELSE exposed
           /\ UNCHANGED <<swapRows, tableFaults, disturbed>>
  <2>1. TablesTypeOK'
    BY <1>1, <1>3 DEF TablesTypeOK
  <2>2. StagedIsKept' /\ Copied'
    BY <1>2, <1>3 DEF StagedIsKept, Copied
  <2>3. Washed'
    BY <1>1, <1>3, WashedKept
  <2> QED BY <2>1, <2>2, <2>3
<1>4. CASE /\ swapRows' = swapRows \cup {s} /\ Disturb(TRUE)
           /\ UNCHANGED <<staging, staged, exposed, tableFaults>>
  <2>1. TablesTypeOK'
    BY <1>1, <1>4, DisturbType DEF TablesTypeOK
  <2>2. StagedIsKept' /\ Copied'
    BY <1>2, <1>4, StagedKept
  <2>3. Rebuilding' => disturbed'
    BY <1>1, <1>4, DisturbType DEF Rebuilding
  <2> QED BY <2>1, <2>2, <2>3, WashedDisturbed
<1>5. CASE TableFault /\ UNCHANGED <<swapRows, staging, staged, exposed, disturbed>>
  <2>1. TablesTypeOK'
    BY <1>1, <1>5, FaultType DEF TablesTypeOK
  <2>2. StagedIsKept' /\ Copied'
    BY <1>2, <1>5, StagedKept
  <2>3. Washed'
    BY <1>1, <1>5, WashedKept
  <2> QED BY <2>1, <2>2, <2>3
<1> QED BY <1>3, <1>4, <1>5 DEF ShardFlush

\* A shard that goes on without touching a table.
LEMMA ShardGoesKeeps ==
    ASSUME TablesInv, NEW k \in Shard, NEW pc \in {"count", "copy", "pool", "dead", "done"},
           ShardGoes(k, pc), tableFaults' \in 0..MaxTableFaults,
           UNCHANGED <<swapRows, staging, minutes, unfetched, since, script, inFlight, tool,
                       staged, exposed, disturbed>>
    PROVE  TablesInv'
<1> USE DEF TablesInv
<1>1. /\ shard' \in [Shard -> ShardState]
      /\ \A j \in Shard \ {k} : shard'[j] = shard[j]
      /\ shard'[k].pc = pc
  BY ShardMoves
<1>2. \A j \in Shard : ShardAt(j, "truncate")' => ShardAt(j, "truncate")
  BY <1>1 DEF ShardAt
<1>3. TablesTypeOK'
  BY <1>1 DEF TablesTypeOK, ShardState
<1>4. StagedIsKept' /\ Copied'
  BY <1>2, StagedKept
<1> QED BY <1>3, <1>4, WashedKept

LEMMA ShardQueueEndsKeeps ==
    ASSUME TablesInv, NEW k \in Shard, ShardQueueEnds(k) PROVE TablesInv'
<1>1. tableFaults' \in 0..MaxTableFaults
  BY DEF TablesInv, TablesTypeOK, ShardQueueEnds
<1>2. PICK pc \in {"count", "pool"} : ShardGoes(k, pc)
  BY DEF ShardQueueEnds
<1> QED BY <1>1, <1>2, ShardGoesKeeps DEF ShardQueueEnds

LEMMA MigrateCountKeeps ==
    ASSUME TablesInv, NEW k \in Shard, MigrateCount(k) PROVE TablesInv'
<1>1. tableFaults' \in 0..MaxTableFaults
  BY DEF TablesInv, TablesTypeOK, MigrateCount
<1>2. PICK pc \in {"pool", "copy"} : ShardGoes(k, pc)
  BY DEF MigrateCount
<1> QED BY <1>1, <1>2, ShardGoesKeeps DEF MigrateCount

LEMMA MigrateCopyKeeps ==
    ASSUME TablesInv, NEW k \in Shard, MigrateCopy(k) PROVE TablesInv'
<1> USE DEF TablesInv
<1>1. UNCHANGED <<staging, minutes, unfetched, since, script, inFlight, tool, staged, exposed>>
  BY DEF MigrateCopy
<1>2. CASE /\ swapRows' = swapRows \cup staging /\ Disturb(TRUE)
           /\ ShardGoes(k, "truncate") /\ UNCHANGED tableFaults
  <2>1. shard' \in [Shard -> ShardState]
    BY <1>2, ShardMoves
  <2>2. TablesTypeOK'
    BY <1>1, <1>2, <2>1, DisturbType DEF TablesTypeOK, ShardState
  <2>3. StagedIsKept' /\ Copied'
    BY <1>1, <1>2 DEF StagedIsKept, Copied
  <2>4. Rebuilding' => disturbed'
    BY <1>1, <1>2, DisturbType DEF Rebuilding
  <2> QED BY <2>2, <2>3, <2>4, WashedDisturbed
<1>3. CASE TableFault /\ ShardGoes(k, "dead") /\ UNCHANGED <<swapRows, disturbed>>
  BY <1>1, <1>3, FaultType, ShardGoesKeeps
<1> QED BY <1>2, <1>3 DEF MigrateCopy

LEMMA MigrateTruncateKeeps ==
    ASSUME TablesInv, NEW k \in Shard, MigrateTruncate(k) PROVE TablesInv'
<1> USE DEF TablesInv
<1>1. /\ ShardAt(k, "truncate")
      /\ UNCHANGED <<swapRows, minutes, unfetched, since, script, inFlight, tool, staged,
                     exposed, disturbed>>
  BY DEF MigrateTruncate
<1>2. CASE staging' = {} /\ ShardGoes(k, "pool") /\ UNCHANGED tableFaults
  <2>1. shard' \in [Shard -> ShardState]
    BY <1>2, ShardMoves
  <2>2. TablesTypeOK'
    BY <1>1, <1>2, <2>1 DEF TablesTypeOK, ShardState
  <2>3. StagedIsKept' /\ Copied'
    BY <1>1, <1>2 DEF StagedIsKept, Copied
  <2>4. Washed'
    BY <1>1, WashedKept
  <2> QED BY <2>2, <2>3, <2>4
<1>3. CASE TableFault /\ ShardGoes(k, "dead") /\ UNCHANGED staging
  BY <1>1, <1>3, FaultType, ShardGoesKeeps
<1> QED BY <1>2, <1>3 DEF MigrateTruncate

\* A rebuild of another program than the script.
LEMMA OtherRebuildKeeps ==
    ASSUME TablesInv, NEW x \in Stats, NEW start \in Stamp, Rebuild(x, start),
           Disturb(Cuts(start)), shard' \in [Shard -> ShardState], tool' \in ToolState,
           \A j \in Shard : ShardAt(j, "truncate")' => ShardAt(j, "truncate"),
           UNCHANGED <<swapRows, staging, unfetched, since, script, inFlight, tableFaults,
                       staged, exposed>>
    PROVE  TablesInv'
<1> USE DEF TablesInv
<1>1. minutes' \in [Stats -> [Minute -> Nat]]
  <2>1. start \in Int
    BY InMinute
  <2> QED BY <2>1, RebuildCounts
<1>2. disturbed' \in BOOLEAN
  BY DisturbType DEF Cuts
<1>3. TablesTypeOK'
  BY <1>1, <1>2 DEF TablesTypeOK, ShardState, ToolState
<1>4. StagedIsKept' /\ Copied'
  BY StagedKept
<1>5. Washed'
  BY RebuildWashes
<1> QED BY <1>3, <1>4, <1>5

LEMMA ShardRebuildKeeps ==
    ASSUME TablesInv, NEW k \in Shard, ShardRebuild(k) PROVE TablesInv'
<1>1. UNCHANGED <<swapRows, staging, unfetched, since, script, inFlight, tool, staged, exposed>>
  BY DEF ShardRebuild
<1>2. TablesTypeOK /\ since \in Stamp /\ tool' \in ToolState /\ tableFaults \in 0..MaxTableFaults
  BY <1>1 DEF TablesInv, TablesTypeOK, ToolState
<1>3. ASSUME NEW x \in Stats, Rebuild(x, since), Disturb(Cuts(since)), UNCHANGED tableFaults,
             NEW pc \in {"token", "done"}, ShardGoes(k, pc)
      PROVE  TablesInv'
  <2>1. /\ shard' \in [Shard -> ShardState]
        /\ \A j \in Shard \ {k} : shard'[j] = shard[j]
        /\ shard'[k].pc = pc
    BY <1>2, <1>3, ShardMoves
  <2>2. \A j \in Shard : ShardAt(j, "truncate")' => ShardAt(j, "truncate")
    BY <2>1 DEF ShardAt
  <2> QED BY <1>1, <1>2, <1>3, <2>1, <2>2, OtherRebuildKeeps
<1>4. CASE \/ /\ ShardAt(k, "pool") /\ Rebuild("pool", since)
              /\ ShardGoes(k, "token") /\ Disturb(Cuts(since)) /\ UNCHANGED tableFaults
           \/ /\ ShardAt(k, "token") /\ Rebuild("token", since)
              /\ ShardGoes(k, "done") /\ Disturb(Cuts(since)) /\ UNCHANGED tableFaults
  BY <1>3, <1>4 DEF Stats
<1>5. CASE \/ TableFault /\ ShardGoes(k, "dead") /\ UNCHANGED <<minutes, disturbed>>
           \/ ShardGoes(k, "done") /\ UNCHANGED <<minutes, disturbed, tableFaults>>
  <2>1. tableFaults' \in 0..MaxTableFaults
    BY <1>2, <1>5, FaultType
  <2> QED BY <1>1, <1>5, <2>1, ShardGoesKeeps
<1> QED BY <1>4, <1>5 DEF ShardRebuild
-----------------------------------------------------------------------------
(***************************************************************************)
(* The script of a range, and the tool                                     *)
(***************************************************************************)

\* A step of the script that writes no row and does not end a rebuild.
LEMMA ScriptGoesKeeps ==
    ASSUME TablesInv, script' \in ScriptState, ~Rebuilding',
           inFlight' \subseteq (1..MaxRetry) \X (Stats \cup {"swaps"}),
           tableFaults' \in 0..MaxTableFaults,
           UNCHANGED <<swapRows, staging, minutes, unfetched, since, shard, tool, staged, exposed,
                       disturbed>>
    PROVE  TablesInv'
<1> USE DEF TablesInv
<1>1. TablesTypeOK'
  BY DEF TablesTypeOK, ScriptState
<1>2. StagedIsKept' /\ Copied'
  BY StagedKept DEF ShardAt
<1> QED BY <1>1, <1>2, WashedDisturbed

LEMMA AttemptType ==
    ASSUME NEW i \in 1..MaxRetry
    PROVE  Attempt(i) \subseteq (1..MaxRetry) \X (Stats \cup {"swaps"})
  BY DEF Attempt

LEMMA ProcessRangeKeeps ==
    ASSUME TablesInv, ProcessRange PROVE TablesInv'
<1>1. /\ script \in ScriptState /\ tableFaults \in 0..MaxTableFaults
      /\ inFlight \subseteq (1..MaxRetry) \X (Stats \cup {"swaps"})
  BY DEF TablesInv, TablesTypeOK, ScriptState
<1>2. 1 \in 1..MaxRetry
  BY TablesAssumption DEF TablesAssumption
<1>3. CASE /\ script' = [script EXCEPT !.pc = "flush"]
           /\ inFlight' = Attempt(1) /\ UNCHANGED tableFaults
  <2>1. script' \in ScriptState /\ ~Rebuilding'
    BY <1>1, <1>3 DEF ScriptState, Rebuilding
  <2> QED BY <1>1, <1>2, <1>3, <2>1, AttemptType, ScriptGoesKeeps DEF ProcessRange
<1>4. CASE /\ TableFault
           /\ script' = [script EXCEPT !.pc = "pool"] /\ UNCHANGED inFlight
  <2>1. script' \in ScriptState /\ ~Rebuilding'
    BY <1>1, <1>4 DEF ScriptState, Rebuilding
  <2>2. tableFaults' \in 0..MaxTableFaults
    BY <1>4, FaultType DEF TablesInv
  <2> QED BY <1>1, <1>4, <2>1, <2>2, ScriptGoesKeeps DEF ProcessRange
<1> QED BY <1>3, <1>4 DEF ProcessRange

LEMMA FlushReturnsKeeps ==
    ASSUME TablesInv, FlushReturns PROVE TablesInv'
<1>1. /\ script \in ScriptState /\ tableFaults \in 0..MaxTableFaults
      /\ inFlight \subseteq (1..MaxRetry) \X (Stats \cup {"swaps"})
  BY DEF TablesInv, TablesTypeOK, ScriptState
<1>2. script' = [script EXCEPT !.pc = "pool"]
  BY DEF FlushReturns
<1>3. script' \in ScriptState /\ ~Rebuilding'
  BY <1>1, <1>2 DEF ScriptState, Rebuilding
<1> QED BY <1>1, <1>3, ScriptGoesKeeps DEF FlushReturns

LEMMA FlushFailsKeeps ==
    ASSUME TablesInv, NEW i \in 1..MaxRetry, NEW x \in Stats \cup {"swaps"}, FlushFails(i, x)
    PROVE  TablesInv'
<1> DEFINE rest == inFlight \ {<<i, x>>}
<1>1. /\ script \in ScriptState /\ tableFaults' \in 0..MaxTableFaults
      /\ rest \subseteq (1..MaxRetry) \X (Stats \cup {"swaps"})
  BY FaultType DEF FlushFails, TablesInv, TablesTypeOK, ScriptState
<1>2. UNCHANGED <<swapRows, staging, minutes, unfetched, since, shard, tool, staged, exposed,
                  disturbed>>
  BY DEF FlushFails
<1>3. CASE /\ script.pc = "flush" /\ i < MaxRetry
           /\ script' = [script EXCEPT !.attempt = i + 1]
           /\ inFlight' = rest \cup Attempt(i + 1)
  <2>1. i + 1 \in 1..MaxRetry
    BY <1>3, TablesAssumption DEF TablesAssumption
  <2>2. script' \in ScriptState /\ script'.pc = "flush"
    BY <1>1, <1>3, <2>1 DEF ScriptState
  <2>3. ~Rebuilding'
    BY <2>2 DEF Rebuilding
  <2> QED BY <1>1, <1>2, <1>3, <2>1, <2>2, <2>3, AttemptType, ScriptGoesKeeps
<1>4. CASE script' = [script EXCEPT !.pc = "pool"] /\ inFlight' = rest
  <2>1. script' \in ScriptState /\ ~Rebuilding'
    BY <1>1, <1>4 DEF ScriptState, Rebuilding
  <2> QED BY <1>1, <1>2, <1>4, <2>1, ScriptGoesKeeps
<1>5. CASE inFlight' = rest /\ UNCHANGED script
  <2>1. TablesTypeOK'
    BY <1>1, <1>2, <1>5 DEF TablesInv, TablesTypeOK
  <2>2. StagedIsKept' /\ Copied'
    BY <1>2, StagedKept DEF TablesInv, ShardAt
  <2>3. Washed'
    BY <1>2, <1>5, WashedKept DEF TablesInv
  <2> QED BY <2>1, <2>2, <2>3 DEF TablesInv
<1> QED BY <1>3, <1>4, <1>5 DEF FlushFails

\* A statement lands: before the script rebuilds, or as a disturbance.
LEMMA LandsKeeps ==
    ASSUME TablesInv, NEW i \in 1..MaxRetry, NEW x \in Stats \cup {"swaps"}, Lands(i, x)
    PROVE  TablesInv'
<1> USE DEF TablesInv
<1>1. /\ Disturb(TRUE) /\ inFlight' \subseteq inFlight
      /\ UNCHANGED <<staging, unfetched, since, shard, script, tool, tableFaults, staged, exposed>>
  BY DEF Lands
<1>2. swapRows' \subseteq Stamp /\ swapRows \subseteq swapRows'
  BY BufferStamps DEF Lands, TablesTypeOK
<1>3. minutes' \in [Stats -> [Minute -> Nat]]
  <2>1. minutes \in [Stats -> [Minute -> Nat]]
    BY DEF TablesTypeOK
  <2>2. CASE x = "swaps"
    BY <2>1, <2>2 DEF Lands
  <2>3. CASE x # "swaps"
    <3> DEFINE More(m) == minutes[x][m] + CountIn(m, Buffer)
    <3>1. x \in Stats /\ minutes' = [minutes EXCEPT ![x] = [m \in Minute |-> More(m)]]
      BY <2>3 DEF Lands
    <3>2. \A m \in Minute : More(m) \in Nat
      BY <2>1, <3>1, BufferStamps, CountNat
    <3> HIDE DEF More
    <3> QED BY <2>1, <3>1, <3>2
  <2> QED BY <2>2, <2>3
<1>4. disturbed' \in BOOLEAN /\ (Rebuilding' => disturbed')
  BY <1>1, DisturbType DEF Rebuilding
<1>5. TablesTypeOK'
  BY <1>1, <1>2, <1>3, <1>4 DEF TablesTypeOK
<1>6. StagedIsKept' /\ Copied'
  BY <1>1, <1>2, StagedKept DEF ShardAt
<1> QED BY <1>4, <1>5, <1>6, WashedDisturbed

\* The rebuild of the script begins a minute before its range, so that every minute of the
\* range begins after the start.
LEMMA ScriptRebuildRight ==
    ASSUME TablesTypeOK, NEW x \in Stats, Rebuild(x, ScriptStart), UNCHANGED swapRows
    PROVE  /\ minutes' \in [Stats -> [Minute -> Nat]]
           /\ \A s \in Buffer : minutes'[x][MinuteOf(s)] = CountIn(MinuteOf(s), swapRows)
           /\ \A y \in Stats \ {x} : minutes'[y] = minutes[y]
<1>1. script.from \in Nat /\ PerMinute \in Nat /\ ScriptStart = script.from - PerMinute
  BY BufferStamps, TablesAssumption DEF ScriptStart, TablesAssumption
<1>2. ScriptStart \in Int
  BY <1>1
<1>3. ASSUME NEW s \in Buffer PROVE MinuteOf(s) \in Minute /\ MinuteOf(s) * PerMinute >= ScriptStart
  <2>1. s \in Stamp /\ s >= script.from
    BY BufferStamps
  <2>2. /\ MinuteOf(s) \in Minute /\ s \in Nat /\ MinuteOf(s) * PerMinute \in Nat
        /\ s < MinuteOf(s) * PerMinute + PerMinute
    BY <2>1, InMinute
  <2> QED BY <1>1, <2>1, <2>2
<1> HIDE DEF ScriptStart
<1> QED BY <1>2, <1>3, RebuildCounts

LEMMA ScriptRebuildKeeps ==
    ASSUME TablesInv, ScriptRebuild PROVE TablesInv'
<1> USE DEF TablesInv
<1>1. UNCHANGED <<swapRows, staging, unfetched, since, shard, inFlight, tool, staged, exposed,
                  disturbed>>
  BY DEF ScriptRebuild
<1>2. /\ script \in ScriptState /\ tableFaults \in 0..MaxTableFaults
      /\ "pool" \in Stats /\ "token" \in Stats
  BY DEF TablesTypeOK, ScriptState, Stats
<1>3. StagedIsKept' /\ Copied'
  BY <1>1, StagedKept DEF ShardAt
<1>4. CASE /\ script.pc = "pool" /\ Rebuild("pool", ScriptStart)
           /\ script' = [script EXCEPT !.pc = "token"] /\ UNCHANGED tableFaults
  <2>1. /\ script' \in ScriptState /\ script'.pc = "token"
        /\ script'.from = script.from /\ script'.to = script.to
    BY <1>2, <1>4 DEF ScriptState
  <2>2. /\ minutes' \in [Stats -> [Minute -> Nat]]
        /\ \A s \in Buffer : minutes'["pool"][MinuteOf(s)] = CountIn(MinuteOf(s), swapRows)
    BY <1>1, <1>2, <1>4, ScriptRebuildRight
  <2>3. TablesTypeOK'
    BY <1>1, <1>2, <1>4, <2>1, <2>2 DEF TablesTypeOK, ScriptState
  <2>4. Washed'
    BY <1>1, <2>1, <2>2 DEF Washed, Right, Buffer
  <2> QED BY <1>3, <2>3, <2>4
<1>5. CASE /\ script.pc = "token" /\ Rebuild("token", ScriptStart)
           /\ script' = [script EXCEPT !.pc = "done"] /\ UNCHANGED tableFaults
  <2>1. /\ script' \in ScriptState /\ script'.pc = "done"
        /\ script'.from = script.from /\ script'.to = script.to
    BY <1>2, <1>5 DEF ScriptState
  <2>2. /\ minutes' \in [Stats -> [Minute -> Nat]] /\ minutes'["pool"] = minutes["pool"]
        /\ \A s \in Buffer : minutes'["token"][MinuteOf(s)] = CountIn(MinuteOf(s), swapRows)
    BY <1>1, <1>2, <1>5, ScriptRebuildRight
  <2>3. TablesTypeOK'
    BY <1>1, <1>2, <1>5, <2>1, <2>2 DEF TablesTypeOK, ScriptState
  <2>4. ~disturbed => Right("pool")
    BY <1>5 DEF Washed, Rebuilding
  <2>5. Washed'
    BY <1>1, <2>1, <2>2, <2>4 DEF Washed, Right, Buffer
  <2> QED BY <1>3, <2>3, <2>5
<1>6. CASE TableFault /\ script' = [script EXCEPT !.pc = "dead"] /\ UNCHANGED minutes
  <2>1. script' \in ScriptState /\ ~Rebuilding'
    BY <1>2, <1>6 DEF ScriptState, Rebuilding
  <2>2. tableFaults' \in 0..MaxTableFaults
    BY <1>6, FaultType
  <2>3. TablesTypeOK'
    BY <1>1, <1>6, <2>1, <2>2 DEF TablesTypeOK, ScriptState
  <2> QED BY <1>3, <2>1, <2>3, WashedDisturbed
<1> QED BY <1>4, <1>5, <1>6 DEF ScriptRebuild

LEMMA RebuildBucketsKeeps ==
    ASSUME TablesInv, RebuildBuckets PROVE TablesInv'
<1>1. /\ shard \in [Shard -> ShardState] /\ tool \in ToolState
      /\ "pool" \in Stats /\ "token" \in Stats
  BY DEF TablesInv, TablesTypeOK, ShardState, ToolState, Stats
<1>2. UNCHANGED <<swapRows, staging, unfetched, since, shard, script, inFlight, tableFaults,
                  staged, exposed>>
  BY DEF RebuildBuckets
<1>3. \A j \in Shard : ShardAt(j, "truncate")' => ShardAt(j, "truncate")
  BY <1>2 DEF ShardAt
<1>4. ASSUME NEW start \in Stamp, tool' = [pc |-> "token", from |-> start],
             Rebuild("pool", start), Disturb(Cuts(start))
      PROVE  TablesInv'
  <2>1. tool' \in ToolState
    BY <1>4 DEF ToolState
  <2> QED BY <1>1, <1>2, <1>3, <1>4, <2>1, OtherRebuildKeeps
<1>5. ASSUME tool' = [tool EXCEPT !.pc = "done"], Rebuild("token", tool.from),
             Disturb(Cuts(tool.from))
      PROVE  TablesInv'
  <2>1. tool' \in ToolState /\ tool.from \in Stamp
    BY <1>1, <1>5 DEF ToolState
  <2> QED BY <1>1, <1>2, <1>3, <1>5, <2>1, OtherRebuildKeeps
<1> QED BY <1>4, <1>5 DEF RebuildBuckets

-----------------------------------------------------------------------------
LEMMA TablesStepInv == TablesInv /\ [TablesNext]_tableVars => TablesInv'
<1> SUFFICES ASSUME TablesInv, [TablesNext]_tableVars PROVE TablesInv'
  OBVIOUS
<1>1. CASE \E k \in Shard : \E s \in Stamp : ShardFlush(k, s)
  BY <1>1, ShardFlushKeeps
<1>2. CASE \E k \in Shard : ShardQueueEnds(k)
  BY <1>2, ShardQueueEndsKeeps
<1>3. CASE \E k \in Shard : MigrateCount(k)
  BY <1>3, MigrateCountKeeps
<1>4. CASE \E k \in Shard : MigrateCopy(k)
  BY <1>4, MigrateCopyKeeps
<1>5. CASE \E k \in Shard : MigrateTruncate(k)
  BY <1>5, MigrateTruncateKeeps
<1>6. CASE \E k \in Shard : ShardRebuild(k)
  BY <1>6, ShardRebuildKeeps
<1>7. CASE ProcessRange
  BY <1>7, ProcessRangeKeeps
<1>8. CASE FlushReturns
  BY <1>8, FlushReturnsKeeps
<1>9. CASE ScriptRebuild
  BY <1>9, ScriptRebuildKeeps
<1>10. CASE RebuildBuckets
  BY <1>10, RebuildBucketsKeeps
<1>11. CASE \E i \in 1..MaxRetry, x \in Stats \cup {"swaps"} : Lands(i, x)
  BY <1>11, LandsKeeps
<1>12. CASE \E i \in 1..MaxRetry, x \in Stats \cup {"swaps"} : FlushFails(i, x)
  BY <1>12, FlushFailsKeeps
<1>13. CASE UNCHANGED tableVars
  BY <1>13 DEF tableVars, TablesInv, TablesTypeOK, StagedIsKept, Copied, ShardAt, Washed, Right,
               Buffer, Rebuilding
<1> QED BY <1>1, <1>2, <1>3, <1>4, <1>5, <1>6, <1>7, <1>8, <1>9, <1>10, <1>11, <1>12, <1>13
        DEF TablesNext

\* The tables keep their types, whatever shards, script and tool run beside each other: no
\* count of a minute goes below zero, and every statement that is under way belongs to one
\* of MAX_RETRY attempts (backfill-range.ts:159).
THEOREM TablesTypeCorrect == TablesSpec => []TablesTypeOK
<1>1. TablesInv => TablesTypeOK
  BY DEF TablesInv
<1> QED BY <1>1, TablesInitInv, TablesStepInv, PTL DEF TablesSpec

\* Whatever fails, and however many shards stage, copy and truncate at a time, a row that
\* reached the staging table is there or in swaps, but for one that was staged between the
\* copy and the truncate of another shard (queries.ts migrateStagingToSwaps).
THEOREM RowsOutliveStaging == TablesSpec => []StagedIsKept
<1>1. TablesInv => StagedIsKept
  BY DEF TablesInv
<1> QED BY <1>1, TablesInitInv, TablesStepInv, PTL DEF TablesSpec

\* When the script is done, the minutes of its range count the rows, however often it sent
\* its additions, for any minute and any range, unless others wrote under its rebuild
\* (backfill-range.ts:159, main).
THEOREM RebuildWashesOut == TablesSpec => []RetriesWashOut
<1>1. TablesInv => RetriesWashOut
  BY DEF TablesInv, Washed, Right, Rebuilding, RetriesWashOut, Stats
<1> QED BY <1>1, TablesInitInv, TablesStepInv, PTL DEF TablesSpec
=============================================================================
