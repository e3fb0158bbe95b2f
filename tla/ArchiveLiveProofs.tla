------------------------- MODULE ArchiveLiveProofs --------------------------
(***************************************************************************)
(* The tasks of the archived live process, for every value of the          *)
(* constants: the detector (module AnomalyTick), the subscriptions and the *)
(* probe (ListenerProbe), and the swap logs with the watchlist (LiveSwap); *)
(* at the end, the parts that one run checks together (MCArchive).         *)
(***************************************************************************)
EXTENDS MCArchive, ListenerProbe, CacheProofs, ArchiveBackfillProofs

-----------------------------------------------------------------------------
(***************************************************************************)
(* The detector: the flag admits one tick, and the alerts of a token and   *)
(* rule keep their distance although a tick reads them, takes the time and *)
(* inserts in three steps.                                                 *)
(***************************************************************************)

AlertRow == [token : Active, rule : {VolSpike, Combo}, at : 0..MaxTime]
TickState == [on : BOOLEAN, left : SUBSET Active]
EvalState == [pc : {"none", "stats", "tvl", "check", "insert"},
              rule : {VolSpike, Combo}, at : 0..MaxTime]

\* One tick at a time, and no evaluation without its tick.
OneTick ==
    /\ \A k \in TickSlot : tick[k].on => busy
    /\ \A j, k \in TickSlot : tick[j].on /\ tick[k].on => j = k
    /\ \A k \in TickSlot : ~tick[k].on =>
         tick[k].left = {} /\ \A t \in Active : At(k, t, "none")

\* What an evaluation is about to insert keeps its distance from all that is there.
Spaced ==
    /\ \A i \in 1..Len(events) : events[i].at <= time
    /\ \A k \in TickSlot, t \in Active : At(k, t, "insert") =>
         /\ eval[k][t].at <= time
         /\ \A i \in 1..Len(events) :
              events[i].token = t /\ events[i].rule = eval[k][t].rule
                => eval[k][t].at - events[i].at > AlertCooldown

TickInv ==
    /\ TickTypeOK /\ events \in Seq(AlertRow)
    /\ OneTick /\ Spaced /\ AlertSpacing

Constants == MaxTime \in Nat /\ AlertCooldown \in Nat

LEMMA ConstantsNat == Constants
  BY TickAssumption DEF TickAssumption, Constants

-----------------------------------------------------------------------------
LEMMA TickInitInv == TickInit => TickInv
<1> SUFFICES ASSUME TickInit PROVE TickInv
  OBVIOUS
<1>1. NoEval \in EvalState /\ Off \in TickState /\ 0 \in 0..MaxTime
  BY ConstantsNat DEF Constants, NoEval, EvalState, Off, TickState
<1>2. tick \in [TickSlot -> TickState] /\ eval \in [TickSlot -> [Active -> EvalState]]
  BY <1>1 DEF TickInit
<1>3. events \in Seq(AlertRow) /\ DOMAIN events = {}
  BY DEF TickInit
<1>9. TickTypeOK
  BY <1>1, <1>2, <1>3 DEF TickInit, TickTypeOK, EvalState, TickState
<1>4. OneTick
  BY DEF TickInit, OneTick, At, Off, NoEval
<1>5. Spaced /\ AlertSpacing
  BY DEF TickInit, Spaced, AlertSpacing, At, NoEval
<1> QED BY <1>3, <1>9, <1>4, <1>5 DEF TickInv

LEMMA RowsTyped ==
    ASSUME TickInv
    PROVE  /\ Len(events) \in Nat /\ DOMAIN events = 1..Len(events)
           /\ \A i \in 1..Len(events) : events[i] \in AlertRow /\ events[i].at \in Int
<1>1. events \in Seq(AlertRow)
  BY DEF TickInv
<1>2. \A a \in AlertRow : a.at \in Int
  BY DEF AlertRow
<1> HIDE DEF AlertRow
<1> QED BY <1>1, <1>2

\* The rows are kept, the clock does not go back, and nothing new is about to be inserted.
LEMMA QuietKeepsSpacing ==
    ASSUME TickInv, UNCHANGED events, time' \in Int, time <= time', time \in Int,
           \A k \in TickSlot, t \in Active :
               At(k, t, "insert")' => At(k, t, "insert") /\ eval'[k][t] = eval[k][t]
    PROVE  Spaced' /\ AlertSpacing'
<1>1. /\ \A i \in 1..Len(events) : events[i].at \in Int
      /\ \A k \in TickSlot, t \in Active : eval[k][t].at \in Int
  BY DEF TickInv, AlertRow, TickTypeOK
<1>2. Spaced'
  BY <1>1 DEF TickInv, Spaced
<1>3. AlertSpacing'
  BY DEF TickInv, AlertSpacing
<1> QED BY <1>2, <1>3

\* An evaluation of a tick that runs moves on, or is left, before its insert.
LEMMA MoveFacts ==
    ASSUME TickInv, NEW k \in TickSlot, NEW t \in Active, NEW e \in EvalState, Move(k, t, e)
    PROVE  /\ eval' \in [TickSlot -> [Active -> EvalState]]
           /\ eval'[k][t] = e
           /\ \A j \in TickSlot, u \in Active : j # k \/ u # t => eval'[j][u] = eval[j][u]
  BY DEF TickInv, TickTypeOK, Move, EvalState

LEMMA MoveKeeps ==
    ASSUME TickInv, NEW k \in TickSlot, NEW t \in Active, NEW e \in EvalState, Move(k, t, e),
           ~At(k, t, "none"), e.pc # "insert", UNCHANGED <<time, busy, tick, events, armed>>
    PROVE  TickInv'
<1>1. /\ eval' \in [TickSlot -> [Active -> EvalState]]
      /\ eval'[k][t] = e
      /\ \A j \in TickSlot, u \in Active : j # k \/ u # t => eval'[j][u] = eval[j][u]
  BY MoveFacts
<1>2. TickTypeOK' /\ events' \in Seq(AlertRow)
  BY <1>1 DEF TickInv, TickTypeOK, EvalState
<1>3. OneTick'
  BY <1>1 DEF TickInv, OneTick, At
<1>4. time \in Int
  BY DEF TickInv, TickTypeOK
<1>5. Spaced' /\ AlertSpacing'
  BY <1>1, <1>4, QuietKeepsSpacing DEF At
<1> QED BY <1>2, <1>3, <1>5 DEF TickInv

LEMMA NoEvalTyped == NoEval \in EvalState /\ NoEval.pc = "none"
  BY ConstantsNat DEF Constants, NoEval, EvalState

LEMMA EvaluateKeeps ==
    ASSUME TickInv, NEW k \in TickSlot, NEW t \in Active, EvaluateActiveToken(k, t)
    PROVE  TickInv'
<1>1. [NoEval EXCEPT !.pc = "tvl"] \in EvalState /\ [NoEval EXCEPT !.pc = "tvl"].pc = "tvl"
  BY NoEvalTyped DEF EvalState
<1>2. ~At(k, t, "none")
  BY DEF EvaluateActiveToken, At
<1> QED BY <1>1, <1>2, NoEvalTyped, MoveKeeps DEF EvaluateActiveToken, Leave

LEMMA GetTokenTVLKeeps ==
    ASSUME TickInv, NEW k \in TickSlot, NEW t \in Active, GetTokenTVL(k, t)
    PROVE  TickInv'
<1>1. \A r \in {VolSpike, Combo} : [pc |-> "check", rule |-> r, at |-> 0] \in EvalState
  BY ConstantsNat DEF Constants, EvalState
<1>2. ~At(k, t, "none")
  BY DEF GetTokenTVL, At
<1> QED BY <1>1, <1>2, NoEvalTyped, MoveKeeps DEF GetTokenTVL, Leave

\* The step that reads the alerts and takes the time.
LEMMA FireTriggerKeeps ==
    ASSUME TickInv, NEW k \in TickSlot, NEW t \in Active, FireTrigger(k, t)
    PROVE  TickInv'
<1>1. CASE Leave(k, t)
  <2>1. ~At(k, t, "none")
    BY DEF FireTrigger, At
  <2> QED BY <1>1, <2>1, NoEvalTyped, MoveKeeps DEF FireTrigger, Leave
<1>2. CASE /\ ~IsRecentlyAlerted(t, eval[k][t].rule)
           /\ Move(k, t, [eval[k][t] EXCEPT !.pc = "insert", !.at = time])
  <2> DEFINE e == [eval[k][t] EXCEPT !.pc = "insert", !.at = time]
  <2>0. time \in 0..MaxTime /\ eval[k][t] \in EvalState /\ time \in Int /\ AlertCooldown \in Int
    BY ConstantsNat DEF TickInv, TickTypeOK, EvalState, Constants
  <2>1. e \in EvalState /\ e.pc = "insert" /\ e.at = time /\ e.rule = eval[k][t].rule
    BY <2>0 DEF EvalState
  <2>2. Move(k, t, e)
    BY <1>2
  <2> HIDE DEF e
  <2>3. /\ eval' \in [TickSlot -> [Active -> EvalState]]
        /\ eval'[k][t] = e
        /\ \A j \in TickSlot, u \in Active : j # k \/ u # t => eval'[j][u] = eval[j][u]
    BY <2>1, <2>2, MoveFacts
  <2>4. UNCHANGED <<time, busy, tick, events, armed>> /\ ~At(k, t, "none")
    BY DEF FireTrigger, At
  <2>5. TickTypeOK' /\ events' \in Seq(AlertRow)
    BY <2>3, <2>4 DEF TickInv, TickTypeOK, EvalState
  <2>6. OneTick'
    BY <2>3, <2>4 DEF TickInv, OneTick, At
  <2>7. \A i \in 1..Len(events) :
            /\ events[i].at \in Int
            /\ events[i].token = t /\ events[i].rule = e.rule
                 => e.at - events[i].at > AlertCooldown
    <3>1. \A i \in 1..Len(events) : events[i].at \in Int /\ i \in DOMAIN events
      BY RowsTyped
    <3> QED BY <1>2, <2>0, <2>1, <3>1 DEF IsRecentlyAlerted
  <2>8. Spaced'
    <3>1. SUFFICES ASSUME NEW j \in TickSlot, NEW u \in Active, At(j, u, "insert")'
                   PROVE  /\ eval'[j][u].at <= time'
                          /\ \A i \in 1..Len(events') :
                               events'[i].token = u /\ events'[i].rule = eval'[j][u].rule
                                 => eval'[j][u].at - events'[i].at > AlertCooldown
      BY <2>4 DEF TickInv, Spaced
    <3>2. CASE j = k /\ u = t
      BY <2>0, <2>1, <2>3, <2>4, <2>7, <3>2
    <3>3. CASE j # k \/ u # t
      BY <2>3, <2>4, <3>1, <3>3 DEF TickInv, Spaced, At
    <3> QED BY <3>2, <3>3
  <2>9. AlertSpacing'
    BY <2>4 DEF TickInv, AlertSpacing
  <2> QED BY <2>5, <2>6, <2>8, <2>9 DEF TickInv
<1> QED BY <1>1, <1>2 DEF FireTrigger

\* The insert: no other evaluation of the token is about to insert, for no other tick runs.
LEMMA InsertKeeps ==
    ASSUME TickInv, NEW k \in TickSlot, NEW t \in Active, InsertAnomalyEvent(k, t)
    PROVE  TickInv'
<1>1. /\ eval' \in [TickSlot -> [Active -> EvalState]]
      /\ eval'[k][t] = NoEval
      /\ \A j \in TickSlot, u \in Active : j # k \/ u # t => eval'[j][u] = eval[j][u]
  BY NoEvalTyped, MoveFacts DEF InsertAnomalyEvent, Leave
<1>2. UNCHANGED <<time, busy, tick, armed>> /\ At(k, t, "insert") /\ ~At(k, t, "none")
  BY DEF InsertAnomalyEvent, At
<1>3. OneTick'
  BY <1>1, <1>2, NoEvalTyped DEF TickInv, OneTick, At
<1>4. time \in Int
  BY DEF TickInv, TickTypeOK
<1>5. CASE UNCHANGED events
  <2>1. TickTypeOK' /\ events' \in Seq(AlertRow)
    BY <1>1, <1>2, <1>5 DEF TickInv, TickTypeOK, EvalState
  <2>2. Spaced' /\ AlertSpacing'
    BY <1>1, <1>2, <1>4, <1>5, NoEvalTyped, QuietKeepsSpacing DEF At
  <2> QED BY <1>3, <2>1, <2>2 DEF TickInv
<1>6. ASSUME events' = Append(events, [token |-> t, rule |-> eval[k][t].rule,
                                       at |-> eval[k][t].at])
      PROVE  TickInv'
  <2> DEFINE a == [token |-> t, rule |-> eval[k][t].rule, at |-> eval[k][t].at]
             n == Len(events)
  <2>1. eval[k][t] \in EvalState
    BY DEF TickInv, TickTypeOK, EvalState
  <2>2. /\ a \in AlertRow /\ a.token = t /\ a.rule = eval[k][t].rule /\ a.at = eval[k][t].at
        /\ a.at \in Int
    BY <2>1 DEF AlertRow, EvalState
  <2>3. events' = Append(events, a) /\ events \in Seq(AlertRow)
    BY <1>6 DEF TickInv
  <2> HIDE DEF a
  <2>4. /\ n \in Nat /\ Len(events') = n + 1 /\ events' \in Seq(AlertRow)
        /\ events'[n + 1] = a
        /\ \A i \in 1..n : events'[i] = events[i] /\ events[i].at \in Int
    BY <2>2, <2>3, RowsTyped
  <2>5. DOMAIN events' = 1..(n + 1) /\ DOMAIN events = 1..n
    BY <2>3, <2>4
  <2> HIDE DEF n
  <2>6. \A i \in 1..(n + 1) : i \in 1..n \/ i = n + 1
    BY <2>4
  <2>7. \A i \in 1..n : events[i].token = t /\ events[i].rule = a.rule
                          => a.at - events[i].at > AlertCooldown
    BY <1>2, <2>2 DEF TickInv, Spaced, n
  <2>8. TickTypeOK'
    <3>1. \A i \in DOMAIN events' : events'[i] \in AlertRow
      BY <2>4, <2>5
    <3> QED BY <1>1, <1>2, <3>1 DEF TickInv, TickTypeOK, EvalState, AlertRow
  <2>9. AlertSpacing'
    <3>1. SUFFICES ASSUME NEW i \in 1..(n + 1), NEW j \in 1..(n + 1), i < j,
                          events'[i].token = events'[j].token, events'[i].rule = events'[j].rule
                   PROVE  events'[j].at - events'[i].at > AlertCooldown
      BY <2>5 DEF AlertSpacing
    <3>2. i \in 1..n
      BY <2>4, <3>1
    <3>3. CASE j \in 1..n
      BY <2>4, <2>5, <3>1, <3>2, <3>3 DEF TickInv, AlertSpacing
    <3>4. CASE j = n + 1
      BY <2>2, <2>4, <2>7, <3>1, <3>2, <3>4
    <3> QED BY <2>6, <3>3, <3>4
  <2>10. Spaced'
    <3>1. \A i \in 1..(n + 1) : events'[i].at <= time'
      <4>1. a.at <= time
        BY <1>2, <2>2 DEF TickInv, Spaced
      <4> QED BY <1>2, <2>4, <2>6, <4>1 DEF TickInv, Spaced, n
    <3>2. ASSUME NEW j \in TickSlot, NEW u \in Active, At(j, u, "insert")'
          PROVE  j = k /\ u # t /\ eval'[j][u] = eval[j][u] /\ At(j, u, "insert")
      <4>1. j # k \/ u # t
        BY <1>1, <3>2, NoEvalTyped DEF At
      <4>2. eval'[j][u] = eval[j][u] /\ At(j, u, "insert")
        BY <1>1, <3>2, <4>1 DEF At
      <4>3. tick[j].on /\ tick[k].on
        BY <1>2, <4>2 DEF TickInv, OneTick, At
      <4> QED BY <4>1, <4>2, <4>3 DEF TickInv, OneTick
    <3>3. ASSUME NEW j \in TickSlot, NEW u \in Active, At(j, u, "insert")',
                 NEW i \in 1..(n + 1),
                 events'[i].token = u, events'[i].rule = eval'[j][u].rule
          PROVE  eval'[j][u].at - events'[i].at > AlertCooldown
      <4>1. i \in 1..n
        BY <2>2, <2>4, <2>6, <3>2, <3>3
      <4> QED BY <2>4, <3>2, <3>3, <4>1 DEF TickInv, Spaced, n
    <3>4. ASSUME NEW j \in TickSlot, NEW u \in Active, At(j, u, "insert")'
          PROVE  eval'[j][u].at <= time'
      BY <1>2, <3>2, <3>4 DEF TickInv, Spaced
    <3> QED BY <2>4, <3>1, <3>3, <3>4 DEF Spaced
  <2> QED BY <1>3, <2>4, <2>8, <2>9, <2>10 DEF TickInv
<1> QED BY <1>5, <1>6 DEF InsertAnomalyEvent

-----------------------------------------------------------------------------
\* The steps of the tick itself.
LEMMA DetectOnceKeeps ==
    ASSUME TickInv, NEW k \in TickSlot, DetectOnce(k)
    PROVE  TickInv'
<1>1. PICK f \in SUBSET Active \ {{}} :
          tick' = [tick EXCEPT ![k] = [on |-> TRUE, left |-> f]] /\ busy' = TRUE
  BY DEF DetectOnce
<1>2. UNCHANGED <<time, eval, events, armed>> /\ ~busy
  BY DEF DetectOnce
<1>3. TickTypeOK' /\ events' \in Seq(AlertRow)
  BY <1>1, <1>2 DEF TickInv, TickTypeOK
<1>4. OneTick'
  BY <1>1, <1>2 DEF TickInv, OneTick, At, TickTypeOK
<1>5. Spaced' /\ AlertSpacing'
  BY <1>2 DEF TickInv, Spaced, AlertSpacing, At
<1> QED BY <1>3, <1>4, <1>5 DEF TickInv

LEMMA StartSliceKeeps ==
    ASSUME TickInv, NEW k \in TickSlot, StartSlice(k)
    PROVE  TickInv'
<1>1. PICK now5 \in SUBSET tick[k].left :
         /\ tick' = [tick EXCEPT ![k].left = @ \ now5]
         /\ eval' = [eval EXCEPT ![k] = [t \in Active |->
                        IF t \in now5 THEN [NoEval EXCEPT !.pc = "stats"] ELSE @[t]]]
  BY DEF StartSlice
<1>2. UNCHANGED <<time, busy, events, armed>> /\ tick[k].left # {} /\ tick[k].on
  BY DEF StartSlice, TickInv, OneTick
<1>3. [NoEval EXCEPT !.pc = "stats"] \in EvalState /\ [NoEval EXCEPT !.pc = "stats"].pc = "stats"
  BY NoEvalTyped DEF EvalState
<1>4. /\ eval' \in [TickSlot -> [Active -> EvalState]]
      /\ \A j \in TickSlot, t \in Active :
           \/ eval'[j][t] = eval[j][t]
           \/ j = k /\ eval'[j][t].pc = "stats"
  BY <1>1, <1>3 DEF TickInv, TickTypeOK, EvalState
<1>5. /\ tick' \in [TickSlot -> TickState]
      /\ \A j \in TickSlot : tick'[j].on = tick[j].on /\ tick'[j].left \subseteq tick[j].left
  BY ZenonT(60), <1>1 DEF TickInv, TickTypeOK, TickState
<1>6. TickTypeOK' /\ events' \in Seq(AlertRow)
  BY <1>2, <1>4, <1>5 DEF TickInv, TickTypeOK, EvalState, TickState
<1>7. OneTick'
  <2>1. ASSUME NEW j \in TickSlot, ~tick'[j].on
        PROVE  tick'[j].left = {} /\ \A t \in Active : eval'[j][t].pc = "none"
    <3>1. ~tick[j].on /\ j # k
      BY <1>2, <1>5, <2>1
    <3>2. tick[j].left = {} /\ \A t \in Active : eval[j][t].pc = "none"
      BY <3>1 DEF TickInv, OneTick, At
    <3>3. \A t \in Active : eval'[j][t] = eval[j][t]
      BY <1>4, <3>1
    <3> QED BY <1>5, <3>2, <3>3
  <2> QED BY <1>2, <1>5, <2>1 DEF TickInv, OneTick, At
<1>8. time \in Int
  BY DEF TickInv, TickTypeOK
<1>9. Spaced' /\ AlertSpacing'
  BY <1>2, <1>4, <1>8, QuietKeepsSpacing DEF At
<1> QED BY <1>6, <1>7, <1>9 DEF TickInv

LEMMA EndTickKeeps ==
    ASSUME TickInv, NEW k \in TickSlot, EndTick(k)
    PROVE  TickInv'
<1>1. /\ tick' = [tick EXCEPT ![k] = Off] /\ busy' = FALSE /\ tick[k].on
      /\ \A t \in Active : At(k, t, "none")
      /\ UNCHANGED <<time, eval, events, armed>>
  BY DEF EndTick, Resting
<1>2. Off \in TickState /\ ~Off.on /\ Off.left = {}
  BY DEF Off, TickState
<1>3. TickTypeOK' /\ events' \in Seq(AlertRow)
  BY <1>1, <1>2 DEF TickInv, TickTypeOK, TickState
<1>4. tick'[k] = Off /\ \A j \in TickSlot \ {k} : tick'[j] = tick[j] /\ ~tick[j].on
  BY <1>1 DEF TickInv, OneTick, TickTypeOK
<1>5. OneTick'
  BY <1>1, <1>2, <1>4 DEF TickInv, OneTick, At
<1>6. Spaced' /\ AlertSpacing'
  BY <1>1 DEF TickInv, Spaced, AlertSpacing, At
<1> QED BY <1>3, <1>5, <1>6 DEF TickInv

LEMMA TickStepInv == TickInv /\ [TickNext]_tickVars => TickInv'
<1> SUFFICES ASSUME TickInv, [TickNext]_tickVars PROVE TickInv'
  OBVIOUS
<1>1. CASE TimePasses
  <2>1. /\ time \in 0..MaxTime /\ MaxTime \in Nat
        /\ time' = time + 1 /\ time < MaxTime /\ UNCHANGED <<busy, tick, eval, events, armed>>
    BY <1>1, ConstantsNat DEF TickInv, TickTypeOK, Constants, TimePasses
  <2>2. time' \in 0..MaxTime /\ time' \in Int /\ time <= time' /\ time \in Int
    BY <2>1
  <2>3. TickTypeOK' /\ events' \in Seq(AlertRow) /\ OneTick'
    BY <2>1, <2>2 DEF TickInv, TickTypeOK, OneTick, At
  <2>4. Spaced' /\ AlertSpacing'
    BY <2>1, <2>2, QuietKeepsSpacing DEF At
  <2> QED BY <2>3, <2>4 DEF TickInv
<1>2. CASE StopDetector \/ UNCHANGED tickVars
  <2>1. UNCHANGED <<time, busy, tick, eval, events>> /\ armed' \in BOOLEAN
    BY <1>2 DEF StopDetector, tickVars, TickInv, TickTypeOK
  <2>2. TickTypeOK' /\ events' \in Seq(AlertRow)
    BY <2>1 DEF TickInv, TickTypeOK
  <2>3. OneTick' /\ Spaced' /\ AlertSpacing'
    BY <2>1 DEF TickInv, OneTick, Spaced, AlertSpacing, At
  <2> QED BY <2>2, <2>3 DEF TickInv
<1> QED
  BY <1>1, <1>2, DetectOnceKeeps, StartSliceKeeps, EndTickKeeps, EvaluateKeeps,
     GetTokenTVLKeeps, FireTriggerKeeps, InsertKeeps
  DEF TickNext

\* In every reachable state the flag, the ticks and the evaluations are well typed
\* (archive-ts/src/anomaly/detector.ts).
THEOREM TickTypeCorrect == TickSpec => []TickTypeOK
<1>1. TickInv => TickTypeOK
  BY DEF TickInv
<1> QED BY <1>1, TickInitInv, TickStepInv, PTL DEF TickSpec

\* Two alerts of one token and rule are more than a cooldown apart, for any number of
\* tokens and any cooldown (detector.ts detectOnce, fireTrigger).
THEOREM AlertsSpaced == TickSpec => []AlertSpacing
<1>1. TickInv => AlertSpacing
  BY DEF TickInv
<1> QED BY <1>1, TickInitInv, TickStepInv, PTL DEF TickSpec

-----------------------------------------------------------------------------
(***************************************************************************)
(* The probe: every kind of pool has at most one subscription, whatever    *)
(* fails and however often it is mounted.                                  *)
(***************************************************************************)

\* Why a kind is mounted once: main starts a kind that is not mounted, and the probe starts
\* after main is through, so that a remount never meets a kind that main has still to start.
MountedOnce ==
    /\ \A k \in toStart : subs[k] = 0
    /\ probing \/ checks > 0 \/ remounted => toStart = {}

ProbeInv == ProbeTypeOK /\ MountedOnce /\ OneSubscription

\* The types, flags apart from the rest.
Flags ==
    /\ socketUp \in BOOLEAN /\ known \in BOOLEAN /\ ahead \in BOOLEAN
    /\ probing \in BOOLEAN /\ running \in BOOLEAN /\ remounted \in BOOLEAN

Ages ==
    /\ subs \in [Kind -> Nat]
    /\ deaf \subseteq Kind /\ toStart \subseteq Kind
    /\ silence \in 0..Silence /\ cool \in 0..Cooldown /\ due \in 0..Interval
    /\ checks \in 0..MaxChecks
    /\ startFaults \in 0..MaxStartFaults

LEMMA ProbeTypes == ProbeTypeOK <=> Flags /\ Ages
  BY Zenon DEF ProbeTypeOK, Flags, Ages

LEMMA ProbeTypesLater == ProbeTypeOK' <=> Flags' /\ Ages'
  BY Zenon DEF ProbeTypeOK, Flags, Ages

LEMMA FailedCounted ==
    ASSUME NEW failed \in SUBSET SupportedDexes PROVE Cardinality(failed) \in Nat
<1>1. IsFiniteSet(SupportedDexes)
  <2>1. IsFiniteSet({"v3"}) /\ IsFiniteSet({"v4"}) /\ IsFiniteSet({"pancake-v3"})
    BY FS_Singleton
  <2>2. SupportedDexes = {"v3"} \cup ({"v4"} \cup {"pancake-v3"})
    BY DEF SupportedDexes
  <2>3. IsFiniteSet({"v4"} \cup {"pancake-v3"})
    BY <2>1, FS_Union
  <2> QED BY <2>1, <2>2, <2>3, FS_Union
<1> QED BY <1>1, FS_Subset, FS_CardinalityType

LEMMA ProbeInitInv == ProbeInit => ProbeInv
<1> SUFFICES ASSUME ProbeInit PROVE ProbeInv
  OBVIOUS
<1>1. ProbeTypeOK
  <2>1. Flags
    BY Zenon DEF ProbeInit, Flags
  <2>2. Ages
    BY ProbeAssumption DEF ProbeAssumption, ProbeInit, Ages
  <2> QED BY <2>1, <2>2, ProbeTypes
<1>2. MountedOnce /\ OneSubscription
  BY DEF ProbeInit, MountedOnce, OneSubscription, Kind
<1> QED BY <1>1, <1>2 DEF ProbeInv

\* Steps that leave the subscriptions alone, and what MountedOnce reads of the rest.
LEMMA MountedKept ==
    ASSUME ProbeInv, UNCHANGED <<subs, toStart, remounted>>,
           probing' \/ checks' > 0 => probing \/ checks > 0 \/ toStart = {}
    PROVE  MountedOnce' /\ OneSubscription'
  BY DEF ProbeInv, MountedOnce, OneSubscription

LEMMA StartSwapListenerKeeps ==
    ASSUME ProbeInv, NEW k \in Kind, StartSwapListener(k)
    PROVE  ProbeInv'
<1>1. /\ k \in toStart /\ toStart' = toStart \ {k}
      /\ UNCHANGED <<socketUp, silence, cool, due, checks, known, ahead, probing, running,
                     remounted>>
      /\ deaf' \subseteq Kind
      /\ subs \in [Kind -> Nat] /\ subs[k] = 0 /\ ~remounted /\ ~probing /\ ~(checks > 0)
  BY DEF StartSwapListener, ProbeInv, ProbeTypeOK, MountedOnce
<1>2. subs' \in {subs, [subs EXCEPT ![k] = subs[k] + 1]} /\ startFaults' \in 0..MaxStartFaults
  BY ProbeAssumption DEF ProbeAssumption, StartSwapListener, ProbeInv, ProbeTypeOK
<1>3. subs' \in [Kind -> Nat] /\ subs'[k] \in {0, 1} /\ \A j \in Kind \ {k} : subs'[j] = subs[j]
  BY <1>1, <1>2
<1>4. ProbeTypeOK'
  BY <1>1, <1>2, <1>3 DEF ProbeInv, ProbeTypeOK
<1>5. MountedOnce' /\ OneSubscription'
  BY <1>1, <1>3 DEF ProbeInv, ProbeTypeOK, MountedOnce, OneSubscription
<1> QED BY <1>4, <1>5 DEF ProbeInv

LEMMA CheckChainKeeps ==
    ASSUME ProbeInv, CheckChain
    PROVE  ProbeInv'
<1>1. /\ checks > 0 /\ checks' = checks - 1 /\ known' = TRUE /\ ahead' = FALSE
      /\ UNCHANGED <<socketUp, toStart, due, probing, running>> /\ toStart = {}
  BY DEF CheckChain, ProbeInv, MountedOnce
<1>2. CASE UNCHANGED <<subs, deaf, silence, cool, startFaults, remounted>>
  <2>1. ProbeTypeOK'
    <3>1. Flags'
      BY <1>1, <1>2, ProbeTypes, Zenon DEF ProbeInv, Flags
    <3>2. Ages /\ UNCHANGED <<subs, deaf, toStart, silence, cool, due, startFaults>>
      BY <1>1, <1>2, ProbeTypes DEF ProbeInv
    <3>3. checks' \in 0..MaxChecks
      BY <1>1, <3>2, ProbeAssumption DEF ProbeAssumption, Ages
    <3>4. Ages'
      BY <3>2, <3>3 DEF Ages
    <3> QED BY <3>1, <3>4, ProbeTypesLater
  <2> QED BY <1>1, <1>2, <2>1, MountedKept DEF ProbeInv
<1>3. ASSUME NEW failed \in SUBSET SupportedDexes,
             startFaults + Cardinality(failed) <= MaxStartFaults, RemountChain(failed)
      PROVE  ProbeInv'
  <2>1. /\ subs' = [k \in Kind |-> IF k \in SupportedDexes \ failed THEN 1 ELSE 0]
        /\ deaf' = {} /\ startFaults' = startFaults + Cardinality(failed)
        /\ silence' = 0 /\ cool' = 0 /\ remounted' = TRUE
    BY <1>3 DEF RemountChain
  <2>2. startFaults' \in 0..MaxStartFaults
    BY <1>3, <2>1, FailedCounted, ProbeAssumption DEF ProbeAssumption, ProbeInv, ProbeTypeOK
  <2>3. ProbeTypeOK'
    <3>1. Flags'
      BY <1>1, <2>1, ProbeTypes, Zenon DEF ProbeInv, Flags
    <3>2. Ages'
      BY <1>1, <2>1, <2>2, ProbeTypes, ProbeAssumption DEF ProbeAssumption, ProbeInv, Ages
    <3> QED BY <3>1, <3>2, ProbeTypesLater
  <2>4. MountedOnce' /\ OneSubscription'
    BY <1>1, <2>1 DEF MountedOnce, OneSubscription
  <2> QED BY <2>3, <2>4 DEF ProbeInv
<1> QED BY <1>2, <1>3 DEF CheckChain

\* The steps of the timer and of the checks up to their answer.
LEMMA TimerKeeps ==
    ASSUME ProbeInv,
           StartLivenessProbe \/ ChainAdvances \/ Tick \/ StartCheck \/ GetBlockNumberFails
             \/ StaleAnswer
    PROVE  ProbeInv'
<1> USE ProbeAssumption DEF ProbeAssumption
<1>1. CASE StartLivenessProbe
  BY <1>1 DEF StartLivenessProbe, ProbeInv, ProbeTypeOK, MountedOnce, OneSubscription
<1>2. CASE ChainAdvances
  BY <1>2 DEF ChainAdvances, ProbeInv, ProbeTypeOK, MountedOnce, OneSubscription
<1>3. CASE Tick
  <2>1. ProbeTypeOK'
    BY <1>3 DEF Tick, Min2, ProbeInv, ProbeTypeOK
  <2> QED BY <1>3, <2>1, MountedKept DEF Tick, ProbeInv
<1>4. CASE StartCheck
  <2>1. probing /\ UNCHANGED <<subs, toStart, remounted>>
    BY <1>4 DEF StartCheck
  <2>2. ProbeTypeOK'
    BY <1>4 DEF StartCheck, ProbeInv, ProbeTypeOK
  <2> QED BY <2>1, <2>2, MountedKept DEF ProbeInv
<1>5. CASE GetBlockNumberFails
  <2>1. ProbeTypeOK'
    BY <1>5 DEF GetBlockNumberFails, ProbeInv, ProbeTypeOK
  <2> QED BY <1>5, <2>1, MountedKept DEF GetBlockNumberFails, ProbeInv
<1>6. CASE StaleAnswer
  <2>1. ProbeTypeOK'
    BY <1>6 DEF StaleAnswer, ProbeInv, ProbeTypeOK
  <2> QED BY <1>6, <2>1, MountedKept DEF StaleAnswer, ProbeInv
<1> QED BY <1>1, <1>2, <1>3, <1>4, <1>5, <1>6

LEMMA ProbeStepInv == ProbeInv /\ [ProbeNext]_probeVars => ProbeInv'
<1> SUFFICES ASSUME ProbeInv, [ProbeNext]_probeVars PROVE ProbeInv'
  OBVIOUS
<1>1. CASE \E k \in Kind : StartSwapListener(k)
  BY <1>1, StartSwapListenerKeeps
<1>2. CASE \E k \in Kind : GoDeaf(k)
  BY <1>2 DEF GoDeaf, ProbeInv, ProbeTypeOK, MountedOnce, OneSubscription
<1>8. CASE SocketDown \/ SocketBack
  <2>1. /\ UNCHANGED <<subs, toStart, silence, cool, due, checks, known, ahead, probing, running,
                      startFaults, remounted>>
        /\ deaf' \subseteq Kind
    BY <1>8 DEF SocketDown, SocketBack, ProbeInv, ProbeTypeOK
  <2>2. socketUp' \in BOOLEAN
    BY <1>8, Zenon DEF SocketDown, SocketBack
  <2>3. Flags'
    BY <2>1, <2>2, ProbeTypes, Zenon DEF ProbeInv, Flags
  <2>4. Ages'
    BY <2>1, ProbeTypes DEF ProbeInv, Ages
  <2> QED BY <2>1, <2>3, <2>4, ProbeTypesLater, MountedKept DEF ProbeInv
<1>3. CASE \E k \in Kind : MarkAlive(k)
  BY <1>3, ProbeAssumption
  DEF ProbeAssumption, MarkAlive, ProbeInv, ProbeTypeOK, MountedOnce, OneSubscription
<1>4. CASE StartLivenessProbe \/ ChainAdvances \/ Tick \/ StartCheck \/ GetBlockNumberFails
             \/ StaleAnswer
  BY <1>4, TimerKeeps
<1>5. CASE CheckChain
  BY <1>5, CheckChainKeeps
<1>6. CASE Shutdown
  <2>1. subs' = [k \in Kind |-> 0] /\ UNCHANGED <<toStart, checks, remounted>> /\ ~probing'
    BY <1>6 DEF Shutdown
  <2>2. ProbeTypeOK'
    <3>1. Flags'
      BY <1>6, ProbeTypes, Zenon DEF Shutdown, ProbeInv, Flags
    <3>2. Ages'
      BY <1>6, <2>1, ProbeTypes DEF Shutdown, ProbeInv, Ages
    <3> QED BY <3>1, <3>2, ProbeTypesLater
  <2> QED BY <2>1, <2>2 DEF ProbeInv, ProbeTypeOK, MountedOnce, OneSubscription
<1>7. CASE UNCHANGED probeVars
  BY <1>7 DEF probeVars, ProbeInv, ProbeTypeOK, MountedOnce, OneSubscription
<1> QED BY <1>1, <1>2, <1>3, <1>4, <1>5, <1>6, <1>7, <1>8 DEF ProbeNext

\* In every reachable state the listeners, the ages and the checks are well typed
\* (archive-ts/src/core/livenessProbe.ts).
THEOREM ProbeTypeCorrect == ProbeSpec => []ProbeTypeOK
<1>1. ProbeInv => ProbeTypeOK
  BY DEF ProbeInv
<1> QED BY <1>1, ProbeInitInv, ProbeStepInv, PTL DEF ProbeSpec

\* No kind is ever subscribed twice, and a remount leaves two kinds away, for any
\* thresholds, any number of checks under way and any failures to start
\* (livenessProbe.ts remountChain, index.ts main).
THEOREM SubscribedOnce == ProbeSpec => []OneSubscription
<1>1. ProbeInv => OneSubscription
  BY DEF ProbeInv
<1> QED BY <1>1, ProbeInitInv, ProbeStepInv, PTL DEF ProbeSpec
-----------------------------------------------------------------------------
(***************************************************************************)
(* A swap log on its way to the tables: why one of a watched token may be  *)
(* refused, and how the rows and the counts of the buckets keep together   *)
(* while logs are between their three writes.                              *)
(***************************************************************************)

LogState == [pc : {"idle", "lookup", "price", "write"}, swap : Swap,
             seen : BOOLEAN, todo : SUBSET Writes, ok : BOOLEAN]

\* The watchlist comes from the table: what is in it, or was selected for it, is in the
\* table or was deleted from it; it is empty while it is loaded.
FromTable ==
    /\ watched \subseteq table \cup gone /\ refresh.selected \subseteq table \cup gone
    /\ refresh.pc \in {"select", "fill"} => watched = {}

\* A token that was watched when a log arrived.
Seen(t) ==
    /\ loaded /\ t \in table \cup gone
    /\ refresh.pc = "fill" => t \in refresh.selected \cup gone
    /\ \/ t \in watched
       \/ refresh.pc \in {"select", "fill"}
       \/ dbFaults > 0 /\ watched = {}
       \/ t \in gone

SeenLogs == \A l \in Log : log[l].seen => Seen(TokenOf(log[l].swap))

SwapTypes ==
    /\ log \in [Log -> LogState]
    /\ price \in [known : BOOLEAN, fresh : BOOLEAN]
    /\ rowsOf \in [Swap -> Nat] /\ poolCount \in [Swap -> Nat]
    /\ tokenCount \in [Token -> Nat] /\ alive \in [Token -> Nat]
    /\ delivered \in 0..MaxDeliveries
    /\ writeFaults \in 0..MaxDbFaults
    /\ \A l \in Log : log[l].todo # {} <=> log[l].pc = "write"

-----------------------------------------------------------------------------
LEMMA WatchInitHolds == WatchInit => WatchTypeOK /\ FromTable
<1> SUFFICES ASSUME WatchInit PROVE WatchTypeOK /\ FromTable
  OBVIOUS
<1>1. MaxDbFaults \in Nat
  BY WatchlistAssumption DEF WatchlistAssumption
<1>2. loaded \in BOOLEAN
  BY Zenon DEF WatchInit
<1> QED BY <1>1, <1>2 DEF WatchInit, WatchTypeOK, FromTable

LEMMA WatchFlag == ASSUME WatchTypeOK, [WatchNext]_watchVars PROVE loaded' \in BOOLEAN
<1>1. loaded \in BOOLEAN
  BY Zenon DEF WatchTypeOK
<1>2. CASE UNCHANGED watchVars
  BY <1>1, <1>2, Zenon DEF watchVars
<1>3. CASE WatchNext
  <2>1. UNCHANGED loaded \/ loaded' = TRUE
    BY <1>3 DEF WatchNext, RefreshDue, FetchLists, StartLoad, SelectTokens, FillWatchlist,
                UpsertLands, Enrich, Reverify
  <2> QED BY <1>1, <2>1, Zenon
<1> QED BY <1>2, <1>3, Zenon

RefreshState == [pc : {"idle", "fetch", "upsert", "select", "fill"},
                 fetched : SUBSET Token, selected : SUBSET Token]

\* What a refresh that ends, or moves on, leaves behind.
LEMMA EndRefreshFacts ==
    ASSUME WatchTypeOK, EndRefresh
    PROVE  /\ refresh' \in RefreshState /\ refresh'.pc = "idle" /\ refresh'.selected = {}
           /\ life' \in {"boot", "seed", "up", "dead"}
  BY DEF WatchTypeOK, EndRefresh, Idle, RefreshState

LEMMA IdleFacts == Idle \in RefreshState /\ Idle.pc = "idle" /\ Idle.selected = {}
  BY DEF Idle, RefreshState

LEMMA DbFaultFacts ==
    ASSUME WatchTypeOK, DbFault
    PROVE  dbFaults' \in 0..MaxDbFaults /\ dbFaults' > 0 /\ dbFaults' >= dbFaults
<1>1. MaxDbFaults \in Nat
  BY WatchlistAssumption DEF WatchlistAssumption
<1> QED BY <1>1 DEF WatchTypeOK, DbFault

LEMMA FetchListsFacts ==
    ASSUME WatchTypeOK, FetchLists
    PROVE  /\ UNCHANGED <<table, watched, loaded, gone>> /\ refresh.pc = "fetch"
           /\ refresh' \in RefreshState /\ refresh'.pc \in {"idle", "upsert"}
           /\ refresh'.selected \subseteq refresh.selected
           /\ sent' \subseteq Token
           /\ life' \in {"boot", "seed", "up", "dead"}
           /\ dbFaults' \in 0..MaxDbFaults /\ dbFaults' >= dbFaults
<1>1. ASSUME NEW both \in SUBSET Token,
             refresh' = [refresh EXCEPT !.pc = "upsert", !.fetched = both]
      PROVE  /\ refresh' \in RefreshState /\ refresh'.pc = "upsert"
             /\ refresh'.selected = refresh.selected
  BY <1>1 DEF WatchTypeOK, RefreshState
<1>0. UNCHANGED <<table, watched, loaded, gone>> /\ refresh.pc = "fetch"
  BY DEF FetchLists
<1>2. CASE DbFault /\ EndRefresh /\ UNCHANGED sent
  <2>1. /\ refresh' \in RefreshState /\ refresh'.pc = "idle" /\ refresh'.selected = {}
        /\ life' \in {"boot", "seed", "up", "dead"}
    BY <1>2, EndRefreshFacts
  <2>2. dbFaults' \in 0..MaxDbFaults /\ dbFaults' >= dbFaults
    BY <1>2, DbFaultFacts
  <2>3. sent' \subseteq Token
    BY <1>2 DEF WatchTypeOK
  <2> QED BY <1>0, <2>1, <2>2, <2>3
<1>3. CASE \E both \in SUBSET Token :
              /\ refresh' = [refresh EXCEPT !.pc = "upsert", !.fetched = both]
              /\ sent' = sent \cup both
              /\ UNCHANGED <<life, dbFaults>>
  <2>1. PICK both \in SUBSET Token :
           /\ refresh' = [refresh EXCEPT !.pc = "upsert", !.fetched = both]
           /\ sent' = sent \cup both
           /\ UNCHANGED <<life, dbFaults>>
    BY <1>3
  <2>2. sent' \subseteq Token /\ life' \in {"boot", "seed", "up", "dead"}
    BY <2>1 DEF WatchTypeOK
  <2>3. dbFaults' \in 0..MaxDbFaults /\ dbFaults' >= dbFaults
    BY <2>1, WatchlistAssumption DEF WatchTypeOK, WatchlistAssumption
  <2> QED BY <1>0, <1>1, <2>1, <2>2, <2>3
<1> QED BY <1>2, <1>3 DEF FetchLists

LEMMA SelectTokensFacts ==
    ASSUME WatchTypeOK, SelectTokens
    PROVE  /\ UNCHANGED <<table, watched, loaded, sent, gone>> /\ refresh.pc = "select"
           /\ refresh' \in RefreshState
           /\ life' \in {"boot", "seed", "up", "dead"}
           /\ dbFaults' \in 0..MaxDbFaults
           /\ \/ refresh'.pc = "fill" /\ refresh'.selected = table
              \/ refresh'.pc = "idle" /\ refresh'.selected = {} /\ dbFaults' > 0
<1>1. CASE refresh' = [refresh EXCEPT !.pc = "fill", !.selected = table] /\ UNCHANGED <<life, dbFaults>>
  <2>1. refresh' \in RefreshState /\ refresh'.pc = "fill" /\ refresh'.selected = table
    BY <1>1 DEF WatchTypeOK, RefreshState
  <2> QED BY <1>1, <2>1 DEF SelectTokens, WatchTypeOK
<1>2. CASE DbFault /\ life = "boot" /\ life' = "dead" /\ refresh' = Idle
  BY <1>2, IdleFacts, DbFaultFacts DEF SelectTokens
<1>3. CASE DbFault /\ life # "boot" /\ EndRefresh
  BY <1>3, EndRefreshFacts, DbFaultFacts DEF SelectTokens
<1> QED BY <1>1, <1>2, <1>3 DEF SelectTokens

LEMMA WatchStep ==
    ASSUME WatchTypeOK, FromTable, WatchNext PROVE WatchTypeOK' /\ FromTable'
<1>1. loaded' \in BOOLEAN
  BY WatchFlag
<1>2. MaxDbFaults \in Nat
  BY WatchlistAssumption DEF WatchlistAssumption
<1>3. CASE RefreshDue
  BY <1>1, <1>2, <1>3 DEF WatchTypeOK, FromTable, RefreshDue
<1>4. CASE FetchLists
  BY <1>1, <1>4, FetchListsFacts DEF WatchTypeOK, FromTable, RefreshState
<1>5. CASE StartLoad
  BY <1>1, <1>2, <1>5 DEF WatchTypeOK, FromTable, StartLoad
<1>6. CASE SelectTokens
  BY <1>1, <1>6, SelectTokensFacts DEF WatchTypeOK, FromTable, RefreshState
<1>7. CASE FillWatchlist
  BY <1>1, <1>2, <1>7 DEF WatchTypeOK, FromTable, FillWatchlist, EndRefresh, Idle
<1>8. ASSUME NEW t \in Token, UpsertLands(t) PROVE WatchTypeOK' /\ FromTable'
  BY <1>1, <1>2, <1>8 DEF WatchTypeOK, FromTable, UpsertLands, DbFault, EndRefresh, Idle
<1>9. ASSUME NEW t \in Token, Enrich(t) PROVE WatchTypeOK' /\ FromTable'
  BY <1>1, <1>2, <1>9 DEF WatchTypeOK, FromTable, Enrich
<1>10. ASSUME NEW t \in Token, Reverify(t) PROVE WatchTypeOK' /\ FromTable'
  BY <1>1, <1>2, <1>10 DEF WatchTypeOK, FromTable, Reverify
<1> QED BY <1>3, <1>4, <1>5, <1>6, <1>7, <1>8, <1>9, <1>10 DEF WatchNext

\* A token that was watched stays accounted for, whatever the refresh does.
LEMMA SeenStep ==
    ASSUME WatchTypeOK, FromTable, NEW u \in Token, Seen(u), WatchNext PROVE Seen(u)'
<1>1. MaxDbFaults \in Nat
  BY WatchlistAssumption DEF WatchlistAssumption
<1>2. loaded'
  <2>1. UNCHANGED loaded \/ loaded' = TRUE
    BY DEF WatchNext, RefreshDue, FetchLists, StartLoad, SelectTokens, FillWatchlist,
           UpsertLands, Enrich, Reverify
  <2> QED BY <2>1, Zenon DEF Seen
<1>3. CASE RefreshDue
  BY <1>1, <1>2, <1>3 DEF WatchTypeOK, FromTable, Seen, RefreshDue
<1>4. CASE FetchLists
  BY <1>1, <1>2, <1>4, FetchListsFacts DEF WatchTypeOK, Seen
<1>5. CASE StartLoad
  BY <1>1, <1>2, <1>5 DEF WatchTypeOK, FromTable, Seen, StartLoad
<1>6. CASE SelectTokens
  BY <1>1, <1>2, <1>6, SelectTokensFacts DEF FromTable, Seen
<1>7. CASE FillWatchlist
  BY <1>1, <1>2, <1>7 DEF WatchTypeOK, FromTable, Seen, FillWatchlist, EndRefresh, Idle
<1>8. ASSUME NEW t \in Token, UpsertLands(t) PROVE Seen(u)'
  BY <1>1, <1>2, <1>8 DEF WatchTypeOK, FromTable, Seen, UpsertLands, DbFault, EndRefresh, Idle
<1>9. ASSUME NEW t \in Token, Enrich(t) PROVE Seen(u)'
  BY <1>1, <1>2, <1>9 DEF WatchTypeOK, FromTable, Seen, Enrich
<1>10. ASSUME NEW t \in Token, Reverify(t) PROVE Seen(u)'
  BY <1>1, <1>2, <1>10 DEF WatchTypeOK, FromTable, Seen, Reverify
<1> QED BY <1>3, <1>4, <1>5, <1>6, <1>7, <1>8, <1>9, <1>10 DEF WatchNext
-----------------------------------------------------------------------------
\* The logs in a set of states, and how many they are.
LogsIn(R) == {l \in Log : log[l] \in R}
Number(R) == Cardinality(LogsIn(R))
OneIn(r, R) == IF r \in R THEN 1 ELSE 0

\* The write w of a swap of S still to come, or under way; and done, with no write failed.
Coming(w, S) == {r \in LogState : r.swap \in S /\ (r.pc \in {"lookup", "price"} \/ w \in r.todo)}
Writing(w, S) == {r \in LogState : r.swap \in S /\ w \in r.todo}
Done(w, S) == {r \in LogState : r.swap \in S /\ r.pc = "write" /\ w \notin r.todo /\ r.ok}

LEMMA NumberNat == ASSUME NEW R PROVE IsFiniteSet(LogsIn(R)) /\ Number(R) \in Nat
<1>1. LogsIn(R) \subseteq Log
  BY DEF LogsIn
<1> QED BY <1>1, LiveSwapAssumption, FS_Subset, FS_CardinalityType DEF LiveSwapAssumption, Number

LEMMA NumberNatLater == ASSUME NEW R PROVE IsFiniteSet(LogsIn(R)') /\ Number(R)' \in Nat
<1>1. LogsIn(R)' \subseteq Log
  BY DEF LogsIn
<1>2. IsFiniteSet(LogsIn(R)')
  BY <1>1, LiveSwapAssumption, FS_Subset DEF LiveSwapAssumption
<1> QED BY <1>2, FS_CardinalityType DEF Number

\* A log that moves leaves some sets and enters others.
LEMMA LogMoves ==
    ASSUME log \in [Log -> LogState], NEW l \in Log, NEW r \in LogState,
           log' = [log EXCEPT ![l] = r], NEW R
    PROVE  Number(R)' = Number(R) + OneIn(r, R) - OneIn(log[l], R)
<1>1. LogsIn(R)' = IF r \in R THEN LogsIn(R) \cup {l} ELSE LogsIn(R) \ {l}
  BY DEF LogsIn
<1>2. l \in LogsIn(R) <=> log[l] \in R
  BY DEF LogsIn
<1>3. IsFiniteSet(LogsIn(R)) /\ Number(R) \in Nat
  BY NumberNat
<1>4. CASE r \in R
  <2>1. Number(R)' = IF l \in LogsIn(R) THEN Number(R) ELSE Number(R) + 1
    BY <1>1, <1>3, <1>4, FS_AddElement DEF Number
  <2> QED BY <1>2, <1>3, <1>4, <2>1 DEF OneIn
<1>5. CASE r \notin R
  <2>1. Number(R)' = IF l \in LogsIn(R) THEN Number(R) - 1 ELSE Number(R)
    BY <1>1, <1>3, <1>5, FS_RemoveElement DEF Number
  <2> QED BY <1>2, <1>3, <1>5, <2>1 DEF OneIn
<1> QED BY <1>4, <1>5

LEMMA SameNumbers == ASSUME UNCHANGED log, NEW R PROVE Number(R)' = Number(R)
  BY DEF Number, LogsIn

LEMMA NoNumber == ASSUME NEW R, LogsIn(R) = {} PROVE Number(R) = 0
  BY FS_EmptySet DEF Number

\* Waiting of the model, in these terms.
LEMMA WaitingIsWriting ==
    ASSUME log \in [Log -> LogState], NEW w, NEW S
    PROVE  Waiting(w, S) = Number(Writing(w, S))
<1>1. {l \in Log : w \in log[l].todo /\ log[l].swap \in S} = LogsIn(Writing(w, S))
  BY DEF LogsIn, Writing
<1> QED BY <1>1 DEF Waiting, Number

-----------------------------------------------------------------------------
\* The two writes count what the probe was told, each write what was delivered.
Counts ==
    /\ \A s \in Swap : /\ rowsOf[s] + Number(Coming("row", {s})) <= delivered
                       /\ poolCount[s] + Number(Coming("pool", {s})) <= delivered
    /\ \A t \in Token :
          /\ tokenCount[t] + Number(Coming("token", PoolsOf(t))) <= delivered
          /\ alive[t] + Number(Done("token", PoolsOf(t))) <= tokenCount[t]
          /\ alive[t] + Number(Done("pool", PoolsOf(t))) <= CountOf(poolCount, t)
    /\ writeFaults = 0 =>
          /\ \A t \in Token :
                CountOf(poolCount, t) + Number(Writing("pool", PoolsOf(t)))
                  = tokenCount[t] + Number(Writing("token", PoolsOf(t)))
          /\ \A s \in Swap :
                rowsOf[s] + Number(Writing("row", {s}))
                  <= poolCount[s] + Number(Writing("pool", {s}))

LEMMA SwapFacts ==
    /\ \A s \in Swap : TokenOf(s) \in Token
    /\ \A t \in Token : /\ <<t, "stable">> \in Swap /\ <<t, "native">> \in Swap
                        /\ PoolsOf(t) = {<<t, "stable">>, <<t, "native">>}
                        /\ \A s \in Swap : s \in PoolsOf(t) <=> TokenOf(s) = t
    /\ Swap # {}
<1>1. ASSUME NEW t \in Token
      PROVE  /\ <<t, "stable">> \in Swap /\ <<t, "native">> \in Swap
             /\ PoolsOf(t) = {<<t, "stable">>, <<t, "native">>}
             /\ \A s \in Swap : s \in PoolsOf(t) <=> TokenOf(s) = t
  BY DEF Swap, PoolsOf, TokenOf
<1>2. \A s \in Swap : TokenOf(s) \in Token
  BY DEF Swap, TokenOf
<1>3. Swap # {}
  BY <1>1, LiveSwapAssumption DEF LiveSwapAssumption
<1> QED BY <1>1, <1>2, <1>3

LEMMA NoLogFacts ==
    /\ NoLog \in LogState /\ NoLog.pc = "idle" /\ NoLog.todo = {} /\ ~NoLog.seen
    /\ \A w, S : NoLog \notin Coming(w, S) /\ NoLog \notin Writing(w, S) /\ NoLog \notin Done(w, S)
<1>1. (CHOOSE s \in Swap : TRUE) \in Swap
  BY SwapFacts
<1>2. NoLog \in LogState /\ NoLog.pc = "idle" /\ NoLog.todo = {} /\ ~NoLog.seen
  BY <1>1 DEF NoLog, LogState
<1> QED BY <1>2 DEF Coming, Writing, Done

\* One more in a table of counts.
LEMMA OneMore ==
    ASSUME NEW D, NEW f \in [D -> Nat], NEW d \in D, NEW g, g = [f EXCEPT ![d] = @ + 1]
    PROVE  g \in [D -> Nat] /\ g[d] = f[d] + 1 /\ \A e \in D \ {d} : g[e] = f[e]
  OBVIOUS

-----------------------------------------------------------------------------
LiveInv == WatchTypeOK /\ FromTable /\ SeenLogs /\ SwapTypes /\ Counts

\* A step that writes nothing: the logs under way stay what is delivered and not counted.
LEMMA NothingWritten ==
    ASSUME SwapTypes, SwapTypes', Counts,
           UNCHANGED <<rowsOf, poolCount, tokenCount, alive, writeFaults>>,
           delivered' >= delivered,
           \A w \in Writes : \A S :
              /\ Number(Coming(w, S))' <= Number(Coming(w, S)) + (delivered' - delivered)
              /\ Number(Done(w, S))' <= Number(Done(w, S)),
           \A S : /\ Number(Writing("token", S))' - Number(Writing("token", S))
                       = Number(Writing("pool", S))' - Number(Writing("pool", S))
                  /\ Number(Writing("row", S))' - Number(Writing("row", S))
                       = Number(Writing("pool", S))' - Number(Writing("pool", S))
    PROVE  Counts'
<1>1. \A R : Number(R) \in Nat /\ Number(R)' \in Nat
  BY NumberNat, NumberNatLater
<1>2. \A w \in {"row", "pool", "token"} : \A S :
              /\ Number(Coming(w, S))' <= Number(Coming(w, S)) + (delivered' - delivered)
              /\ Number(Done(w, S))' <= Number(Done(w, S))
  BY DEF Writes
<1>3. delivered \in Nat /\ delivered' \in Nat
  BY LiveSwapAssumption DEF SwapTypes, LiveSwapAssumption
<1>4. ASSUME NEW s \in Swap
      PROVE  /\ rowsOf'[s] + Number(Coming("row", {s}))' <= delivered'
             /\ poolCount'[s] + Number(Coming("pool", {s}))' <= delivered'
  <2>1. rowsOf[s] \in Nat /\ poolCount[s] \in Nat
    BY DEF SwapTypes
  <2>2. /\ rowsOf[s] + Number(Coming("row", {s})) <= delivered
        /\ poolCount[s] + Number(Coming("pool", {s})) <= delivered
    BY DEF Counts
  <2> QED BY <1>1, <1>2, <1>3, <2>1, <2>2
<1>5. ASSUME NEW t \in Token
      PROVE  /\ tokenCount'[t] + Number(Coming("token", PoolsOf(t)))' <= delivered'
             /\ alive'[t] + Number(Done("token", PoolsOf(t)))' <= tokenCount'[t]
             /\ alive'[t] + Number(Done("pool", PoolsOf(t)))' <= CountOf(poolCount', t)
  <2>1. tokenCount[t] \in Nat /\ alive[t] \in Nat /\ CountOf(poolCount, t) \in Nat
    BY SwapFacts DEF SwapTypes, CountOf
  <2>2. /\ tokenCount[t] + Number(Coming("token", PoolsOf(t))) <= delivered
        /\ alive[t] + Number(Done("token", PoolsOf(t))) <= tokenCount[t]
        /\ alive[t] + Number(Done("pool", PoolsOf(t))) <= CountOf(poolCount, t)
    BY DEF Counts
  <2> QED BY <1>1, <1>2, <1>3, <2>1, <2>2
<1>6. ASSUME writeFaults' = 0, NEW t \in Token
      PROVE  CountOf(poolCount', t) + Number(Writing("pool", PoolsOf(t)))'
               = tokenCount'[t] + Number(Writing("token", PoolsOf(t)))'
  <2>1. tokenCount[t] \in Nat /\ CountOf(poolCount, t) \in Nat
    BY SwapFacts DEF SwapTypes, CountOf
  <2>2. CountOf(poolCount, t) + Number(Writing("pool", PoolsOf(t)))
           = tokenCount[t] + Number(Writing("token", PoolsOf(t)))
    BY <1>6 DEF Counts
  <2> QED BY <1>1, <2>1, <2>2
<1>7. ASSUME writeFaults' = 0, NEW s \in Swap
      PROVE  rowsOf'[s] + Number(Writing("row", {s}))'
               <= poolCount'[s] + Number(Writing("pool", {s}))'
  <2>1. rowsOf[s] \in Nat /\ poolCount[s] \in Nat
    BY DEF SwapTypes
  <2>2. rowsOf[s] + Number(Writing("row", {s})) <= poolCount[s] + Number(Writing("pool", {s}))
    BY <1>7 DEF Counts
  <2> QED BY <1>1, <2>1, <2>2
<1> QED BY <1>4, <1>5, <1>6, <1>7 DEF Counts

\* The types of a log that moves.
LEMMA LogTypes ==
    ASSUME SwapTypes, NEW l \in Log, NEW r \in LogState, log' = [log EXCEPT ![l] = r],
           r.todo # {} <=> r.pc = "write"
    PROVE  /\ log' \in [Log -> LogState]
           /\ \A k \in Log : log'[k].todo # {} <=> log'[k].pc = "write"
           /\ log'[l] = r /\ \A k \in Log \ {l} : log'[k] = log[k]
  BY DEF SwapTypes

LEMMA SeenKept ==
    ASSUME SwapTypes, SeenLogs, NEW l \in Log, NEW r \in LogState, log' = [log EXCEPT ![l] = r],
           UNCHANGED watchVars, r.seen => Seen(TokenOf(r.swap))
    PROVE  SeenLogs'
<1>1. \A u : Seen(u)' = Seen(u)
  BY DEF watchVars, Seen
<1>2. \A k \in Log : log'[k] = IF k = l THEN r ELSE log[k]
  BY DEF SwapTypes
<1> QED BY <1>1, <1>2 DEF SeenLogs

LEMMA ArriveKeeps ==
    ASSUME LiveInv, NEW l \in Log, NEW s \in Swap, Arrive(l, s) PROVE LiveInv'
<1> USE DEF LiveInv
<1> DEFINE r == [pc |-> "lookup", swap |-> s, todo |-> {},
                 seen |-> IsWatchedToken(TokenOf(s)), ok |-> TRUE]
<1>1. /\ log[l].pc = "idle" /\ delivered < MaxDeliveries /\ delivered' = delivered + 1
      /\ log' = [log EXCEPT ![l] = r]
      /\ UNCHANGED <<watchVars, price, rowsOf, poolCount, tokenCount, alive, writeFaults>>
  BY DEF Arrive
<1>2. IsWatchedToken(TokenOf(s)) \in BOOLEAN
  BY Zenon DEF IsWatchedToken
<1>3. r \in LogState /\ r.pc = "lookup" /\ r.swap = s /\ r.todo = {}
  BY <1>2 DEF LogState
<1>4. r.seen => Seen(TokenOf(r.swap))
  <2>1. r.seen = IsWatchedToken(TokenOf(s)) /\ r.swap = s
    OBVIOUS
  <2>2. IsWatchedToken(TokenOf(s)) => Seen(TokenOf(s))
    BY DEF IsWatchedToken, FromTable, Seen
  <2> QED BY <2>1, <2>2, Zenon
<1>5. \A S : /\ r \notin Writing("row", S) /\ r \notin Writing("pool", S)
             /\ r \notin Writing("token", S)
             /\ \A w : r \notin Done(w, S)
  BY <1>3 DEF Writing, Done
<1>6. log[l].todo = {} /\ log \in [Log -> LogState]
  BY <1>1 DEF SwapTypes
<1>7. \A w, S : log[l] \notin Coming(w, S) /\ log[l] \notin Writing(w, S) /\ log[l] \notin Done(w, S)
  BY <1>1, <1>6 DEF Coming, Writing, Done
<1> HIDE DEF r
<1>8. \A R : Number(R)' = Number(R) + OneIn(r, R) - OneIn(log[l], R)
  BY <1>1, <1>3, <1>6, LogMoves
<1>9. \A R : Number(R) \in Nat /\ OneIn(r, R) \in 0..1
  BY NumberNat DEF OneIn
<1>10. SwapTypes'
  <2>1. /\ log' \in [Log -> LogState]
        /\ \A k \in Log : log'[k].todo # {} <=> log'[k].pc = "write"
    BY <1>1, <1>3, LogTypes
  <2>2. delivered' \in 0..MaxDeliveries
    BY <1>1, LiveSwapAssumption DEF SwapTypes, LiveSwapAssumption
  <2> QED BY <1>1, <2>1, <2>2 DEF SwapTypes
<1>11. Counts'
  <2>1. \A w, S : /\ Number(Coming(w, S))' <= Number(Coming(w, S)) + 1
                  /\ Number(Done(w, S))' <= Number(Done(w, S))
                  /\ Number(Writing("row", S))' = Number(Writing("row", S))
                  /\ Number(Writing("pool", S))' = Number(Writing("pool", S))
                  /\ Number(Writing("token", S))' = Number(Writing("token", S))
    BY <1>5, <1>7, <1>8, <1>9 DEF OneIn
  <2>2. delivered' - delivered = 1 /\ delivered' >= delivered
    BY <1>1, LiveSwapAssumption DEF SwapTypes, LiveSwapAssumption
  <2>3. \A S : /\ Number(Writing("token", S))' - Number(Writing("token", S))
                       = Number(Writing("pool", S))' - Number(Writing("pool", S))
               /\ Number(Writing("row", S))' - Number(Writing("row", S))
                       = Number(Writing("pool", S))' - Number(Writing("pool", S))
    BY <1>9, <2>1
  <2> QED BY <1>1, <1>10, <2>1, <2>2, <2>3, NothingWritten
<1>12. SeenLogs'
  BY <1>1, <1>3, <1>4, SeenKept
<1>13. WatchTypeOK' /\ FromTable'
  BY <1>1 DEF watchVars, WatchTypeOK, FromTable
<1> QED BY <1>10, <1>11, <1>12, <1>13

\* A log that is given up, or waits, or begins its three writes.
LEMMA QuietMoveKeeps ==
    ASSUME LiveInv, NEW l \in Log, NEW r \in LogState, log' = [log EXCEPT ![l] = r],
           r.todo # {} <=> r.pc = "write", ~r.seen \/ (r.seen = log[l].seen /\ r.swap = log[l].swap),
           UNCHANGED <<watchVars, rowsOf, poolCount, tokenCount, alive, delivered, writeFaults>>,
           price' \in [known : BOOLEAN, fresh : BOOLEAN],
           \A w \in Writes : \A S :
              /\ r \in Coming(w, S) => log[l] \in Coming(w, S)
              /\ r \in Done(w, S) => log[l] \in Done(w, S),
           \A w \in Writes : \A S :
              OneIn(r, Writing(w, S)) - OneIn(log[l], Writing(w, S))
                = OneIn(r, Writing("pool", S)) - OneIn(log[l], Writing("pool", S))
    PROVE  LiveInv'
<1> USE DEF LiveInv
<1>1. \A R : Number(R)' = Number(R) + OneIn(r, R) - OneIn(log[l], R)
  BY LogMoves DEF SwapTypes
<1>2. \A R : Number(R) \in Nat /\ Number(R)' \in Nat /\ OneIn(r, R) \in 0..1 /\ OneIn(log[l], R) \in 0..1
  BY NumberNat, NumberNatLater DEF OneIn
<1>3. SwapTypes'
  <2>1. /\ log' \in [Log -> LogState]
        /\ \A k \in Log : log'[k].todo # {} <=> log'[k].pc = "write"
    BY LogTypes
  <2> QED BY <2>1 DEF SwapTypes
<1>4. Counts'
  <2>1. \A w \in Writes : \A S : /\ Number(Coming(w, S))' <= Number(Coming(w, S))
                                 /\ Number(Done(w, S))' <= Number(Done(w, S))
    BY <1>1, <1>2 DEF OneIn
  <2>2. delivered' - delivered = 0 /\ delivered' >= delivered /\ delivered \in Nat
    BY LiveSwapAssumption DEF SwapTypes, LiveSwapAssumption
  <2>3. "token" \in Writes /\ "row" \in Writes
    BY DEF Writes
  <2>4. \A S : /\ Number(Writing("token", S))' - Number(Writing("token", S))
                       = Number(Writing("pool", S))' - Number(Writing("pool", S))
               /\ Number(Writing("row", S))' - Number(Writing("row", S))
                       = Number(Writing("pool", S))' - Number(Writing("pool", S))
    BY <1>1, <1>2, <2>3
  <2>5. \A w \in Writes : \A S :
            /\ Number(Coming(w, S))' <= Number(Coming(w, S)) + (delivered' - delivered)
            /\ Number(Done(w, S))' <= Number(Done(w, S))
    BY <1>2, <2>1, <2>2
  <2> QED BY <1>3, <2>2, <2>4, <2>5, NothingWritten
<1>5. SeenLogs'
  <2>1. r.seen => Seen(TokenOf(r.swap))
    <3>1. log[l].seen => Seen(TokenOf(log[l].swap))
      BY DEF SeenLogs
    <3> QED BY <3>1, Zenon
  <2>2. UNCHANGED watchVars
    OBVIOUS
  <2> QED BY <2>1, <2>2, SeenKept
<1>6. WatchTypeOK' /\ FromTable'
  BY DEF watchVars, WatchTypeOK, FromTable
<1> QED BY <1>3, <1>4, <1>5, <1>6

LEMMA RefuseKeeps ==
    ASSUME LiveInv, NEW l \in Log, Refuse(l), log[l].todo = {},
           UNCHANGED <<watchVars, rowsOf, poolCount, tokenCount, alive, delivered, writeFaults>>,
           price' \in [known : BOOLEAN, fresh : BOOLEAN]
    PROVE  LiveInv'
<1>1. log' = [log EXCEPT ![l] = NoLog]
  BY DEF Refuse
<1>2. \A w, S : log[l] \notin Writing(w, S)
  BY DEF Writing
<1>3. \A w \in Writes : \A S :
              OneIn(NoLog, Writing(w, S)) - OneIn(log[l], Writing(w, S))
                = OneIn(NoLog, Writing("pool", S)) - OneIn(log[l], Writing("pool", S))
  BY <1>2, NoLogFacts DEF OneIn
<1> QED BY <1>1, <1>3, NoLogFacts, QuietMoveKeeps

LEMMA CheckWatchlistKeeps ==
    ASSUME LiveInv, NEW l \in Log, CheckWatchlist(l) PROVE LiveInv'
<1>1. /\ log[l].pc = "lookup"
      /\ UNCHANGED <<watchVars, price, rowsOf, poolCount, tokenCount, alive, delivered, writeFaults>>
  BY DEF CheckWatchlist
<1>2. log[l] \in LogState /\ log[l].todo = {} /\ price' \in [known : BOOLEAN, fresh : BOOLEAN]
  BY <1>1 DEF LiveInv, SwapTypes
<1>3. CASE Refuse(l)
  BY <1>1, <1>2, <1>3, RefuseKeeps
<1>4. CASE log' = [log EXCEPT ![l].pc = "price", ![l].seen = FALSE]
  <2> DEFINE r == [log[l] EXCEPT !.pc = "price", !.seen = FALSE]
  <2>1. log' = [log EXCEPT ![l] = r]
    BY <1>4 DEF LiveInv, SwapTypes
  <2>2. /\ r \in LogState /\ r.pc = "price" /\ r.swap = log[l].swap
        /\ r.todo = {} /\ ~r.seen
    BY <1>2 DEF LogState
  <2> HIDE DEF r
  <2>3. \A w, S : /\ r \in Coming(w, S) => log[l] \in Coming(w, S)
                  /\ r \notin Done(w, S)
                  /\ r \notin Writing(w, S) /\ log[l] \notin Writing(w, S)
    BY <1>1, <1>2, <2>2 DEF Coming, Writing, Done
  <2>4. \A w \in Writes : \A S :
              OneIn(r, Writing(w, S)) - OneIn(log[l], Writing(w, S))
                = OneIn(r, Writing("pool", S)) - OneIn(log[l], Writing("pool", S))
    BY <2>3 DEF OneIn
  <2> QED BY <1>1, <1>2, <2>1, <2>2, <2>3, <2>4, QuietMoveKeeps
<1> QED BY <1>3, <1>4 DEF CheckWatchlist

LEMMA GetTokenPricesKeeps ==
    ASSUME LiveInv, NEW l \in Log, GetTokenPrices(l) PROVE LiveInv'
<1>1. /\ log[l].pc = "price"
      /\ price' \in IF price.fresh THEN {price} ELSE {price} \cup [known : BOOLEAN, fresh : {TRUE}]
      /\ UNCHANGED <<watchVars, rowsOf, poolCount, tokenCount, alive, delivered, writeFaults>>
  BY DEF GetTokenPrices
<1>2. log[l] \in LogState /\ log[l].todo = {} /\ price \in [known : BOOLEAN, fresh : BOOLEAN]
  BY <1>1 DEF LiveInv, SwapTypes
<1>3. price' \in [known : BOOLEAN, fresh : BOOLEAN]
  <2>1. [known : BOOLEAN, fresh : {TRUE}] \subseteq [known : BOOLEAN, fresh : BOOLEAN]
    OBVIOUS
  <2> QED BY <1>1, <1>2, <2>1, Zenon
<1>4. CASE Refuse(l)
  BY <1>1, <1>2, <1>3, <1>4, RefuseKeeps
<1>5. CASE log' = [log EXCEPT ![l].pc = "write", ![l].todo = Writes]
  <2> DEFINE r == [log[l] EXCEPT !.pc = "write", !.todo = Writes]
  <2>1. log' = [log EXCEPT ![l] = r]
    BY <1>5 DEF LiveInv, SwapTypes
  <2>2. /\ r \in LogState /\ r.pc = "write" /\ r.swap = log[l].swap
        /\ r.todo = Writes /\ r.seen = log[l].seen
    BY <1>2 DEF LogState
  <2>3. Writes # {}
    BY DEF Writes
  <2> HIDE DEF r
  <2>4. \A w \in Writes : \A S :
           /\ r \in Coming(w, S) => log[l] \in Coming(w, S)
           /\ r \notin Done(w, S)
           /\ r \in Writing(w, S) <=> r.swap \in S
           /\ log[l] \notin Writing(w, S)
    BY <1>1, <1>2, <2>2 DEF Coming, Writing, Done
  <2>5. "pool" \in Writes
    BY DEF Writes
  <2>6. \A w \in Writes : \A S :
              OneIn(r, Writing(w, S)) - OneIn(log[l], Writing(w, S))
                = OneIn(r, Writing("pool", S)) - OneIn(log[l], Writing("pool", S))
    BY <2>4, <2>5 DEF OneIn
  <2> QED BY <1>1, <1>3, <2>1, <2>2, <2>3, <2>4, <2>6, QuietMoveKeeps
<1> QED BY <1>4, <1>5 DEF GetTokenPrices

-----------------------------------------------------------------------------
\* A write of log l that ends: what becomes of the log, and the event of the last one.
After(q, w, good) ==
    IF q.todo = {w} THEN NoLog ELSE [q EXCEPT !.todo = @ \ {w}, !.ok = @ /\ good]
Emits(q, w, good) == q.todo = {w} /\ q.ok /\ good

LEMMA AfterFacts ==
    ASSUME NEW q \in LogState, q.pc = "write", NEW w \in Writes, w \in q.todo,
           NEW good \in BOOLEAN, NEW r, r = After(q, w, good)
    PROVE  /\ r \in LogState /\ (r.todo # {} <=> r.pc = "write")
           /\ ~r.seen \/ (r.seen = q.seen /\ r.swap = q.swap)
           /\ \A x, S : /\ r \in Coming(x, S) <=> q \in Coming(x, S) /\ x # w
                        /\ r \in Writing(x, S) <=> q \in Writing(x, S) /\ x # w
           /\ \A S : /\ q \in Coming(w, S) <=> q.swap \in S
                     /\ q \in Writing(w, S) <=> q.swap \in S
                     /\ q \notin Done(w, S)
           /\ \A x, S : r \in Done(x, S) => /\ ~Emits(q, w, good) /\ good /\ q.swap \in S
                                            /\ x # w => q \in Done(x, S)
           /\ \A x \in Writes : \A S :
                 Emits(q, w, good) /\ x # w /\ q.swap \in S => q \in Done(x, S)
           /\ Emits(q, w, good) => good
<1>1. q.ok \in BOOLEAN /\ q.seen \in BOOLEAN /\ q.swap \in Swap /\ q.todo \in SUBSET Writes
  BY DEF LogState
<1>2. Emits(q, w, good) => q.todo = {w} /\ q.ok /\ good
  BY DEF Emits
<1>3. CASE q.todo = {w}
  <2>1. r = NoLog
    BY <1>3 DEF After
  <2>2. \A x \in Writes : \A S : q.ok /\ x # w /\ q.swap \in S => q \in Done(x, S)
    BY <1>1, <1>3 DEF Done
  <2>3. \A x, S : q \in Writing(x, S) => x = w
    BY <1>3 DEF Writing
  <2>4. \A x, S : q \in Coming(x, S) => x = w
    BY <1>3 DEF Coming
  <2>5. \A S : /\ q \in Coming(w, S) <=> q.swap \in S
               /\ q \in Writing(w, S) <=> q.swap \in S
               /\ q \notin Done(w, S)
    BY DEF Coming, Writing, Done
  <2> QED BY <1>2, <2>1, <2>2, <2>3, <2>4, <2>5, NoLogFacts
<1>4. CASE q.todo # {w}
  <2>1. r = [q EXCEPT !.todo = q.todo \ {w}, !.ok = q.ok /\ good]
    BY <1>4 DEF After
  <2>2. (q.ok /\ good) \in BOOLEAN
    OBVIOUS
  <2> DEFINE rest == q.todo \ {w}
             well == q.ok /\ good
  <2>a. r = [q EXCEPT !.todo = rest, !.ok = well] /\ rest \in SUBSET Writes /\ well \in BOOLEAN
    BY <1>1, <2>1, <2>2
  <2>b. /\ r \in LogState /\ r.pc = "write" /\ r.swap = q.swap /\ r.seen = q.seen
        /\ r.todo = rest /\ r.ok = well
    <3> HIDE DEF rest, well
    <3> QED BY <2>a DEF LogState
  <2>3. /\ r \in LogState /\ r.pc = "write" /\ r.swap = q.swap /\ r.seen = q.seen
        /\ r.todo = q.todo \ {w} /\ r.ok = (q.ok /\ good)
    BY <2>b
  <2> HIDE DEF rest, well
  <2>4. r.todo # {}
    BY <1>4, <2>3
  <2>5. \A x, S : /\ r \in Coming(x, S) <=> q \in Coming(x, S) /\ x # w
                  /\ r \in Writing(x, S) <=> q \in Writing(x, S) /\ x # w
    BY <2>3 DEF Coming, Writing
  <2>6. \A S : /\ q \in Coming(w, S) <=> q.swap \in S
               /\ q \in Writing(w, S) <=> q.swap \in S
               /\ q \notin Done(w, S)
    BY DEF Coming, Writing, Done
  <2>7. r.ok <=> q.ok /\ good
    BY <2>3
  <2>8. \A x, S : r \in Done(x, S) => /\ r.ok /\ q.swap \in S /\ x \notin r.todo
    BY <2>3 DEF Done
  <2>9. \A x, S : q.swap \in S /\ x \notin q.todo /\ q.ok => q \in Done(x, S)
    BY DEF Done
  <2>10. ~Emits(q, w, good)
    BY <1>2, <1>4
  <2> QED BY <2>3, <2>4, <2>5, <2>6, <2>7, <2>8, <2>9, <2>10
<1> QED BY <1>3, <1>4

\* The counting that all four ends of a write share.
LEMMA EndsFacts ==
    ASSUME LiveInv, NEW l \in Log, NEW w \in Writes, w \in log[l].todo, NEW good \in BOOLEAN,
           Ends(l, w, good), EmitSwap(l, w, good)
    PROVE  /\ log' \in [Log -> LogState]
           /\ \A k \in Log : log'[k].todo # {} <=> log'[k].pc = "write"
           /\ UNCHANGED watchVars => SeenLogs'
           /\ alive' \in [Token -> Nat]
           /\ log[l].swap \in Swap
           /\ \A x \in Writes : \A S :
                 /\ Number(Coming(x, S))'
                      = Number(Coming(x, S)) - (IF x = w THEN OneIn(log[l].swap, S) ELSE 0)
                 /\ Number(Writing(x, S))'
                      = Number(Writing(x, S)) - (IF x = w THEN OneIn(log[l].swap, S) ELSE 0)
           /\ \A x \in Writes : \A t \in Token :
                 alive'[t] + Number(Done(x, PoolsOf(t)))'
                   <= alive[t] + Number(Done(x, PoolsOf(t)))
                        + (IF x = w /\ good THEN OneIn(log[l].swap, PoolsOf(t)) ELSE 0)
<1> USE DEF LiveInv
<1> DEFINE q == log[l]
           r == After(q, w, good)
<1>1. q \in LogState /\ q.pc = "write" /\ q.swap \in Swap /\ log \in [Log -> LogState]
  BY DEF SwapTypes, LogState
<1>2. log' = [log EXCEPT ![l] = r]
  BY <1>1 DEF Ends, After
<1> HIDE DEF r, q
<1>3. /\ r \in LogState /\ (r.todo # {} <=> r.pc = "write")
      /\ ~r.seen \/ (r.seen = q.seen /\ r.swap = q.swap)
      /\ \A x, S : /\ r \in Coming(x, S) <=> q \in Coming(x, S) /\ x # w
                   /\ r \in Writing(x, S) <=> q \in Writing(x, S) /\ x # w
      /\ \A S : /\ q \in Coming(w, S) <=> q.swap \in S
                /\ q \in Writing(w, S) <=> q.swap \in S
                /\ q \notin Done(w, S)
      /\ \A x, S : r \in Done(x, S) => /\ ~Emits(q, w, good) /\ good /\ q.swap \in S
                                       /\ x # w => q \in Done(x, S)
      /\ \A x \in Writes : \A S :
            Emits(q, w, good) /\ x # w /\ q.swap \in S => q \in Done(x, S)
      /\ Emits(q, w, good) => good
  BY <1>1, AfterFacts DEF r, q
<1>4. \A R : Number(R)' = Number(R) + OneIn(r, R) - OneIn(q, R)
  BY <1>1, <1>2, <1>3, LogMoves DEF q
<1>5. \A R : Number(R) \in Nat /\ OneIn(r, R) \in 0..1 /\ OneIn(q, R) \in 0..1
  BY NumberNat DEF OneIn
<1>6. /\ log' \in [Log -> LogState]
      /\ \A k \in Log : log'[k].todo # {} <=> log'[k].pc = "write"
  BY <1>2, <1>3, LogTypes
<1>7. UNCHANGED watchVars => SeenLogs'
  <2>1. r.seen => Seen(TokenOf(r.swap))
    <3>1. q.seen => Seen(TokenOf(q.swap))
      BY DEF SeenLogs, q
    <3> QED BY <1>3, <3>1, Zenon
  <2> QED BY <1>2, <1>3, <2>1, SeenKept
<1>8. /\ alive' \in [Token -> Nat]
      /\ \A t \in Token :
            alive'[t] = alive[t] + (IF Emits(q, w, good) THEN OneIn(q.swap, PoolsOf(t)) ELSE 0)
  <2>1. TokenOf(q.swap) \in Token /\ alive \in [Token -> Nat]
    BY <1>1, SwapFacts DEF SwapTypes
  <2>2. \A t \in Token : q.swap \in PoolsOf(t) <=> TokenOf(q.swap) = t
    BY <1>1, SwapFacts
  <2>3. CASE Emits(q, w, good)
    <3>1. alive' = [alive EXCEPT ![TokenOf(q.swap)] = @ + 1]
      BY <2>3 DEF EmitSwap, Emits, q
    <3>2. /\ alive' \in [Token -> Nat] /\ alive'[TokenOf(q.swap)] = alive[TokenOf(q.swap)] + 1
          /\ \A e \in Token \ {TokenOf(q.swap)} : alive'[e] = alive[e]
      BY <2>1, <3>1, OneMore
    <3> QED BY <2>1, <2>2, <2>3, <3>2 DEF OneIn
  <2>4. CASE ~Emits(q, w, good)
    <3>1. alive' = alive
      BY <2>4 DEF EmitSwap, Emits, q
    <3> QED BY <2>1, <2>4, <3>1
  <2> QED BY <2>3, <2>4
<1>9. ASSUME NEW x \in Writes, NEW S
      PROVE  /\ Number(Coming(x, S))'
                  = Number(Coming(x, S)) - (IF x = w THEN OneIn(q.swap, S) ELSE 0)
             /\ Number(Writing(x, S))'
                  = Number(Writing(x, S)) - (IF x = w THEN OneIn(q.swap, S) ELSE 0)
  BY <1>3, <1>4, <1>5 DEF OneIn
<1>10. ASSUME NEW x \in Writes, NEW t \in Token
       PROVE  alive'[t] + Number(Done(x, PoolsOf(t)))'
                <= alive[t] + Number(Done(x, PoolsOf(t)))
                     + (IF x = w /\ good THEN OneIn(q.swap, PoolsOf(t)) ELSE 0)
  <2> DEFINE D == Done(x, PoolsOf(t))
             e == IF Emits(q, w, good) THEN OneIn(q.swap, PoolsOf(t)) ELSE 0
  <2>1. Number(D)' = Number(D) + OneIn(r, D) - OneIn(q, D) /\ alive'[t] = alive[t] + e
    BY <1>4, <1>8
  <2>2. e + OneIn(r, D) - OneIn(q, D) <= IF x = w /\ good THEN OneIn(q.swap, PoolsOf(t)) ELSE 0
    <3>1. r \in D => ~Emits(q, w, good) /\ good /\ q.swap \in PoolsOf(t) /\ (x # w => q \in D)
      BY <1>3
    <3>2. Emits(q, w, good) /\ x # w /\ q.swap \in PoolsOf(t) => q \in D
      BY <1>3
    <3>3. x = w => q \notin D
      BY <1>3
    <3>4. Emits(q, w, good) => good
      BY <1>3
    <3> HIDE DEF D
    <3> QED BY <3>1, <3>2, <3>3, <3>4 DEF OneIn
  <2>3. alive[t] \in Nat /\ Number(D) \in Nat /\ OneIn(r, D) \in 0..1 /\ OneIn(q, D) \in 0..1 /\ e \in 0..1
    BY <1>5 DEF SwapTypes, OneIn
  <2> HIDE DEF D, e
  <2> DEFINE y == IF x = w /\ good THEN OneIn(q.swap, PoolsOf(t)) ELSE 0
  <2>4. y \in 0..1
    BY DEF OneIn
  <2>5. e + OneIn(r, D) - OneIn(q, D) <= y
    BY <2>2
  <2> HIDE DEF y
  <2>6. alive'[t] + Number(D)' <= alive[t] + Number(D) + y
    BY <2>1, <2>3, <2>4, <2>5
  <2> QED BY <2>6 DEF D, y
<1> QED BY <1>1, <1>6, <1>7, <1>8, <1>9, <1>10 DEF q

\* What the writes that ended well add to the table of writes v, for the swaps of S.
Added(l, wrote, v, S) == IF v \in wrote THEN OneIn(log[l].swap, S) ELSE 0

LEMMA WriteKeeps ==
    ASSUME LiveInv, NEW l \in Log, NEW w \in Writes, w \in log[l].todo, NEW good \in BOOLEAN,
           Ends(l, w, good), EmitSwap(l, w, good), NEW wrote, wrote = IF good THEN {w} ELSE {},
           UNCHANGED <<watchVars, price, delivered>>,
           writeFaults' \in 0..MaxDbFaults, good \/ writeFaults' # 0,
           writeFaults' = 0 => writeFaults = 0,
           rowsOf' \in [Swap -> Nat], poolCount' \in [Swap -> Nat], tokenCount' \in [Token -> Nat],
           \A s \in Swap : /\ rowsOf'[s] <= rowsOf[s] + Added(l, wrote, "row", {s})
                           /\ poolCount'[s] = poolCount[s] + Added(l, wrote, "pool", {s}),
           \A t \in Token :
              /\ CountOf(poolCount', t) = CountOf(poolCount, t) + Added(l, wrote, "pool", PoolsOf(t))
              /\ tokenCount'[t] = tokenCount[t] + Added(l, wrote, "token", PoolsOf(t))
    PROVE  LiveInv'
<1> USE DEF LiveInv
<1> DEFINE h(S) == OneIn(log[l].swap, S)
<1>1. /\ log' \in [Log -> LogState]
      /\ \A k \in Log : log'[k].todo # {} <=> log'[k].pc = "write"
      /\ UNCHANGED watchVars => SeenLogs'
      /\ alive' \in [Token -> Nat]
      /\ log[l].swap \in Swap
      /\ \A x \in Writes : \A S :
            /\ Number(Coming(x, S))' = Number(Coming(x, S)) - (IF x = w THEN h(S) ELSE 0)
            /\ Number(Writing(x, S))' = Number(Writing(x, S)) - (IF x = w THEN h(S) ELSE 0)
      /\ \A x \in Writes : \A t \in Token :
            alive'[t] + Number(Done(x, PoolsOf(t)))'
              <= alive[t] + Number(Done(x, PoolsOf(t)))
                   + (IF x = w /\ good THEN h(PoolsOf(t)) ELSE 0)
  BY EndsFacts
<1>2. \A S : h(S) \in 0..1
  BY DEF OneIn
<1>3. \A R : Number(R) \in Nat /\ Number(R)' \in Nat
  BY NumberNat, NumberNatLater
<1>4. "row" \in Writes /\ "pool" \in Writes /\ "token" \in Writes
  BY DEF Writes
<1>5. delivered \in Nat /\ delivered' = delivered
  BY LiveSwapAssumption DEF SwapTypes, LiveSwapAssumption
<1>6. SwapTypes'
  BY <1>1 DEF SwapTypes
<1> HIDE DEF h
<1>7. ASSUME NEW s \in Swap
      PROVE  /\ rowsOf'[s] + Number(Coming("row", {s}))' <= delivered'
             /\ poolCount'[s] + Number(Coming("pool", {s}))' <= delivered'
  <2>1. rowsOf[s] \in Nat /\ poolCount[s] \in Nat /\ rowsOf'[s] \in Nat /\ poolCount'[s] \in Nat
    BY DEF SwapTypes
  <2>2. /\ rowsOf[s] + Number(Coming("row", {s})) <= delivered
        /\ poolCount[s] + Number(Coming("pool", {s})) <= delivered
    BY DEF Counts
  <2>3. /\ Number(Coming("row", {s}))'
             = Number(Coming("row", {s})) - (IF "row" = w THEN h({s}) ELSE 0)
        /\ Number(Coming("pool", {s}))'
             = Number(Coming("pool", {s})) - (IF "pool" = w THEN h({s}) ELSE 0)
    BY <1>1, <1>4
  <2>4. /\ rowsOf'[s] <= rowsOf[s] + (IF w = "row" /\ good THEN h({s}) ELSE 0)
        /\ poolCount'[s] = poolCount[s] + (IF w = "pool" /\ good THEN h({s}) ELSE 0)
    BY DEF Added, h
  <2>5. h({s}) \in 0..1
    BY <1>2
  <2> QED BY <1>3, <1>5, <2>1, <2>2, <2>3, <2>4, <2>5
<1>8. ASSUME NEW t \in Token
      PROVE  /\ tokenCount'[t] + Number(Coming("token", PoolsOf(t)))' <= delivered'
             /\ alive'[t] + Number(Done("token", PoolsOf(t)))' <= tokenCount'[t]
             /\ alive'[t] + Number(Done("pool", PoolsOf(t)))' <= CountOf(poolCount', t)
  <2>1. /\ tokenCount[t] \in Nat /\ alive[t] \in Nat /\ CountOf(poolCount, t) \in Nat
        /\ tokenCount'[t] \in Nat /\ alive'[t] \in Nat /\ CountOf(poolCount', t) \in Nat
    BY <1>1, SwapFacts DEF SwapTypes, CountOf
  <2>2. /\ tokenCount[t] + Number(Coming("token", PoolsOf(t))) <= delivered
        /\ alive[t] + Number(Done("token", PoolsOf(t))) <= tokenCount[t]
        /\ alive[t] + Number(Done("pool", PoolsOf(t))) <= CountOf(poolCount, t)
    BY DEF Counts
  <2>3. Number(Coming("token", PoolsOf(t)))'
           = Number(Coming("token", PoolsOf(t))) - (IF "token" = w THEN h(PoolsOf(t)) ELSE 0)
    BY <1>1, <1>4
  <2>4. /\ alive'[t] + Number(Done("token", PoolsOf(t)))'
             <= alive[t] + Number(Done("token", PoolsOf(t)))
                  + (IF "token" = w /\ good THEN h(PoolsOf(t)) ELSE 0)
        /\ alive'[t] + Number(Done("pool", PoolsOf(t)))'
             <= alive[t] + Number(Done("pool", PoolsOf(t)))
                  + (IF "pool" = w /\ good THEN h(PoolsOf(t)) ELSE 0)
    BY <1>1, <1>4
  <2>5. /\ CountOf(poolCount', t)
             = CountOf(poolCount, t) + (IF w = "pool" /\ good THEN h(PoolsOf(t)) ELSE 0)
        /\ tokenCount'[t] = tokenCount[t] + (IF w = "token" /\ good THEN h(PoolsOf(t)) ELSE 0)
    BY DEF Added, h
  <2>6. h(PoolsOf(t)) \in 0..1
    BY <1>2
  <2>7. tokenCount'[t] + Number(Coming("token", PoolsOf(t)))' <= delivered'
    BY <1>3, <1>5, <2>1, <2>2, <2>3, <2>5, <2>6
  <2>8. alive'[t] + Number(Done("token", PoolsOf(t)))' <= tokenCount'[t]
    BY <1>3, <2>1, <2>2, <2>4, <2>5, <2>6
  <2>9. alive'[t] + Number(Done("pool", PoolsOf(t)))' <= CountOf(poolCount', t)
    BY <1>3, <2>1, <2>2, <2>4, <2>5, <2>6
  <2> QED BY <2>7, <2>8, <2>9
<1>9. ASSUME writeFaults' = 0, NEW t \in Token
      PROVE  CountOf(poolCount', t) + Number(Writing("pool", PoolsOf(t)))'
               = tokenCount'[t] + Number(Writing("token", PoolsOf(t)))'
  <2>1. tokenCount[t] \in Nat /\ CountOf(poolCount, t) \in Nat
    BY SwapFacts DEF SwapTypes, CountOf
  <2>2. CountOf(poolCount, t) + Number(Writing("pool", PoolsOf(t)))
           = tokenCount[t] + Number(Writing("token", PoolsOf(t)))
    BY <1>9 DEF Counts
  <2>3. /\ Number(Writing("pool", PoolsOf(t)))'
             = Number(Writing("pool", PoolsOf(t))) - (IF "pool" = w THEN h(PoolsOf(t)) ELSE 0)
        /\ Number(Writing("token", PoolsOf(t)))'
             = Number(Writing("token", PoolsOf(t))) - (IF "token" = w THEN h(PoolsOf(t)) ELSE 0)
    BY <1>1, <1>4
  <2>4. /\ CountOf(poolCount', t)
             = CountOf(poolCount, t) + (IF w = "pool" THEN h(PoolsOf(t)) ELSE 0)
        /\ tokenCount'[t] = tokenCount[t] + (IF w = "token" THEN h(PoolsOf(t)) ELSE 0)
    BY <1>9 DEF Added, h
  <2>5. h(PoolsOf(t)) \in 0..1
    BY <1>2
  <2> QED BY <1>3, <2>1, <2>2, <2>3, <2>4, <2>5
<1>10. ASSUME writeFaults' = 0, NEW s \in Swap
       PROVE  rowsOf'[s] + Number(Writing("row", {s}))'
                <= poolCount'[s] + Number(Writing("pool", {s}))'
  <2>1. rowsOf[s] \in Nat /\ poolCount[s] \in Nat /\ rowsOf'[s] \in Nat /\ poolCount'[s] \in Nat
    BY DEF SwapTypes
  <2>2. rowsOf[s] + Number(Writing("row", {s})) <= poolCount[s] + Number(Writing("pool", {s}))
    BY <1>10 DEF Counts
  <2>3. /\ Number(Writing("row", {s}))'
             = Number(Writing("row", {s})) - (IF "row" = w THEN h({s}) ELSE 0)
        /\ Number(Writing("pool", {s}))'
             = Number(Writing("pool", {s})) - (IF "pool" = w THEN h({s}) ELSE 0)
    BY <1>1, <1>4
  <2>4. /\ rowsOf'[s] <= rowsOf[s] + (IF w = "row" THEN h({s}) ELSE 0)
        /\ poolCount'[s] = poolCount[s] + (IF w = "pool" THEN h({s}) ELSE 0)
    BY <1>10 DEF Added, h
  <2>5. h({s}) \in 0..1
    BY <1>2
  <2> QED BY <1>3, <2>1, <2>2, <2>3, <2>4, <2>5
<1>11. Counts'
  BY <1>7, <1>8, <1>9, <1>10 DEF Counts
<1>12. WatchTypeOK' /\ FromTable'
  BY DEF watchVars, WatchTypeOK, FromTable
<1> QED BY <1>1, <1>6, <1>11, <1>12

\* A table of counts that grows by one swap, or stays.
LEMMA PoolGrows ==
    ASSUME NEW f, NEW g, NEW q, f \in [Swap -> Nat], q \in Swap, g \in [Swap -> Nat],
           g[q] = f[q] + 1, \A e \in Swap \ {q} : g[e] = f[e]
    PROVE  /\ \A s \in Swap : g[s] = f[s] + OneIn(q, {s})
           /\ \A t \in Token : CountOf(g, t) = CountOf(f, t) + OneIn(q, PoolsOf(t))
<1>1. \A s \in Swap : g[s] = f[s] + OneIn(q, {s})
  BY DEF OneIn
<1>2. ASSUME NEW t \in Token
      PROVE  CountOf(g, t) = CountOf(f, t) + OneIn(q, PoolsOf(t))
  <2>1. /\ <<t, "stable">> \in Swap /\ <<t, "native">> \in Swap
        /\ PoolsOf(t) = {<<t, "stable">>, <<t, "native">>}
        /\ <<t, "stable">> # <<t, "native">>
    BY SwapFacts
  <2>2. CASE q = <<t, "stable">>
    BY <2>1, <2>2 DEF CountOf, OneIn
  <2>3. CASE q = <<t, "native">>
    BY <2>1, <2>3 DEF CountOf, OneIn
  <2>4. CASE q \notin PoolsOf(t)
    BY <2>1, <2>4 DEF CountOf, OneIn
  <2> QED BY <2>1, <2>2, <2>3, <2>4
<1> QED BY <1>1, <1>2

\* Nothing is added to the tables of other writes, and nothing by a write that fails.
LEMMA NothingAdded ==
    ASSUME LiveInv, NEW l, NEW wrote, NEW v, v \notin wrote
    PROVE  /\ \A S : Added(l, wrote, v, S) = 0
           /\ \A s \in Swap : rowsOf[s] \in Nat /\ poolCount[s] \in Nat
           /\ \A t \in Token : tokenCount[t] \in Nat /\ CountOf(poolCount, t) \in Nat
  BY SwapFacts DEF LiveInv, SwapTypes, CountOf, Added

LEMMA InsertSwapRowKeeps ==
    ASSUME LiveInv, NEW l \in Log, InsertSwapRow(l) PROVE LiveInv'
<1> DEFINE q == log[l].swap
<1>1. /\ "row" \in log[l].todo /\ Ends(l, "row", TRUE) /\ EmitSwap(l, "row", TRUE)
      /\ rowsOf' = [rowsOf EXCEPT ![q] = @ + 1] \/ UNCHANGED rowsOf
      /\ UNCHANGED <<watchVars, price, poolCount, tokenCount, delivered, writeFaults>>
  BY DEF InsertSwapRow
<1>2. "row" \in Writes /\ TRUE \in BOOLEAN
  BY DEF Writes
<1>3. /\ q \in Swap /\ rowsOf \in [Swap -> Nat] /\ poolCount \in [Swap -> Nat]
      /\ tokenCount \in [Token -> Nat] /\ writeFaults \in 0..MaxDbFaults
  BY DEF LiveInv, SwapTypes, LogState
<1>4. \A S : Added(l, {"row"}, "row", S) = OneIn(q, S) /\ OneIn(q, S) \in 0..1
  BY DEF Added, OneIn
<1>5. /\ rowsOf' \in [Swap -> Nat]
      /\ \A s \in Swap : rowsOf'[s] <= rowsOf[s] + Added(l, {"row"}, "row", {s})
  <2>1. CASE rowsOf' = [rowsOf EXCEPT ![q] = @ + 1]
    <3>1. rowsOf' \in [Swap -> Nat] /\ \A s \in Swap : rowsOf'[s] = rowsOf[s] + OneIn(q, {s})
      <4> HIDE DEF q
      <4>1. /\ rowsOf' \in [Swap -> Nat] /\ rowsOf'[q] = rowsOf[q] + 1
            /\ \A e \in Swap \ {q} : rowsOf'[e] = rowsOf[e]
        BY <1>3, <2>1
      <4> QED BY <1>3, <4>1, PoolGrows
    <3> HIDE DEF q
    <3> QED BY <1>3, <1>4, <3>1
  <2>2. CASE UNCHANGED rowsOf
    <3> HIDE DEF q
    <3> QED BY <1>3, <1>4, <2>2
  <2> QED BY <1>1, <2>1, <2>2
<1>6. /\ \A S : /\ Added(l, {"row"}, "pool", S) = 0 /\ Added(l, {"row"}, "token", S) = 0
      /\ \A s \in Swap : poolCount[s] \in Nat
      /\ \A t \in Token : tokenCount[t] \in Nat /\ CountOf(poolCount, t) \in Nat
  BY NothingAdded
<1>7. \A s \in Swap : /\ rowsOf'[s] <= rowsOf[s] + Added(l, {"row"}, "row", {s})
                      /\ poolCount'[s] = poolCount[s] + Added(l, {"row"}, "pool", {s})
  BY <1>1, <1>5, <1>6
<1>8. \A t \in Token :
         /\ CountOf(poolCount', t) = CountOf(poolCount, t) + Added(l, {"row"}, "pool", PoolsOf(t))
         /\ tokenCount'[t] = tokenCount[t] + Added(l, {"row"}, "token", PoolsOf(t))
  BY <1>1, <1>6
<1> QED BY <1>1, <1>2, <1>3, <1>5, <1>7, <1>8, WriteKeeps

LEMMA UpsertPool1minStatKeeps ==
    ASSUME LiveInv, NEW l \in Log, UpsertPool1minStat(l) PROVE LiveInv'
<1> DEFINE q == log[l].swap
<1>1. /\ "pool" \in log[l].todo /\ Ends(l, "pool", TRUE) /\ EmitSwap(l, "pool", TRUE)
      /\ poolCount' = [poolCount EXCEPT ![q] = @ + 1]
      /\ UNCHANGED <<watchVars, price, rowsOf, tokenCount, delivered, writeFaults>>
  BY DEF UpsertPool1minStat
<1>2. "pool" \in Writes /\ TRUE \in BOOLEAN
  BY DEF Writes
<1>3. /\ q \in Swap /\ rowsOf \in [Swap -> Nat] /\ poolCount \in [Swap -> Nat]
      /\ tokenCount \in [Token -> Nat] /\ writeFaults \in 0..MaxDbFaults
  BY DEF LiveInv, SwapTypes, LogState
<1>4. \A S : Added(l, {"pool"}, "pool", S) = OneIn(q, S)
  BY DEF Added
<1>5. /\ poolCount' \in [Swap -> Nat] /\ \A s \in Swap : poolCount'[s] = poolCount[s] + OneIn(q, {s})
      /\ \A t \in Token : CountOf(poolCount', t) = CountOf(poolCount, t) + OneIn(q, PoolsOf(t))
  <2>1. poolCount' = [poolCount EXCEPT ![q] = @ + 1]
    BY <1>1
  <2> HIDE DEF q
  <2>2. q \in Swap /\ poolCount \in [Swap -> Nat]
    BY <1>3
  <2>3. /\ poolCount' \in [Swap -> Nat] /\ poolCount'[q] = poolCount[q] + 1
        /\ \A e \in Swap \ {q} : poolCount'[e] = poolCount[e]
    BY <2>1, <2>2
  <2> QED BY <2>2, <2>3, PoolGrows
<1>6. /\ \A S : /\ Added(l, {"pool"}, "row", S) = 0 /\ Added(l, {"pool"}, "token", S) = 0
      /\ \A s \in Swap : rowsOf[s] \in Nat
      /\ \A t \in Token : tokenCount[t] \in Nat
  BY NothingAdded
<1>7. \A s \in Swap : /\ rowsOf'[s] <= rowsOf[s] + Added(l, {"pool"}, "row", {s})
                      /\ poolCount'[s] = poolCount[s] + Added(l, {"pool"}, "pool", {s})
  BY <1>1, <1>4, <1>5, <1>6
<1>8. \A t \in Token :
         /\ CountOf(poolCount', t) = CountOf(poolCount, t) + Added(l, {"pool"}, "pool", PoolsOf(t))
         /\ tokenCount'[t] = tokenCount[t] + Added(l, {"pool"}, "token", PoolsOf(t))
  <2>1. \A t \in Token : tokenCount'[t] = tokenCount[t] + Added(l, {"pool"}, "token", PoolsOf(t))
    BY <1>1, <1>6
  <2>2. \A t \in Token :
           CountOf(poolCount', t) = CountOf(poolCount, t) + Added(l, {"pool"}, "pool", PoolsOf(t))
    <3> HIDE DEF q
    <3> QED BY <1>4, <1>5
  <2> QED BY <2>1, <2>2
<1>9. /\ rowsOf' \in [Swap -> Nat] /\ poolCount' \in [Swap -> Nat]
      /\ tokenCount' \in [Token -> Nat] /\ writeFaults' \in 0..MaxDbFaults
      /\ writeFaults' = 0 => writeFaults = 0
  BY <1>1, <1>3, <1>5
<1>10. {"pool"} = IF TRUE THEN {"pool"} ELSE {}
  OBVIOUS
<1> HIDE DEF q
<1> QED BY <1>1, <1>2, <1>7, <1>8, <1>9, <1>10, WriteKeeps, ZenonT(30)

LEMMA UpsertToken1minStatKeeps ==
    ASSUME LiveInv, NEW l \in Log, UpsertToken1minStat(l) PROVE LiveInv'
<1> DEFINE q == log[l].swap
<1>1. /\ "token" \in log[l].todo /\ Ends(l, "token", TRUE) /\ EmitSwap(l, "token", TRUE)
      /\ tokenCount' = [tokenCount EXCEPT ![TokenOf(q)] = @ + 1]
      /\ UNCHANGED <<watchVars, price, rowsOf, poolCount, delivered, writeFaults>>
  BY DEF UpsertToken1minStat
<1>2. "token" \in Writes /\ TRUE \in BOOLEAN
  BY DEF Writes
<1>3. /\ q \in Swap /\ rowsOf \in [Swap -> Nat] /\ poolCount \in [Swap -> Nat]
      /\ tokenCount \in [Token -> Nat] /\ writeFaults \in 0..MaxDbFaults
  BY DEF LiveInv, SwapTypes, LogState
<1>4. \A S : Added(l, {"token"}, "token", S) = OneIn(q, S)
  BY DEF Added
<1>5. /\ tokenCount' \in [Token -> Nat]
      /\ \A t \in Token : tokenCount'[t] = tokenCount[t] + OneIn(q, PoolsOf(t))
  <2>1. tokenCount' = [tokenCount EXCEPT ![TokenOf(q)] = @ + 1]
    BY <1>1
  <2> HIDE DEF q
  <2>2. q \in Swap /\ tokenCount \in [Token -> Nat]
    BY <1>3
  <2>3. TokenOf(q) \in Token
    BY <2>2, SwapFacts
  <2>4. /\ tokenCount' \in [Token -> Nat] /\ tokenCount'[TokenOf(q)] = tokenCount[TokenOf(q)] + 1
        /\ \A e \in Token \ {TokenOf(q)} : tokenCount'[e] = tokenCount[e]
    BY <2>1, <2>2, <2>3
  <2>5. ASSUME NEW t \in Token
        PROVE  tokenCount'[t] = tokenCount[t] + OneIn(q, PoolsOf(t))
    <3>1. q \in PoolsOf(t) <=> TokenOf(q) = t
      BY <2>2, SwapFacts
    <3>2. tokenCount[t] \in Nat
      BY <2>2
    <3> QED BY <2>3, <2>4, <3>1, <3>2 DEF OneIn
  <2> QED BY <2>4, <2>5
<1>6. /\ \A S : /\ Added(l, {"token"}, "row", S) = 0 /\ Added(l, {"token"}, "pool", S) = 0
      /\ \A s \in Swap : rowsOf[s] \in Nat /\ poolCount[s] \in Nat
      /\ \A t \in Token : CountOf(poolCount, t) \in Nat
  BY NothingAdded
<1>7. \A s \in Swap : /\ rowsOf'[s] <= rowsOf[s] + Added(l, {"token"}, "row", {s})
                      /\ poolCount'[s] = poolCount[s] + Added(l, {"token"}, "pool", {s})
  BY <1>1, <1>6
<1>8. \A t \in Token :
         /\ CountOf(poolCount', t) = CountOf(poolCount, t) + Added(l, {"token"}, "pool", PoolsOf(t))
         /\ tokenCount'[t] = tokenCount[t] + Added(l, {"token"}, "token", PoolsOf(t))
  BY <1>1, <1>4, <1>5, <1>6
<1>9. /\ rowsOf' \in [Swap -> Nat] /\ poolCount' \in [Swap -> Nat]
      /\ tokenCount' \in [Token -> Nat] /\ writeFaults' \in 0..MaxDbFaults
      /\ writeFaults' = 0 => writeFaults = 0
  BY <1>1, <1>3, <1>5
<1>10. {"token"} = IF TRUE THEN {"token"} ELSE {}
  OBVIOUS
<1> HIDE DEF q
<1> QED BY <1>1, <1>2, <1>7, <1>8, <1>9, <1>10, WriteKeeps, ZenonT(30)

LEMMA WriteFailsKeeps ==
    ASSUME LiveInv, NEW l \in Log, NEW w \in Writes, WriteFails(l, w) PROVE LiveInv'
<1>1. /\ w \in log[l].todo /\ Ends(l, w, FALSE) /\ EmitSwap(l, w, FALSE)
      /\ writeFaults < MaxDbFaults /\ writeFaults' = writeFaults + 1
      /\ UNCHANGED <<watchVars, price, rowsOf, poolCount, tokenCount, delivered>>
  BY DEF WriteFails
<1>2. /\ rowsOf \in [Swap -> Nat] /\ poolCount \in [Swap -> Nat]
      /\ tokenCount \in [Token -> Nat] /\ writeFaults \in 0..MaxDbFaults /\ MaxDbFaults \in Nat
  BY WatchlistAssumption DEF LiveInv, SwapTypes, WatchlistAssumption
<1>3. writeFaults' \in 0..MaxDbFaults /\ writeFaults' # 0
  BY <1>1, <1>2
<1>4. /\ \A v, S : Added(l, {}, v, S) = 0
      /\ \A s \in Swap : rowsOf[s] \in Nat /\ poolCount[s] \in Nat
      /\ \A t \in Token : tokenCount[t] \in Nat /\ CountOf(poolCount, t) \in Nat
  BY NothingAdded
<1>5. \A s \in Swap : /\ rowsOf'[s] <= rowsOf[s] + Added(l, {}, "row", {s})
                      /\ poolCount'[s] = poolCount[s] + Added(l, {}, "pool", {s})
  BY <1>1, <1>4
<1>6. \A t \in Token :
         /\ CountOf(poolCount', t) = CountOf(poolCount, t) + Added(l, {}, "pool", PoolsOf(t))
         /\ tokenCount'[t] = tokenCount[t] + Added(l, {}, "token", PoolsOf(t))
  BY <1>1, <1>4
<1>7. FALSE \in BOOLEAN
  OBVIOUS
<1> QED BY <1>1, <1>2, <1>3, <1>5, <1>6, <1>7, WriteKeeps

-----------------------------------------------------------------------------
\* A step that leaves the logs alone.
LEMMA LogsStay ==
    ASSUME LiveInv, UNCHANGED <<log, rowsOf, poolCount, tokenCount, alive, delivered, writeFaults>>,
           price' \in [known : BOOLEAN, fresh : BOOLEAN]
    PROVE  SwapTypes' /\ Counts'
<1>1. SwapTypes'
  BY DEF LiveInv, SwapTypes
<1>2. \A R : Number(R)' = Number(R)
  BY SameNumbers
<1> QED BY <1>1, <1>2 DEF LiveInv, Counts

LEMMA LiveInitInv == LiveInit => LiveInv
<1> SUFFICES ASSUME LiveInit PROVE LiveInv
  OBVIOUS
<1>1. WatchTypeOK /\ FromTable
  BY WatchInitHolds DEF LiveInit
<1>2. SwapInit /\ MaxDbFaults \in Nat /\ MaxDeliveries \in Nat
  BY WatchlistAssumption, LiveSwapAssumption
     DEF LiveInit, WatchlistAssumption, LiveSwapAssumption
<1>3. log = [l \in Log |-> NoLog]
  BY <1>2 DEF SwapInit
<1>4. \A l \in Log : log[l] = NoLog
  BY <1>3
<1>5. SeenLogs
  BY <1>4, NoLogFacts DEF SeenLogs
<1>6. SwapTypes
  <2>1. log \in [Log -> LogState] /\ \A l \in Log : log[l].todo # {} <=> log[l].pc = "write"
    BY <1>3, <1>4, NoLogFacts
  <2>2. price \in [known : BOOLEAN, fresh : BOOLEAN]
    BY <1>2 DEF SwapInit
  <2>3. /\ rowsOf \in [Swap -> Nat] /\ poolCount \in [Swap -> Nat]
        /\ tokenCount \in [Token -> Nat] /\ alive \in [Token -> Nat]
        /\ delivered \in 0..MaxDeliveries /\ writeFaults \in 0..MaxDbFaults
    BY <1>2 DEF SwapInit
  <2> QED BY <2>1, <2>2, <2>3 DEF SwapTypes
<1>7. Counts
  <2>1. \A w, S : /\ Number(Coming(w, S)) = 0 /\ Number(Writing(w, S)) = 0
                  /\ Number(Done(w, S)) = 0
    <3>1. \A w, S : /\ LogsIn(Coming(w, S)) = {} /\ LogsIn(Writing(w, S)) = {}
                    /\ LogsIn(Done(w, S)) = {}
      BY <1>4, NoLogFacts DEF LogsIn
    <3> QED BY <3>1, NoNumber
  <2>2. /\ \A s \in Swap : rowsOf[s] = 0 /\ poolCount[s] = 0
        /\ \A t \in Token : tokenCount[t] = 0 /\ alive[t] = 0 /\ CountOf(poolCount, t) = 0
        /\ delivered = 0
    BY <1>2, SwapFacts DEF SwapInit, CountOf
  <2> QED BY <2>1, <2>2 DEF Counts
<1> QED BY <1>1, <1>5, <1>6, <1>7 DEF LiveInv

LEMMA LiveStepInv == LiveInv /\ [LiveNext]_liveVars => LiveInv'
<1> SUFFICES ASSUME LiveInv, [LiveNext]_liveVars PROVE LiveInv'
  OBVIOUS
<1>1. CASE WatchNext /\ UNCHANGED swapVars
  <2>1. UNCHANGED <<log, price, rowsOf, poolCount, tokenCount, alive, delivered, writeFaults>>
    BY <1>1 DEF swapVars
  <2>2. SwapTypes' /\ Counts'
    BY <2>1, LogsStay DEF LiveInv, SwapTypes
  <2>3. WatchTypeOK' /\ FromTable'
    BY <1>1, WatchStep DEF LiveInv
  <2>4. SeenLogs'
    <3>1. \A l \in Log : log[l].seen => TokenOf(log[l].swap) \in Token /\ Seen(TokenOf(log[l].swap))
      BY SwapFacts DEF LiveInv, SeenLogs, SwapTypes, LogState
    <3>2. \A u \in Token : Seen(u) => Seen(u)'
      BY <1>1, SeenStep DEF LiveInv
    <3> QED BY <2>1, <3>1, <3>2 DEF SeenLogs
  <2> QED BY <2>2, <2>3, <2>4 DEF LiveInv
<1>2. CASE PriceExpires
  <2>1. /\ price' = [price EXCEPT !.fresh = FALSE]
        /\ UNCHANGED <<watchVars, log, rowsOf, poolCount, tokenCount, alive, delivered, writeFaults>>
    BY <1>2 DEF PriceExpires
  <2>2. price' \in [known : BOOLEAN, fresh : BOOLEAN]
    BY <2>1 DEF LiveInv, SwapTypes
  <2>3. SwapTypes' /\ Counts'
    BY <2>1, <2>2, LogsStay
  <2>4. WatchTypeOK' /\ FromTable' /\ SeenLogs'
    BY <2>1 DEF LiveInv, watchVars, WatchTypeOK, FromTable, SeenLogs, Seen
  <2> QED BY <2>3, <2>4 DEF LiveInv
<1>3. ASSUME NEW l \in Log, ProcessSwapLog(l) PROVE LiveInv'
  BY <1>3, CheckWatchlistKeeps, GetTokenPricesKeeps, InsertSwapRowKeeps, UpsertPool1minStatKeeps,
     UpsertToken1minStatKeeps, WriteFailsKeeps DEF ProcessSwapLog
<1>4. ASSUME NEW l \in Log, NEW s \in Swap, Arrive(l, s) PROVE LiveInv'
  BY <1>4, ArriveKeeps
<1>5. CASE UNCHANGED liveVars
  <2>1. UNCHANGED <<watchVars, log, price, rowsOf, poolCount, tokenCount, alive, delivered, writeFaults>>
    BY <1>5 DEF liveVars, swapVars
  <2>2. SwapTypes' /\ Counts'
    BY <2>1, LogsStay DEF LiveInv, SwapTypes
  <2>3. WatchTypeOK' /\ FromTable' /\ SeenLogs'
    BY <2>1 DEF LiveInv, watchVars, WatchTypeOK, FromTable, SeenLogs, Seen
  <2> QED BY <2>2, <2>3 DEF LiveInv
<1> QED BY <1>1, <1>2, <1>3, <1>4, <1>5 DEF LiveNext

-----------------------------------------------------------------------------
\* In every reachable state the watchlist, its refresh, the logs under way and the counts
\* are well typed (watchlist.ts, tracker.ts, swap-listener.ts).
THEOREM LiveTypesCorrect == LiveSpec => [](WatchTypeOK /\ SwapTypeOK)
<1>1. LiveInv => WatchTypeOK /\ SwapTypeOK
  <2> SUFFICES ASSUME LiveInv PROVE SwapTypeOK
    BY DEF LiveInv
  <2>1. \A R : Number(R) \in Nat
    BY NumberNat
  <2>2. delivered \in Nat /\ MaxDeliveries \in Nat /\ delivered <= MaxDeliveries
    BY LiveSwapAssumption DEF LiveInv, SwapTypes, LiveSwapAssumption
  <2>3. ASSUME NEW s \in Swap PROVE rowsOf[s] \in 0..MaxDeliveries /\ poolCount[s] \in 0..MaxDeliveries
    <3>1. rowsOf[s] \in Nat /\ poolCount[s] \in Nat
      BY DEF LiveInv, SwapTypes
    <3>2. /\ rowsOf[s] + Number(Coming("row", {s})) <= delivered
          /\ poolCount[s] + Number(Coming("pool", {s})) <= delivered
      BY DEF LiveInv, Counts
    <3> QED BY <2>1, <2>2, <3>1, <3>2
  <2>4. ASSUME NEW t \in Token PROVE tokenCount[t] \in 0..MaxDeliveries /\ alive[t] \in 0..MaxDeliveries
    <3>1. tokenCount[t] \in Nat /\ alive[t] \in Nat
      BY DEF LiveInv, SwapTypes
    <3>2. /\ tokenCount[t] + Number(Coming("token", PoolsOf(t))) <= delivered
          /\ alive[t] + Number(Done("token", PoolsOf(t))) <= tokenCount[t]
      BY DEF LiveInv, Counts
    <3> QED BY <2>1, <2>2, <3>1, <3>2
  <2>5. /\ rowsOf \in [Swap -> 0..MaxDeliveries] /\ poolCount \in [Swap -> 0..MaxDeliveries]
        /\ tokenCount \in [Token -> 0..MaxDeliveries] /\ alive \in [Token -> 0..MaxDeliveries]
    BY <2>3, <2>4 DEF LiveInv, SwapTypes
  <2> QED BY <2>5 DEF LiveInv, SwapTypes, SwapTypeOK, LogState
<1> QED BY <1>1, LiveInitInv, LiveStepInv, PTL DEF LiveSpec

\* For any tokens, logs, failures and order of the awaits: a log that arrived while its
\* token was watched is refused only during a reload, after one that failed, or when the
\* token was deleted from the table (watchlist.ts loadWatchlist, swap-listener.ts).
THEOREM MissesExplained == LiveSpec => MissedExplained
<1>1. LiveInv /\ [LiveNext]_liveVars
        => [\A l \in Log : Refused(l) /\ log[l].seen =>
              \/ refresh.pc \in {"select", "fill"}
              \/ dbFaults > 0 /\ watched = {}
              \/ TokenOf(log[l].swap) \in gone]_liveVars
  <2> SUFFICES ASSUME LiveInv, NEW l \in Log, Refused(l), log[l].seen
               PROVE  \/ refresh.pc \in {"select", "fill"}
                      \/ dbFaults > 0 /\ watched = {}
                      \/ TokenOf(log[l].swap) \in gone
    OBVIOUS
  <2>1. Seen(TokenOf(log[l].swap))
    BY DEF LiveInv, SeenLogs
  <2>2. ~(loaded /\ TokenOf(log[l].swap) \in watched)
    BY DEF Refused, IsWatchedToken
  <2> QED BY <2>1, <2>2 DEF Seen
<1> QED BY <1>1, LiveInitInv, LiveStepInv, PTL DEF LiveSpec, MissedExplained

\* For any tokens, logs, failures and order of the writes: a token has no more events than
\* counted swaps, and as long as no write fails its bucket agrees with those of its pools
\* and no pool has more rows than counted swaps (swap-listener.ts processV3SwapLog).
THEOREM StoresBeforeAlive == LiveSpec => []StoredBeforeAlive
<1>1. LiveInv => StoredBeforeAlive
  <2> SUFFICES ASSUME LiveInv PROVE StoredBeforeAlive
    OBVIOUS
  <2>1. \A R : Number(R) \in Nat
    BY NumberNat
  <2>2. \A w, S : Waiting(w, S) = Number(Writing(w, S))
    BY WaitingIsWriting DEF LiveInv, SwapTypes
  <2>3. ASSUME NEW t \in Token PROVE alive[t] <= tokenCount[t] /\ alive[t] <= CountOf(poolCount, t)
    <3>1. alive[t] \in Nat /\ tokenCount[t] \in Nat /\ CountOf(poolCount, t) \in Nat
      BY SwapFacts DEF LiveInv, SwapTypes, CountOf
    <3>2. /\ alive[t] + Number(Done("token", PoolsOf(t))) <= tokenCount[t]
          /\ alive[t] + Number(Done("pool", PoolsOf(t))) <= CountOf(poolCount, t)
      BY DEF LiveInv, Counts
    <3> QED BY <2>1, <3>1, <3>2
  <2>4. writeFaults = 0 =>
          /\ \A t \in Token :
                CountOf(poolCount, t) + Waiting("pool", PoolsOf(t))
                  = tokenCount[t] + Waiting("token", PoolsOf(t))
          /\ \A s \in Swap : rowsOf[s] <= poolCount[s] + Waiting("pool", {s})
    <3>1. ASSUME writeFaults = 0, NEW s \in Swap PROVE rowsOf[s] <= poolCount[s] + Waiting("pool", {s})
      <4>1. rowsOf[s] \in Nat /\ poolCount[s] \in Nat
        BY DEF LiveInv, SwapTypes
      <4>2. rowsOf[s] + Number(Writing("row", {s})) <= poolCount[s] + Number(Writing("pool", {s}))
        BY <3>1 DEF LiveInv, Counts
      <4> QED BY <2>1, <2>2, <4>1, <4>2
    <3> QED BY <2>2, <3>1 DEF LiveInv, Counts
  <2> QED BY <2>3, <2>4 DEF StoredBeforeAlive
<1> QED BY <1>1, LiveInitInv, LiveStepInv, PTL DEF LiveSpec

-----------------------------------------------------------------------------
(***************************************************************************)
(* The parts together: a behaviour of module MCArchive is a behaviour of   *)
(* each part, whatever the bounds on its first state.                      *)
(***************************************************************************)
LEMMA PartsInit ==
    ArchiveInit => CacheInit /\ PoolInit /\ LiveInit /\ TickInit /\ TablesInit
  BY DEF ArchiveInit

LEMMA PartsStep ==
    [ArchiveNext]_archiveVars =>
        /\ [CacheNext]_cacheVars /\ [PoolNext]_poolVars /\ [LiveNext]_liveVars
        /\ [TickNext]_tickVars /\ [TablesNext]_tableVars
  BY DEF ArchiveNext, archiveVars

LEMMA PartsCorrect ==
    ArchiveSpec => CacheSpec /\ PoolSpec /\ LiveSpec /\ TickSpec /\ TablesSpec
  BY PartsInit, PartsStep, PTL
     DEF ArchiveSpec, CacheSpec, PoolSpec, LiveSpec, TickSpec, TablesSpec

\* Every variable of the caches, the lookups, the swap logs, the detector and the swap
\* tables keeps its type (utils/ttlCache.ts, swap-listener.ts, watchlist.ts, detector.ts,
\* queries.ts), for all values of the constants at once.
THEOREM ArchiveTypesCorrect == ArchiveSpec => []ArchiveTypeOK
<1>1. CacheTypeOK /\ PoolTypeOK /\ (WatchTypeOK /\ SwapTypeOK) /\ TickTypeOK /\ TablesTypeOK
        => ArchiveTypeOK
  BY DEF ArchiveTypeOK
<1> QED
  BY <1>1, PartsCorrect, CacheTypeCorrect, PoolTypeCorrect, LiveTypesCorrect, TickTypeCorrect,
     TablesTypeCorrect, PTL
=============================================================================
