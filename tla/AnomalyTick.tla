---------------------------- MODULE AnomalyTick ----------------------------
(***************************************************************************)
(* The detector of the archived program (archive-ts/src/anomaly): a timer  *)
(* starts a tick unless one is running, a tick evaluates the active tokens *)
(* a slice at a time, and an evaluation that finds a spike asks for the    *)
(* value locked in the pools of the token, then for earlier alerts, and    *)
(* inserts.                                                                *)
(*                                                                         *)
(* The tokens of a slice are evaluated together; every await lets the      *)
(* others, the clock and the signal handler proceed.                       *)
(***************************************************************************)
EXTENDS Integers, Sequences, FiniteSets

CONSTANTS
    Active,         \* tokens that can be active
    TickSlot,       \* ticks at a time; more than one only if the flag failed
    Slice,          \* CONCURRENCY
    AlertCooldown,  \* thresholds.cooldownMs
    MaxTime         \* bound: the clock

ASSUME TickAssumption ==
    /\ IsFiniteSet(Active) /\ IsFiniteSet(TickSlot)
    /\ Slice \in Nat \ {0} /\ AlertCooldown \in Nat /\ MaxTime \in Nat

VolSpike == "vol_spike"
Combo == "combo"

VARIABLES
    time,
    busy,    \* the flag running
    tick,    \* slot -> whether a tick runs there, and the tokens it has still to evaluate
    eval,    \* slot -> token -> where its evaluation is, and the alert it would insert
    events,  \* anomaly_events
    armed    \* the timer is set

tickVars == <<time, busy, tick, eval, events, armed>>

Off == [on |-> FALSE, left |-> {}]
NoEval == [pc |-> "none", rule |-> VolSpike, at |-> 0]

TickTypeOK ==
    /\ time \in 0..MaxTime
    /\ busy \in BOOLEAN /\ armed \in BOOLEAN
    /\ tick \in [TickSlot -> [on : BOOLEAN, left : SUBSET Active]]
    /\ eval \in [TickSlot -> [Active -> [pc : {"none", "stats", "tvl", "check", "insert"},
                                         rule : {VolSpike, Combo}, at : 0..MaxTime]]]
    /\ \A i \in DOMAIN events :
         events[i] \in [token : Active, rule : {VolSpike, Combo}, at : 0..MaxTime]

TickInit ==
    /\ time = 0 /\ busy = FALSE /\ armed = TRUE
    /\ tick = [k \in TickSlot |-> Off]
    /\ eval = [k \in TickSlot |-> [t \in Active |-> NoEval]]
    /\ events = <<>>

-----------------------------------------------------------------------------
At(k, t, pc) == eval[k][t].pc = pc
Move(k, t, e) == eval' = [eval EXCEPT ![k][t] = e]
Leave(k, t) == Move(k, t, NoEval)

TimePasses ==
    /\ time < MaxTime /\ time' = time + 1
    /\ UNCHANGED <<busy, tick, eval, events, armed>>

\* Slots are interchangeable: a tick takes the first that is free.
FirstFree(k) == ~tick[k].on /\ k = CHOOSE j \in TickSlot : ~tick[j].on

\* Mutant: the flag is not looked at.
StartAnyway(k) ==
    /\ armed /\ FirstFree(k)
    /\ \E found \in SUBSET Active \ {{}} :
         tick' = [tick EXCEPT ![k] = [on |-> TRUE, left |-> found]] /\ busy' = TRUE
    /\ UNCHANGED <<time, eval, events, armed>>

\* detectOnce, and findActiveTokens; an error or no token ends the tick at once.
DetectOnce(k) ==
    /\ armed /\ ~busy /\ FirstFree(k)
    /\ \E found \in SUBSET Active \ {{}} :
         tick' = [tick EXCEPT ![k] = [on |-> TRUE, left |-> found]] /\ busy' = TRUE
    /\ UNCHANGED <<time, eval, events, armed>>

Resting(k) == \A t \in Active : At(k, t, "none")

StartSlice(k) ==
    /\ tick[k].left # {} /\ Resting(k)
    /\ \E now5 \in SUBSET tick[k].left :
         /\ Cardinality(now5) = IF Cardinality(tick[k].left) < Slice THEN Cardinality(tick[k].left)
                                                                ELSE Slice
         /\ tick' = [tick EXCEPT ![k].left = @ \ now5]
         /\ eval' = [eval EXCEPT ![k] = [t \in Active |->
                        IF t \in now5 THEN [NoEval EXCEPT !.pc = "stats"] ELSE @[t]]]
    /\ UNCHANGED <<time, busy, events, armed>>

EndTick(k) ==
    /\ tick[k].on /\ tick[k].left = {} /\ Resting(k)
    /\ tick' = [tick EXCEPT ![k] = Off] /\ busy' = FALSE
    /\ UNCHANGED <<time, eval, events, armed>>

\* getTokenWindowStats and the two thresholds: no spike, an error, or go on.
EvaluateActiveToken(k, t) ==
    /\ At(k, t, "stats")
    /\ Leave(k, t) \/ Move(k, t, [NoEval EXCEPT !.pc = "tvl"])
    /\ UNCHANGED <<time, busy, tick, events, armed>>

\* getTokenTVL and the rule.  A pool that cannot be read counts 0, and the sum is cached
\* all the same, so a token of any value may pass for a plain spike.
GetTokenTVL(k, t) ==
    /\ At(k, t, "tvl")
    /\ \/ Leave(k, t)
       \/ \E r \in {VolSpike, Combo} : Move(k, t, [pc |-> "check", rule |-> r, at |-> 0])
    /\ UNCHANGED <<time, busy, tick, events, armed>>

IsRecentlyAlerted(t, r) ==
    \E i \in DOMAIN events :
        events[i].token = t /\ events[i].rule = r /\ events[i].at >= time - AlertCooldown

\* fireTrigger: the time of the alert is read after the answer, before the insert.
FireTrigger(k, t) ==
    /\ At(k, t, "check")
    /\ \/ Leave(k, t)  \* alerted before, or the query failed
       \/ /\ ~IsRecentlyAlerted(t, eval[k][t].rule)
          /\ Move(k, t, [eval[k][t] EXCEPT !.pc = "insert", !.at = time])
    /\ UNCHANGED <<time, busy, tick, events, armed>>

\* insertAnomalyEvent.
InsertAnomalyEvent(k, t) ==
    /\ At(k, t, "insert")
    /\ Leave(k, t)
    /\ \/ UNCHANGED events
       \/ events' = Append(events, [token |-> t, rule |-> eval[k][t].rule,
                                    at |-> eval[k][t].at])
    /\ UNCHANGED <<time, busy, tick, armed>>

\* stopAnomalyDetector: a tick that runs is not told.
StopDetector ==
    /\ armed /\ armed' = FALSE
    /\ UNCHANGED <<time, busy, tick, eval, events>>

TickNext ==
    \/ TimePasses \/ StopDetector
    \/ \E k \in TickSlot :
         \/ DetectOnce(k) \/ StartSlice(k) \/ EndTick(k)
         \/ \E t \in Active : \/ EvaluateActiveToken(k, t) \/ GetTokenTVL(k, t)
                              \/ FireTrigger(k, t) \/ InsertAnomalyEvent(k, t)

TickSpec == TickInit /\ [][TickNext]_tickVars

-----------------------------------------------------------------------------
\* Two alerts of one token and rule are more than a cooldown apart, although the earlier
\* ones are read, the time is taken and the row is inserted in three steps: no two ticks
\* run at a time, and a tick evaluates a token once (detector.ts detectOnce, fireTrigger).
AlertSpacing ==
    \A i, j \in DOMAIN events :
        i < j /\ events[i].token = events[j].token /\ events[i].rule = events[j].rule
          => events[j].at - events[i].at > AlertCooldown
=============================================================================
