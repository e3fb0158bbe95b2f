------------------------------ MODULE Detector ------------------------------
(***************************************************************************)
(* The anomaly detector of the radar process, the channel to its notifier  *)
(* and the anomaly_events table they share (src/anomaly, src/bin/radar.rs, *)
(* src/notifier).                                                          *)
(*                                                                         *)
(* One detector task ticks, takes the time once, and for every token out   *)
(* of its aggregate query tries vol_spike and then combo: query the        *)
(* cooldown, insert the row, send on a bounded channel.  One notifier task *)
(* receives and posts to the webhook, once, without a retry.  Between any  *)
(* two of these awaits a query may fail, the notifier task may panic, the  *)
(* process may die and the database may crash; between two ticks the clock *)
(* may be stepped.                                                         *)
(*                                                                         *)
(* Which tokens are over the thresholds is an input of a tick here; module *)
(* Baseline models how it is computed.  An alert carries exactly the       *)
(* fields of its row, so it is represented by the id of the row.           *)
(***************************************************************************)
EXTENDS Integers, Sequences, FiniteSets

CONSTANTS
    Tokens,        \* the token addresses of main_pools
    Cooldown,      \* AnomalyConfig.cooldown_ms
    ChannelCap,    \* mpsc::channel(64) in radar.rs
    Clock,         \* bound: the readings of the clock, in ms
    MaxFailures,   \* bound: failed webhook posts and unacknowledged inserts
    MaxCrashes,    \* bound: exits of the radar process and panics of its notifier task
    MaxDbCrashes   \* bound: crashes of the database

ASSUME DetectorAssumption ==
    /\ Cooldown \in Nat
    /\ ChannelCap \in Nat \ {0}
    /\ Clock \subseteq Nat
    /\ MaxFailures \in Nat
    /\ MaxCrashes \in Nat
    /\ MaxDbCrashes \in Nat

VARIABLES
    events,     \* every row ever inserted into anomaly_events, in the order of its id
    durable,    \* the number of rows whose commit has reached the disk
    lost,       \* the ids of the rows a database crash has taken away
    pc,         \* where the detector task is
    now,        \* now_ms of the running tick
    todo,       \* tokens of the running tick not yet looked at
    hot,        \* tokens of the running tick over the fee threshold too
    task,       \* the token and the rule of the running try_trigger
    channel,    \* the alerts between the two tasks
    sending,    \* the alert the notifier is posting, or None
    delivered,  \* the alerts the webhook accepted
    listening,  \* the notifier task runs, and with it the receiver of the channel
    refused,    \* the number of alerts the closed channel gave back to the detector
    failures,   \* the number of failed posts and unacknowledged inserts
    crashes,    \* the number of exits of the process and panics of the notifier
    dbCrashes   \* the number of crashes of the database

dbVars == <<events, durable, lost>>
tickVars == <<pc, now, todo, hot, task>>
notifyVars == <<channel, sending, delivered, listening, refused>>
faultVars == <<failures, crashes, dbCrashes>>
vars == <<dbVars, tickVars, notifyVars, faultVars>>

-----------------------------------------------------------------------------
VolSpike == 1
Combo == 2
Rules == {VolSpike, Combo}
Task == [token : Tokens, rule : Rules]
Event == [token : Tokens, rule : Rules, at : Clock]
None == 0
NoTask == [token |-> None, rule |-> None]

Stored == (1 .. Len(events)) \ lost

\* Mutant: the query excludes the first instant of the cooldown.
InCooldownExclusive(t, r, since) ==
    \E i \in Stored : /\ events[i].token = t
                      /\ events[i].rule = r
                      /\ events[i].at > since

\* is_in_cooldown: a row of this token and rule at `since` or later.
InCooldown(t, r, since) ==
    \E i \in Stored : /\ events[i].token = t
                      /\ events[i].rule = r
                      /\ events[i].at >= since

Init ==
    /\ events = <<>> /\ durable = 0 /\ lost = {}
    /\ pc = "idle" /\ now = 0 /\ todo = {} /\ hot = {} /\ task = NoTask
    /\ channel = <<>> /\ sending = None /\ delivered = <<>>
    /\ listening = TRUE /\ refused = 0
    /\ failures = 0 /\ crashes = 0 /\ dbCrashes = 0

-----------------------------------------------------------------------------
(***************************************************************************)
(* The detector task                                                       *)
(***************************************************************************)

\* run_one_tick: read the clock (at), then aggregate.  over: ratio >= vol_spike_ratio,
\* with the coverage and the minimum volume; hotter: fee_apr_pct over its threshold too.
\* The clock is read nowhere else, and NTP may have stepped it either way since the last
\* tick, so any reading can follow any other.  A failed aggregate query changes nothing.
StartTick(over, hotter, at) ==
    /\ pc = "idle"
    /\ pc' = "next"
    /\ now' = at
    /\ todo' = over
    /\ hot' = hotter
    /\ UNCHANGED <<task, dbVars, notifyVars, faultVars>>

NextToken(t) ==
    /\ pc = "next"
    /\ t \in todo
    /\ pc' = "check"
    /\ todo' = todo \ {t}
    /\ task' = [token |-> t, rule |-> VolSpike]
    /\ UNCHANGED <<now, hot, dbVars, notifyVars, faultVars>>

\* The locals of run_one_tick go with its frame.
ForgetTick(where) ==
    pc' = where /\ now' = 0 /\ todo' = {} /\ hot' = {} /\ task' = NoTask

EndTick ==
    /\ pc = "next"
    /\ todo = {}
    /\ ForgetTick("idle")
    /\ UNCHANGED <<dbVars, notifyVars, faultVars>>

\* try_trigger returned Ok: the combo rule of the same token, or the next token.
FinishTask ==
    /\ IF task.rule = VolSpike /\ task.token \in hot
       THEN pc' = "check" /\ task' = [task EXCEPT !.rule = Combo]
       ELSE pc' = "next" /\ task' = NoTask
    /\ UNCHANGED <<now, todo, hot>>

\* Mutant: the error is logged in place and run_one_tick goes on.
AbortTickSwallowed == FinishTask

\* try_trigger returned Err: the `?` of run_one_tick gives up the rest of the tick.
AbortTick == ForgetTick("idle")

CooldownHit ==
    /\ pc = "check"
    /\ InCooldown(task.token, task.rule, now - Cooldown)
    /\ FinishTask
    /\ UNCHANGED <<dbVars, notifyVars, faultVars>>

CooldownClear ==
    /\ pc = "check"
    /\ ~InCooldown(task.token, task.rule, now - Cooldown)
    /\ pc' = "record"
    /\ UNCHANGED <<now, todo, hot, task, dbVars, notifyVars, faultVars>>

\* The cooldown query or the insert fails and nothing is written.
QueryFails ==
    /\ pc \in {"check", "record"}
    /\ AbortTick
    /\ UNCHANGED <<dbVars, notifyVars, faultVars>>

InsertEvent ==
    /\ events' = Append(events, [token |-> task.token, rule |-> task.rule, at |-> now])
    /\ UNCHANGED <<durable, lost>>

RecordAnomaly ==
    /\ pc = "record"
    /\ InsertEvent
    /\ pc' = "send"
    /\ UNCHANGED <<now, todo, hot, task, notifyVars, faultVars>>

\* The insert commits but its answer does not arrive: Err to the caller, and no alert.
RecordUnacknowledged ==
    /\ pc = "record"
    /\ failures < MaxFailures
    /\ failures' = failures + 1
    /\ InsertEvent
    /\ AbortTick
    /\ UNCHANGED <<notifyVars, crashes, dbCrashes>>

\* Mutant: try_send, which drops the alert when the channel is full.
SendOrDrop ==
    /\ pc = "send"
    /\ channel' = IF listening /\ Len(channel) < ChannelCap
                  THEN Append(channel, Len(events)) ELSE channel
    /\ FinishTask
    /\ UNCHANGED <<dbVars, sending, delivered, listening, refused, faultVars>>

\* Mutant: the alert is sent again and again until somebody listens.
SendUntilHeard ==
    /\ pc = "send"
    /\ listening /\ Len(channel) < ChannelCap
    /\ channel' = Append(channel, Len(events))
    /\ FinishTask
    /\ UNCHANGED <<dbVars, sending, delivered, listening, refused, faultVars>>

\* tx.send(trigger).await: waits for a free place as long as there is a receiver, and
\* gives the alert back when there is none, which is a warning and no error of the tick.
Send ==
    /\ pc = "send"
    /\ \/ /\ listening /\ Len(channel) < ChannelCap
          /\ channel' = Append(channel, Len(events))
          /\ UNCHANGED refused
       \/ /\ ~listening
          /\ refused' = refused + 1
          /\ UNCHANGED channel
    /\ FinishTask
    /\ UNCHANGED <<dbVars, sending, delivered, listening, faultVars>>

-----------------------------------------------------------------------------
(***************************************************************************)
(* The notifier task                                                       *)
(***************************************************************************)

Receive ==
    /\ sending = None
    /\ channel # <<>>
    /\ sending' = Head(channel)
    /\ channel' = Tail(channel)
    /\ UNCHANGED <<dbVars, tickVars, delivered, listening, refused, faultVars>>

WebhookAccepts ==
    /\ sending # None
    /\ delivered' = Append(delivered, sending)
    /\ sending' = None
    /\ UNCHANGED <<dbVars, tickVars, channel, listening, refused, faultVars>>

\* Mutant: a failed alert goes to the end of the line again.
WebhookFailsRequeued ==
    /\ sending # None
    /\ failures < MaxFailures
    /\ failures' = failures + 1
    /\ sending' = None
    /\ channel' = Append(channel, sending)
    /\ \/ UNCHANGED delivered
       \/ delivered' = Append(delivered, sending)
    /\ UNCHANGED <<dbVars, tickVars, listening, refused, crashes, dbCrashes>>

\* An error status or the 10 s timeout: a warning, and on to the next alert.  A post that
\* timed out may have been accepted all the same.
WebhookFails ==
    /\ sending # None
    /\ failures < MaxFailures
    /\ failures' = failures + 1
    /\ sending' = None
    /\ \/ UNCHANGED delivered
       \/ delivered' = Append(delivered, sending)
    /\ UNCHANGED <<dbVars, tickVars, channel, listening, refused, crashes, dbCrashes>>

-----------------------------------------------------------------------------
(***************************************************************************)
(* The environment                                                         *)
(***************************************************************************)

\* Mutant: the alert in hand is kept for the next start, whether it was accepted or not.
CrashKeepsAlert ==
    /\ pc # "down"
    /\ crashes < MaxCrashes
    /\ crashes' = crashes + 1
    /\ ForgetTick("down")
    /\ channel' = <<>>
    /\ UNCHANGED sending
    /\ listening' = FALSE
    /\ \/ UNCHANGED delivered
       \/ sending # None /\ delivered' = Append(delivered, sending)
    /\ UNCHANGED <<dbVars, refused, failures, dbCrashes>>

\* ctrl_c, a panic or a kill.  A post already on the wire may still be accepted.
Crash ==
    /\ pc # "down"
    /\ crashes < MaxCrashes
    /\ crashes' = crashes + 1
    /\ ForgetTick("down")
    /\ channel' = <<>>
    /\ sending' = None
    /\ listening' = FALSE
    /\ \/ UNCHANGED delivered
       \/ sending # None /\ delivered' = Append(delivered, sending)
    /\ UNCHANGED <<dbVars, refused, failures, dbCrashes>>

\* The notifier task panics over the alert in its hand (feishu.rs unwraps an out-of-range
\* instant before it posts) or between two: the runtime drops the task, with it the receiver
\* and what was queued, and the other tasks of the process go on.
NotifierPanics ==
    /\ listening
    /\ crashes < MaxCrashes
    /\ crashes' = crashes + 1
    /\ listening' = FALSE
    /\ channel' = <<>>
    /\ sending' = None
    /\ UNCHANGED <<dbVars, tickVars, delivered, refused, failures, dbCrashes>>

Restart ==
    /\ pc = "down"
    /\ pc' = "idle"
    /\ listening' = TRUE
    /\ UNCHANGED <<now, todo, hot, task, dbVars, channel, sending, delivered, refused, faultVars>>

\* The WAL writer catches up with the commits (synchronous_commit=off).
WalFlush ==
    /\ durable < Len(events)
    /\ dbCrashes < MaxDbCrashes
    /\ durable' = Len(events)
    /\ UNCHANGED <<events, lost, tickVars, notifyVars, faultVars>>

\* The database crashes: the rows after some id k, none of them flushed, are gone.
DbCrash(k) ==
    /\ dbCrashes < MaxDbCrashes
    /\ k >= durable
    /\ dbCrashes' = dbCrashes + 1
    /\ lost' = lost \cup (k + 1 .. Len(events))
    /\ durable' = Len(events)
    /\ UNCHANGED <<events, tickVars, notifyVars, failures, crashes>>

-----------------------------------------------------------------------------
DetectorStep ==
    \/ \E t \in Tokens : NextToken(t)
    \/ EndTick
    \/ CooldownHit
    \/ CooldownClear
    \/ RecordAnomaly
    \/ Send

NotifierStep == Receive \/ WebhookAccepts \/ WebhookFails

Next ==
    \/ \E over \in SUBSET Tokens : \E hotter \in SUBSET over, at \in Clock :
          StartTick(over, hotter, at)
    \/ DetectorStep
    \/ QueryFails
    \/ RecordUnacknowledged
    \/ NotifierStep
    \/ Crash
    \/ NotifierPanics
    \/ Restart
    \/ WalFlush
    \/ \E k \in 0 .. Len(events) - 1 : DbCrash(k)

Spec == Init /\ [][Next]_vars

\* The two tasks are spawned on the runtime, which polls a ready task again and again;
\* a query returns or fails, a post ends by its 10 s timeout.
FairSpec == Spec /\ WF_vars(DetectorStep) /\ WF_vars(NotifierStep)

-----------------------------------------------------------------------------
(***************************************************************************)
(* Properties                                                              *)
(***************************************************************************)

TypeOK ==
    /\ events \in Seq(Event)
    /\ durable \in 0 .. Len(events)
    /\ lost \subseteq 1 .. Len(events)
    /\ pc \in {"idle", "next", "check", "record", "send", "down"}
    /\ IF pc \in {"idle", "down"} THEN now = 0 ELSE now \in Clock
    /\ todo \subseteq Tokens
    /\ hot \subseteq Tokens
    /\ IF pc \in {"check", "record", "send"} THEN task \in Task ELSE task = NoTask
    /\ channel \in Seq(Nat) /\ Len(channel) <= ChannelCap
    /\ sending \in Nat
    /\ delivered \in Seq(Nat)
    /\ listening \in BOOLEAN
    /\ ~listening => channel = <<>> /\ sending = None
    /\ refused \in Nat
    /\ failures \in 0 .. MaxFailures
    /\ crashes \in 0 .. MaxCrashes
    /\ dbCrashes \in 0 .. MaxDbCrashes

\* Two rows of one token and rule are more than a cooldown apart, whatever the clock did,
\* unless the earlier one was lost with the database (aggregator.rs is_in_cooldown).
CooldownSpacing ==
    \A i, j \in 1 .. Len(events) :
        (/\ i < j
         /\ i \notin lost
         /\ events[i].token = events[j].token
         /\ events[i].rule = events[j].rule)
        => events[j].at - events[i].at > Cooldown

\* A combo row never comes alone: an earlier row of the same token says vol_spike, at most
\* a cooldown older (detector.rs tries vol_spike first and gives up the tick on an error).
ComboHasSpike ==
    \A j \in 1 .. Len(events) :
        events[j].rule = Combo =>
            \E i \in 1 .. j - 1 : /\ events[i].token = events[j].token
                                  /\ events[i].rule = VolSpike
                                  /\ events[i].at >= events[j].at - Cooldown

\* Alerts go out at most once each and in the order in which they were recorded, across
\* restarts (radar.rs: one sender, one receiver, no retry).
DeliveredInOrder ==
    \A d, e \in 1 .. Len(delivered) : d < e => delivered[d] < delivered[e]

\* How many recorded anomalies nobody was told of: at most one per failed post,
\* unacknowledged insert or alert the closed channel gave back (each of them a warning in
\* the log), and a full channel plus the two in hand per exit of the process or panic of
\* its notifier.
LossBound ==
    Len(events) - Len(delivered)
        <= Len(channel) + (IF sending # None THEN 1 ELSE 0) + (IF pc = "send" THEN 1 ELSE 0)
           + failures + refused + (ChannelCap + 2) * crashes

\* The group is not told twice of one token and rule within a cooldown
\* (aggregator.rs:75: the cooldown is there to avoid repeated alerts).
NoRepeatAlert ==
    \A d, e \in 1 .. Len(delivered) :
        LET a == events[delivered[d]]
            b == events[delivered[e]]
        IN  (d < e /\ a.token = b.token /\ a.rule = b.rule) => b.at - a.at > Cooldown

\* A token and a rule have at most one row per instant that is not lost.
RowBound == 2 * Cardinality(Tokens) * Cardinality(Clock) * (1 + MaxDbCrashes)

\* Alerting never stalls detection: a tick that started ends, with the channel full, with
\* the webhook failing, and with the notifier gone for good.
TickEnds == (pc \notin {"idle", "down"}) ~> (pc \in {"idle", "down"})

\* Every anomaly that is recorded is delivered, as long as no post fails, no insert goes
\* unacknowledged and the process and its notifier stay up.
RecordedIsDelivered ==
    \A i \in 1 .. RowBound :
        i <= Len(events) ~> (\/ \E d \in 1 .. Len(delivered) : delivered[d] = i
                            \/ failures > 0
                            \/ crashes > 0)

\* The detector implements the abstract alert log.
Abstract == INSTANCE AlertLog WITH Times <- Clock
Refinement == Abstract!Spec
=============================================================================
