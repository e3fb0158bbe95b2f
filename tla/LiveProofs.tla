----------------------------- MODULE LiveProofs -----------------------------
(***************************************************************************)
(* Two tasks of the live process, for every value of the constants: the    *)
(* minute detector (module Detector) and the stream task (StreamListener). *)
(* They share no variable.                                                 *)
(***************************************************************************)
EXTENDS Detector, StreamListener, TLAPS

-----------------------------------------------------------------------------
(***************************************************************************)
(* The safety of Detector for every set of tokens, cooldown, channel       *)
(* capacity and bound on the faults.                                       *)
(***************************************************************************)

\* The row i says that token t fired rule r no earlier than `since`.
Fired(i, t, r, since) ==
    events[i].token = t /\ events[i].rule = r /\ events[i].at >= since

\* What the detector task knows at each of its awaits: the combo rule is tried only after a
\* vol_spike row of the token was found or written, a row is inserted only out of cooldown,
\* and what is about to be sent is the last row.
TaskInv ==
    /\ (pc \in {"check", "record", "send"} /\ task.rule = Combo) =>
          \E i \in 1 .. Len(events) : Fired(i, task.token, VolSpike, now - Cooldown)
    /\ pc = "record" => ~InCooldown(task.token, task.rule, now - Cooldown)
    /\ pc = "send" =>
          /\ Len(events) > 0
          /\ events[Len(events)] = [token |-> task.token, rule |-> task.rule, at |-> now]

EventInv == TypeOK /\ TaskInv /\ CooldownSpacing /\ ComboHasSpike

-----------------------------------------------------------------------------
\* Appending to a sequence: the old elements stay, the new one is the last.
LEMMA AppendFacts ==
    ASSUME NEW S, NEW s \in Seq(S), NEW e \in S
    PROVE  /\ Append(s, e) \in Seq(S)
           /\ Len(Append(s, e)) = Len(s) + 1
           /\ Append(s, e)[Len(s) + 1] = e
           /\ \A i \in 1 .. Len(s) : Append(s, e)[i] = s[i]
  OBVIOUS

\* The instants and the cooldown are integers.
LEMMA Numbers == Cooldown \in Int /\ \A c \in Clock : c \in Int
  BY DetectorAssumption DEF DetectorAssumption

\* Every step keeps the types (all of Detector).
THEOREM TypeCorrect == Spec => []TypeOK
<1>1. Init => TypeOK
  BY DetectorAssumption DEF Init, TypeOK, NoTask, None
<1>2. TypeOK /\ [Next]_vars => TypeOK'
  <2> SUFFICES ASSUME TypeOK, [Next]_vars PROVE TypeOK'
    OBVIOUS
  <2> USE DetectorAssumption DEF TypeOK, dbVars, notifyVars, faultVars
  <2> DEFINE TickOK == /\ pc \in {"idle", "next", "check", "record", "send", "down"}
                       /\ IF pc \in {"idle", "down"} THEN now = 0 ELSE now \in Clock
                       /\ todo \subseteq Tokens
                       /\ hot \subseteq Tokens
                       /\ IF pc \in {"check", "record", "send"} THEN task \in Task
                                                               ELSE task = NoTask
  <2>a. ASSUME pc \in {"check", "send"}, FinishTask PROVE TickOK'
    BY <2>a DEF FinishTask, Task, Rules, Combo, VolSpike
  <2>b. ASSUME NEW where \in {"idle", "down"}, ForgetTick(where) PROVE TickOK'
    BY <2>b DEF ForgetTick
  <2>c. ASSUME pc = "record", InsertEvent
        PROVE  /\ events' \in Seq(Event)
               /\ durable' \in 0 .. Len(events')
               /\ lost' \subseteq 1 .. Len(events')
    <3>1. [token |-> task.token, rule |-> task.rule, at |-> now] \in Event
      BY <2>c DEF Task, Event
    <3> QED BY <3>1, <2>c, AppendFacts DEF InsertEvent
  <2>d. ASSUME UNCHANGED delivered \/ delivered' = Append(delivered, sending)
        PROVE  delivered' \in Seq(Nat)
    <3>1. CASE UNCHANGED delivered
      BY <3>1
    <3>2. CASE delivered' = Append(delivered, sending)
      BY <3>2
    <3> QED BY <2>d, <3>1, <3>2
  <2>e. ASSUME channel' = <<>>, crashes < MaxCrashes, crashes' = crashes + 1
        PROVE  channel' \in Seq(Nat) /\ Len(channel') <= ChannelCap /\ crashes' \in 0 .. MaxCrashes
    BY <2>e
  <2>1. CASE \E over \in SUBSET Tokens : \E hotter \in SUBSET over, at \in Clock :
                StartTick(over, hotter, at)
    BY <2>1 DEF StartTick
  <2>2. CASE \E t \in Tokens : NextToken(t)
    BY <2>2 DEF NextToken, Task, Rules
  <2>3. CASE EndTick
    BY <2>3, <2>b DEF EndTick
  <2>4. CASE CooldownHit
    BY <2>4, <2>a DEF CooldownHit
  <2>5. CASE CooldownClear
    BY <2>5 DEF CooldownClear
  <2>6. CASE RecordAnomaly
    BY <2>6, <2>c DEF RecordAnomaly
  <2>7. CASE Send
    <3>1. TickOK' /\ listening' \in BOOLEAN /\ refused' \in Nat
      BY <2>7, <2>a DEF Send
    <3>2. channel' \in Seq(Nat) /\ Len(channel') <= ChannelCap
      <4>1. CASE channel' = channel
        BY <4>1
      <4>2. CASE Len(channel) < ChannelCap /\ channel' = Append(channel, Len(events))
        BY <4>2
      <4> QED BY <2>7, <4>1, <4>2 DEF Send
    <3>3. ~listening' => channel' = <<>> /\ sending' = None
      BY <2>7 DEF Send
    <3> QED BY <2>7, <3>1, <3>2, <3>3 DEF Send
  <2>8. CASE QueryFails
    BY <2>8, <2>b DEF QueryFails, AbortTick
  <2>9. CASE RecordUnacknowledged
    BY <2>9, <2>b, <2>c DEF RecordUnacknowledged, AbortTick
  <2>10. CASE Receive
    BY <2>10 DEF Receive, tickVars
  <2>11. CASE WebhookAccepts
    BY <2>11 DEF WebhookAccepts, tickVars, None
  <2>12. CASE WebhookFails
    <3>1. delivered' \in Seq(Nat)
      BY <2>12, <2>d DEF WebhookFails
    <3> QED BY <2>12, <3>1 DEF WebhookFails, tickVars, None
  <2>18. CASE NotifierPanics
    <3>1. channel' \in Seq(Nat) /\ Len(channel') <= ChannelCap /\ crashes' \in 0 .. MaxCrashes
      BY <2>18, <2>e DEF NotifierPanics
    <3> QED BY <2>18, <3>1 DEF NotifierPanics, tickVars, None
  <2>13. CASE Crash
    <3>1. TickOK'
      BY <2>13, <2>b DEF Crash
    <3>2. delivered' \in Seq(Nat)
      BY <2>13, <2>d DEF Crash
    <3>3. channel' \in Seq(Nat) /\ Len(channel') <= ChannelCap /\ crashes' \in 0 .. MaxCrashes
      BY <2>13, <2>e DEF Crash
    <3> QED BY <2>13, <3>1, <3>2, <3>3 DEF Crash, None
  <2>14. CASE Restart
    BY <2>14 DEF Restart
  <2>15. CASE WalFlush
    BY <2>15 DEF WalFlush, tickVars
  <2>16. CASE \E k \in 0 .. Len(events) - 1 : DbCrash(k)
    <3>1. PICK k \in 0 .. Len(events) - 1 : DbCrash(k)
      BY <2>16
    <3>2. lost' \subseteq 1 .. Len(events) /\ durable' = Len(events)
      <4>1. Len(events) \in Nat
        OBVIOUS
      <4>2. k + 1 .. Len(events) \subseteq 1 .. Len(events)
        BY <4>1
      <4>3. lost' = lost \cup (k + 1 .. Len(events)) /\ durable' = Len(events)
        BY <3>1 DEF DbCrash
      <4> QED BY <4>2, <4>3
    <3> QED BY <3>1, <3>2 DEF DbCrash, tickVars
  <2>17. CASE UNCHANGED vars
    BY <2>17 DEF vars, tickVars
  <2> QED
    BY <2>1, <2>2, <2>3, <2>4, <2>5, <2>6, <2>7, <2>8, <2>9, <2>10, <2>11, <2>12, <2>13,
       <2>14, <2>15, <2>16, <2>17, <2>18 DEF Next, DetectorStep, NotifierStep
<1>. QED
  BY <1>1, <1>2, PTL DEF Spec

-----------------------------------------------------------------------------
\* A step either leaves the rows alone, apart from those a crash of the database takes, or
\* inserts one row, out of its cooldown and with its vol_spike row in place.
LEMMA EventStep ==
    ASSUME TypeOK, TaskInv, [Next]_vars
    PROVE  \/ events' = events /\ lost \subseteq lost'
           \/ /\ pc = "record"
              /\ events' = Append(events, [token |-> task.token, rule |-> task.rule, at |-> now])
              /\ lost' = lost
<1> USE DEF dbVars, tickVars, notifyVars, faultVars
<1>1. CASE RecordAnomaly \/ RecordUnacknowledged
  BY <1>1 DEF RecordAnomaly, RecordUnacknowledged, InsertEvent
<1>2. CASE \E k \in 0 .. Len(events) - 1 : DbCrash(k)
  BY <1>2 DEF DbCrash
<1>3. CASE \/ \E over \in SUBSET Tokens : \E hotter \in SUBSET over, at \in Clock :
                 StartTick(over, hotter, at)
           \/ \E t \in Tokens : NextToken(t)
           \/ EndTick \/ CooldownHit \/ CooldownClear \/ Send \/ QueryFails
  BY <1>3 DEF StartTick, NextToken, EndTick, CooldownHit, CooldownClear, Send, QueryFails
<1>4. CASE NotifierStep \/ Crash \/ NotifierPanics \/ Restart \/ WalFlush \/ UNCHANGED vars
  BY <1>4 DEF NotifierStep, Receive, WebhookAccepts, WebhookFails, Crash, NotifierPanics, Restart,
              WalFlush, vars
<1> QED
  BY <1>1, <1>2, <1>3, <1>4 DEF Next, DetectorStep

\* What the detector task knows stays true until its next await returns.
LEMMA TaskStep ==
    ASSUME TypeOK, TaskInv, [Next]_vars
    PROVE  TaskInv'
<1> USE DetectorAssumption DEF dbVars, notifyVars, faultVars, VolSpike, Combo
<1>a. ASSUME pc' \in {"idle", "next", "down"} PROVE TaskInv'
  BY <1>a DEF TaskInv
<1>b. ASSUME events' = events, lost \subseteq lost',
             pc' = pc, now' = now, task' = task
      PROVE  TaskInv'
  BY <1>b DEF TaskInv, InCooldown, Stored, Fired
<1>1. CASE \E over \in SUBSET Tokens : \E hotter \in SUBSET over, at \in Clock :
              StartTick(over, hotter, at)
  BY <1>1, <1>a DEF StartTick
<1>2. CASE \E t \in Tokens : NextToken(t)
  BY <1>2 DEF NextToken, TaskInv
<1>3. CASE EndTick \/ QueryFails \/ RecordUnacknowledged \/ Crash \/ Restart
  BY <1>3, <1>a DEF EndTick, QueryFails, RecordUnacknowledged, AbortTick, ForgetTick, Crash, Restart
<1>4. CASE CooldownHit
  <2>1. CASE task.rule = VolSpike /\ task.token \in hot
    <3>1. PICK i \in Stored : Fired(i, task.token, VolSpike, now - Cooldown)
      BY <1>4, <2>1 DEF CooldownHit, InCooldown, Fired
    <3>2. i \in 1 .. Len(events)
      BY <3>1 DEF Stored
    <3>3. pc' = "check" /\ task'.token = task.token /\ now' = now /\ events' = events
      BY <1>4, <2>1 DEF CooldownHit, FinishTask, TypeOK, Task
    <3> QED BY <3>1, <3>2, <3>3 DEF TaskInv, Fired
  <2>2. CASE ~(task.rule = VolSpike /\ task.token \in hot)
    BY <1>4, <2>2, <1>a DEF CooldownHit, FinishTask
  <2> QED BY <2>1, <2>2
<1>5. CASE CooldownClear
  BY <1>5 DEF CooldownClear, TaskInv, InCooldown, Stored, Fired
<1>6. CASE RecordAnomaly
  <2> DEFINE row == [token |-> task.token, rule |-> task.rule, at |-> now]
  <2>1. row \in Event /\ events \in Seq(Event)
    BY <1>6 DEF RecordAnomaly, TypeOK, Task, Event
  <2>2. /\ events' = Append(events, row) /\ pc' = "send" /\ UNCHANGED <<now, task>>
        /\ pc = "record"
    BY <1>6 DEF RecordAnomaly, InsertEvent
  <2>3. /\ Len(events') = Len(events) + 1
        /\ events'[Len(events')] = row
        /\ \A i \in 1 .. Len(events) : events'[i] = events[i]
        /\ Len(events) \in Nat
    BY <2>1, <2>2, AppendFacts
  <2>4. ASSUME task.rule = Combo
        PROVE  \E i \in 1 .. Len(events') : Fired(i, task.token, VolSpike, now - Cooldown)'
    BY <2>2, <2>3, <2>4 DEF TaskInv, Fired
  <2> QED BY <2>2, <2>3, <2>4 DEF TaskInv
<1>7. CASE Send
  <2>1. CASE task.rule = VolSpike /\ task.token \in hot
    <3>1. pc' = "check" /\ task'.token = task.token /\ now' = now /\ events' = events
      BY <1>7, <2>1 DEF Send, FinishTask, TypeOK, Task
    <3>2. Fired(Len(events), task.token, VolSpike, now - Cooldown) /\ Len(events) > 0
      <4>1. now \in Int /\ Cooldown \in Int
        BY <1>7, Numbers DEF Send, TypeOK
      <4> QED BY <1>7, <2>1, <4>1 DEF Send, TaskInv, Fired
    <3>3. Len(events) \in 1 .. Len(events)
      BY <3>2 DEF TypeOK
    <3> QED BY <3>1, <3>2, <3>3 DEF TaskInv, Fired
  <2>2. CASE ~(task.rule = VolSpike /\ task.token \in hot)
    BY <1>7, <2>2, <1>a DEF Send, FinishTask
  <2> QED BY <2>1, <2>2
<1>8. CASE NotifierStep \/ NotifierPanics \/ WalFlush \/ UNCHANGED vars
  BY <1>8, <1>b DEF NotifierStep, Receive, WebhookAccepts, WebhookFails, NotifierPanics, WalFlush,
                    vars, tickVars
<1>9. CASE \E k \in 0 .. Len(events) - 1 : DbCrash(k)
  BY <1>9, <1>b DEF DbCrash, tickVars
<1> QED
  BY <1>1, <1>2, <1>3, <1>4, <1>5, <1>6, <1>7, <1>8, <1>9 DEF Next, DetectorStep

\* What the events table promises, together with what the task knows: an inductive invariant.
THEOREM EventsCorrect == Spec => []EventInv
<1>1. Init => TaskInv /\ CooldownSpacing /\ ComboHasSpike
  BY DEF Init, TaskInv, CooldownSpacing, ComboHasSpike
<1>2. TypeOK /\ TaskInv /\ CooldownSpacing /\ ComboHasSpike /\ [Next]_vars
        => (TaskInv /\ CooldownSpacing /\ ComboHasSpike)'
  <2> SUFFICES ASSUME TypeOK, TaskInv, CooldownSpacing, ComboHasSpike, [Next]_vars
               PROVE  (TaskInv /\ CooldownSpacing /\ ComboHasSpike)'
    OBVIOUS
  <2>1. CASE events' = events /\ lost \subseteq lost'
    BY <2>1, TaskStep DEF CooldownSpacing, ComboHasSpike
  <2>2. CASE /\ pc = "record"
             /\ events' = Append(events, [token |-> task.token, rule |-> task.rule, at |-> now])
             /\ lost' = lost
    <3> DEFINE row == [token |-> task.token, rule |-> task.rule, at |-> now]
    <3>1. row \in Event /\ events \in Seq(Event) /\ now \in Int /\ Cooldown \in Int
      BY <2>2, Numbers DEF TypeOK, Task, Event
    <3>2. /\ Len(events') = Len(events) + 1
          /\ events'[Len(events) + 1] = row
          /\ \A i \in 1 .. Len(events) : events'[i] = events[i]
          /\ Len(events) \in Nat
      BY <2>2, <3>1, AppendFacts
    <3>3. \A i \in 1 .. Len(events) : events[i].at \in Int
      <4>1. \A i \in 1 .. Len(events) : events[i] \in Event
        BY <3>1
      <4> HIDE DEF row
      <4> QED BY <4>1, Numbers DEF Event
    <3>4. CooldownSpacing'
      <4> SUFFICES ASSUME NEW i \in 1 .. Len(events'), NEW j \in 1 .. Len(events'),
                          i < j, i \notin lost,
                          events'[i].token = events'[j].token,
                          events'[i].rule = events'[j].rule
                   PROVE  events'[j].at - events'[i].at > Cooldown
        BY <2>2 DEF CooldownSpacing
      <4>1. CASE j <= Len(events)
        BY SMTT(40), <4>1, <3>2 DEF CooldownSpacing
      <4>2. CASE j = Len(events) + 1
        <5>1. i \in Stored /\ events'[i] = events[i]
          BY <4>2, <3>2 DEF Stored
        <5>2. ~(events[i].at >= now - Cooldown)
          BY <2>2, <4>2, <5>1, <3>2 DEF TaskInv, InCooldown
        <5>3. events[i].at \in Int
          BY <3>3, <5>1 DEF Stored
        <5> QED BY <5>1, <5>2, <5>3, <4>2, <3>1, <3>2
      <4> QED BY <3>2, <4>1, <4>2
    <3>5. ComboHasSpike'
      <4> SUFFICES ASSUME NEW j \in 1 .. Len(events'), events'[j].rule = Combo
                   PROVE  \E i \in 1 .. j - 1 : /\ events'[i].token = events'[j].token
                                                /\ events'[i].rule = VolSpike
                                                /\ events'[i].at >= events'[j].at - Cooldown
        BY DEF ComboHasSpike
      <4>1. CASE j <= Len(events)
        BY <4>1, <3>2 DEF ComboHasSpike
      <4>2. CASE j = Len(events) + 1
        <5>1. PICK i \in 1 .. Len(events) : Fired(i, task.token, VolSpike, now - Cooldown)
          BY <2>2, <4>2, <3>2 DEF TaskInv
        <5> QED BY <5>1, <4>2, <3>2 DEF Fired
      <4> QED BY <3>2, <4>1, <4>2
    <3> QED BY <3>4, <3>5, TaskStep
  <2> QED BY <2>1, <2>2, EventStep
<1> QED
  BY <1>1, <1>2, TypeCorrect, PTL DEF Spec, EventInv

\* Alerts of one token and rule are recorded more than a cooldown apart.
THEOREM Spacing == Spec => []CooldownSpacing
  BY EventsCorrect, PTL DEF EventInv

\* A combo row always has its vol_spike row.
THEOREM ComboAfterSpike == Spec => []ComboHasSpike
  BY EventsCorrect, PTL DEF EventInv

-----------------------------------------------------------------------------
\* Where the ids are: the delivered ones, then the one being posted, then those in the
\* channel, then the row about to be sent, in increasing order.
PipelineInv ==
    /\ \A d \in 1 .. Len(delivered) : delivered[d] \in 1 .. Len(events)
    /\ \A d, e \in 1 .. Len(delivered) : d < e => delivered[d] < delivered[e]
    /\ sending # None =>
          /\ sending \in 1 .. Len(events)
          /\ \A d \in 1 .. Len(delivered) : delivered[d] < sending
    /\ \A i \in 1 .. Len(channel) :
          /\ channel[i] \in 1 .. Len(events)
          /\ sending < channel[i]
          /\ \A d \in 1 .. Len(delivered) : delivered[d] < channel[i]
    /\ \A i, j \in 1 .. Len(channel) : i < j => channel[i] < channel[j]
    /\ pc = "send" =>
          /\ Len(events) > 0
          /\ sending < Len(events)
          /\ \A d \in 1 .. Len(delivered) : delivered[d] < Len(events)
          /\ \A i \in 1 .. Len(channel) : channel[i] < Len(events)

\* The notifier takes alerts from the head of the channel, the detector adds the newest row
\* at its end, so the order of the ids is kept all the way.
LEMMA PipelineStep ==
    ASSUME TypeOK, PipelineInv, [Next]_vars
    PROVE  PipelineInv'
<1> USE DetectorAssumption DEF dbVars, notifyVars, faultVars, None
<1>0. /\ events \in Seq(Event) /\ Len(events) \in Nat
      /\ channel \in Seq(Nat) /\ delivered \in Seq(Nat) /\ sending \in Nat
  BY DEF TypeOK
<1>a. ASSUME Len(events') \in Nat, Len(events') >= Len(events), notifyVars' = notifyVars,
             pc' = "send" => (pc = "send" /\ events' = events)
      PROVE  PipelineInv'
  BY <1>0, <1>a DEF PipelineInv
<1>b. ASSUME pc = "record", InsertEvent
      PROVE  Len(events') = Len(events) + 1
  <2>1. [token |-> task.token, rule |-> task.rule, at |-> now] \in Event
    BY <1>b DEF TypeOK, Task, Event
  <2> QED BY <1>0, <1>b, <2>1, AppendFacts DEF InsertEvent
<1>1. CASE \E over \in SUBSET Tokens : \E hotter \in SUBSET over, at \in Clock :
              StartTick(over, hotter, at)
  BY <1>0, <1>1, <1>a DEF StartTick
<1>2. CASE \E t \in Tokens : NextToken(t)
  BY <1>0, <1>2, <1>a DEF NextToken
<1>3. CASE EndTick \/ CooldownHit \/ CooldownClear \/ QueryFails
  BY <1>0, <1>3, <1>a DEF EndTick, ForgetTick, CooldownHit, FinishTask, CooldownClear,
                          QueryFails, AbortTick
<1>4. CASE RecordUnacknowledged
  BY <1>0, <1>4, <1>a, <1>b DEF RecordUnacknowledged, AbortTick, ForgetTick
<1>5. CASE RecordAnomaly
  <2>1. Len(events') = Len(events) + 1 /\ UNCHANGED notifyVars /\ Len(events) \in Nat
    BY <1>0, <1>5, <1>b DEF RecordAnomaly
  <2> QED BY SMTT(40), <1>0, <2>1 DEF PipelineInv
<1>6. CASE Send
  <2>1. /\ channel' = channel \/ channel' = Append(channel, Len(events))
        /\ pc' # "send" /\ UNCHANGED <<events, sending, delivered>> /\ pc = "send"
    BY <1>6 DEF Send, FinishTask
  <2>2. CASE channel' = channel
    BY <1>0, <2>1, <2>2 DEF PipelineInv
  <2>3. CASE channel' = Append(channel, Len(events))
    <3>1. /\ Len(channel') = Len(channel) + 1
          /\ channel'[Len(channel) + 1] = Len(events)
          /\ \A i \in 1 .. Len(channel) : channel'[i] = channel[i]
      BY <1>0, <2>3, AppendFacts
    <3>2. /\ UNCHANGED <<events, sending, delivered>> /\ pc = "send" /\ pc' # "send"
      BY <2>1
    <3> QED BY SMTT(60), <1>0, <2>3, <3>1, <3>2 DEF PipelineInv
  <2> QED BY <2>1, <2>2, <2>3
<1>7. CASE Receive
  <2>1. /\ sending' = Head(channel) /\ channel' = Tail(channel) /\ channel # <<>>
        /\ sending = 0 /\ UNCHANGED <<events, delivered, pc>>
    BY <1>7 DEF Receive, tickVars
  <2>2. /\ Len(channel) \in Nat \ {0} /\ sending' = channel[1]
        /\ Len(channel') = Len(channel) - 1
        /\ \A i \in 1 .. Len(channel') : channel'[i] = channel[i + 1]
    BY <1>0, <2>1
  <2> QED BY SMTT(40), <1>0, <2>1, <2>2 DEF PipelineInv
<1>c. ASSUME sending # None, delivered' = Append(delivered, sending), sending' = None,
             events' = events, channel' \in {channel, <<>>}, pc' = "send" => pc = "send"
      PROVE  PipelineInv'
  <2>1. /\ Len(delivered') = Len(delivered) + 1
        /\ delivered'[Len(delivered) + 1] = sending
        /\ \A d \in 1 .. Len(delivered) : delivered'[d] = delivered[d]
        /\ Len(delivered) \in Nat
    BY <1>0, <1>c, AppendFacts
  <2>2. \A d \in 1 .. Len(delivered') :
          \/ d \in 1 .. Len(delivered) /\ delivered'[d] = delivered[d]
          \/ d = Len(delivered') /\ delivered'[d] = sending
    <3> TAKE d \in 1 .. Len(delivered')
    <3>1. d \in 1 .. Len(delivered) \/ d = Len(delivered) + 1
      BY <2>1
    <3> QED BY <2>1, <3>1
  <2>3. /\ sending \in 1 .. Len(events)
        /\ \A d \in 1 .. Len(delivered) : delivered[d] < sending
    BY <1>c DEF PipelineInv
  <2>4. \A d \in 1 .. Len(delivered') : delivered'[d] \in 1 .. Len(events)
    BY <2>2, <2>3 DEF PipelineInv
  <2>5. \A d, e \in 1 .. Len(delivered') : d < e => delivered'[d] < delivered'[e]
    <3> TAKE d, e \in 1 .. Len(delivered')
    <3> HAVE d < e
    <3>1. d \in 1 .. Len(delivered) /\ delivered'[d] = delivered[d]
      BY <2>1
    <3> QED BY <2>2, <2>3, <3>1 DEF PipelineInv
  <2>6. \A i \in 1 .. Len(channel') : /\ i \in 1 .. Len(channel) /\ channel'[i] = channel[i]
                                     /\ sending < channel[i] /\ channel[i] \in 1 .. Len(events)
    BY <1>0, <1>c DEF PipelineInv
  <2>7. \A i \in 1 .. Len(channel') : \A d \in 1 .. Len(delivered') : delivered'[d] < channel'[i]
    BY <2>2, <2>3, <2>6 DEF PipelineInv
  <2>8. \A i, j \in 1 .. Len(channel') : i < j => channel'[i] < channel'[j]
    BY <2>6 DEF PipelineInv
  <2>9. pc = "send" => \A d \in 1 .. Len(delivered') : delivered'[d] < Len(events)
    BY <2>2, <2>3 DEF PipelineInv
  <2>10. /\ sending' = 0
         /\ pc' = "send" => (pc = "send" /\ Len(events) > 0)
         /\ \A i \in 1 .. Len(channel') : 0 < channel'[i]
    BY <1>c, <2>6 DEF PipelineInv
  <2>11. pc = "send" => \A i \in 1 .. Len(channel') : channel'[i] < Len(events)
    BY <2>6 DEF PipelineInv
  <2>12. \A i \in 1 .. Len(channel') : /\ channel'[i] \in 1 .. Len(events)
                                      /\ sending' < channel'[i]
    BY <2>6, <2>10
  <2>13. events' = events
    BY <1>c
  <2> QED BY ONLY SMTT(30), <1>0, <2>4, <2>5, <2>7, <2>8, <2>9, <2>10, <2>11, <2>12, <2>13
          DEF PipelineInv, None
<1>8. CASE WebhookAccepts
  BY <1>8, <1>c DEF WebhookAccepts, tickVars
<1>d. ASSUME delivered' = delivered, sending' = None, events' = events,
             channel' \in {channel, <<>>}, pc' = "send" => pc = "send"
      PROVE  PipelineInv'
  BY SMTT(40), <1>0, <1>d DEF PipelineInv
<1>9. CASE WebhookFails
  BY <1>9, <1>c, <1>d DEF WebhookFails, tickVars
<1>10. CASE Crash
  BY <1>10, <1>c, <1>d DEF Crash, ForgetTick
<1>12. CASE NotifierPanics
  BY <1>12, <1>d DEF NotifierPanics, tickVars
<1>13. CASE Restart
  BY <1>0, <1>13 DEF Restart, PipelineInv
<1>11. CASE WalFlush \/ (\E k \in 0 .. Len(events) - 1 : DbCrash(k)) \/ UNCHANGED vars
  BY <1>0, <1>11, <1>a DEF WalFlush, DbCrash, vars, tickVars
<1> QED
  BY <1>1, <1>2, <1>3, <1>4, <1>5, <1>6, <1>7, <1>8, <1>9, <1>10, <1>11, <1>12,
     <1>13
  DEF Next, DetectorStep, NotifierStep

THEOREM PipelineCorrect == Spec => []PipelineInv
<1>1. Init => PipelineInv
  BY DEF Init, PipelineInv, None
<1>2. TypeOK /\ PipelineInv /\ [Next]_vars => PipelineInv'
  BY PipelineStep
<1> QED BY <1>1, <1>2, TypeCorrect, PTL DEF Spec

\* No alert goes out twice or out of turn.
THEOREM InOrder == Spec => []DeliveredInOrder
<1>1. PipelineInv => DeliveredInOrder
  BY DEF PipelineInv, DeliveredInOrder
<1> QED BY <1>1, PipelineCorrect, PTL

-----------------------------------------------------------------------------
\* A recorded anomaly is delivered, on its way, or one of the losses that are counted.
THEOREM Losses == Spec => []LossBound
<1> DEFINE posting == IF sending # None THEN 1 ELSE 0
           holding == IF pc = "send" THEN 1 ELSE 0
           excused == (ChannelCap + 2) * crashes
<1>a. /\ LossBound <=> Len(events) - Len(delivered)
                         <= Len(channel) + posting + holding + failures + refused + excused
      /\ LossBound' <=> Len(events') - Len(delivered')
                         <= Len(channel') + posting' + holding' + failures' + refused'
                             + excused'
  BY DEF LossBound
<1>1. Init => LossBound
  <2> SUFFICES ASSUME Init PROVE LossBound
    OBVIOUS
  <2>1. excused = 0 /\ posting = 0 /\ holding = 0
    BY DetectorAssumption DEF DetectorAssumption, Init
  <2> HIDE DEF excused, posting, holding
  <2> QED BY <1>a, <2>1 DEF Init
<1>2. TypeOK /\ PipelineInv /\ LossBound /\ [Next]_vars => LossBound'
  <2> SUFFICES ASSUME TypeOK, PipelineInv, LossBound, [Next]_vars PROVE LossBound'
    OBVIOUS
  <2> USE DEF dbVars, notifyVars, faultVars, None
  <2>0. /\ events \in Seq(Event) /\ Len(events) \in Nat
        /\ channel \in Seq(Nat) /\ Len(channel) \in Nat /\ Len(channel) <= ChannelCap
        /\ delivered \in Seq(Nat) /\ Len(delivered) \in Nat
        /\ sending \in Nat
        /\ failures \in Nat /\ refused \in Nat /\ crashes \in Nat /\ ChannelCap \in Nat
    BY DetectorAssumption DEF TypeOK, DetectorAssumption
  <2>1. excused \in Nat /\ posting \in {0, 1} /\ holding \in {0, 1}
    BY <2>0
  <2>d. /\ crashes' = crashes => excused' = excused
        /\ sending' = sending => posting' = posting
        /\ sending # 0 => posting = 1
        /\ sending = 0 => posting = 0
        /\ sending' # 0 => posting' = 1
        /\ sending' = 0 => posting' = 0
        /\ (pc' = "send" <=> pc = "send") => holding' = holding
        /\ pc = "send" => holding = 1
        /\ pc # "send" => holding = 0
        /\ pc' = "send" => holding' = 1
        /\ pc' # "send" => holding' = 0
        /\ crashes' = crashes + 1 => excused' = excused + ChannelCap + 2
    BY <2>0
  <2>a. ASSUME UNCHANGED <<events, notifyVars, failures, crashes>>, pc' = "send" <=> pc = "send"
        PROVE  LossBound'
    <3> HIDE DEF excused, posting, holding
    <3> QED BY <1>a, <2>0, <2>1, <2>a, <2>d
  <2>b. ASSUME pc = "record", InsertEvent
        PROVE  Len(events') = Len(events) + 1
    <3>1. [token |-> task.token, rule |-> task.rule, at |-> now] \in Event
      BY <2>b DEF TypeOK, Task, Event
    <3> QED BY <2>0, <2>b, <3>1, AppendFacts DEF InsertEvent
  <2>c. ASSUME delivered' = Append(delivered, sending)
        PROVE  Len(delivered') = Len(delivered) + 1
    BY <2>0, <2>c
  <2>2. CASE \/ \E over \in SUBSET Tokens : \E hotter \in SUBSET over, at \in Clock :
                   StartTick(over, hotter, at)
             \/ \E t \in Tokens : NextToken(t)
    BY <2>2, <2>a DEF StartTick, NextToken
  <2>3. CASE EndTick \/ CooldownHit \/ CooldownClear \/ QueryFails
    BY <2>3, <2>a DEF EndTick, ForgetTick, CooldownHit, FinishTask, CooldownClear,
                      QueryFails, AbortTick
  <2>4. CASE RecordUnacknowledged
    <3>1. /\ UNCHANGED <<notifyVars, crashes>> /\ failures' = failures + 1
          /\ pc # "send" /\ pc' # "send"
          /\ Len(events') = Len(events) + 1
      BY <2>4, <2>b DEF RecordUnacknowledged, AbortTick, ForgetTick
    <3> HIDE DEF excused, posting, holding
    <3> QED BY <1>a, <2>0, <2>1, <2>d, <3>1
  <2>5. CASE RecordAnomaly
    <3>1. /\ UNCHANGED <<notifyVars, crashes, failures>>
          /\ pc # "send" /\ pc' = "send"
          /\ Len(events') = Len(events) + 1
      BY <2>5, <2>b DEF RecordAnomaly
    <3> HIDE DEF excused, posting, holding
    <3> QED BY <1>a, <2>0, <2>1, <2>d, <3>1
  <2>6. CASE Send
    <3>1. /\ UNCHANGED <<events, sending, delivered, crashes, failures>>
          /\ pc = "send" /\ pc' # "send"
          /\ \/ Len(channel') = Len(channel) + 1 /\ refused' = refused
             \/ channel' = channel /\ refused' = refused + 1
      BY <2>0, <2>6 DEF Send, FinishTask
    <3> HIDE DEF excused, posting, holding
    <3> QED BY <1>a, <2>0, <2>1, <2>d, <3>1
  <2>7. CASE Receive
    <3>1. /\ UNCHANGED <<events, delivered, refused, crashes, failures, pc>>
          /\ sending = 0 /\ Len(channel) > 0
          /\ Len(channel') = Len(channel) - 1
      BY <2>0, <2>7 DEF Receive, tickVars
    <3> HIDE DEF excused, posting, holding
    <3>2. sending' # 0
      BY SMTT(40), <2>0, <2>7 DEF Receive, PipelineInv
    <3> QED BY <1>a, <2>0, <2>1, <2>d, <3>1, <3>2
  <2>8. CASE WebhookAccepts
    <3>1. /\ UNCHANGED <<events, channel, refused, crashes, failures, pc>>
          /\ sending # 0 /\ sending' = 0
          /\ Len(delivered') = Len(delivered) + 1
      BY <2>8, <2>c DEF WebhookAccepts, tickVars
    <3> HIDE DEF excused, posting, holding
    <3> QED BY <1>a, <2>0, <2>1, <2>d, <3>1
  <2>9. CASE WebhookFails
    <3>1. /\ UNCHANGED <<events, channel, refused, crashes, pc>>
          /\ sending # 0 /\ sending' = 0 /\ failures' = failures + 1
          /\ \/ Len(delivered') = Len(delivered)
             \/ Len(delivered') = Len(delivered) + 1
      BY <2>9, <2>c DEF WebhookFails, tickVars
    <3> HIDE DEF excused, posting, holding
    <3> QED BY <1>a, <2>0, <2>1, <2>d, <3>1
  <2>10. CASE Crash
    <3>1. /\ UNCHANGED <<events, refused, failures>>
          /\ crashes' = crashes + 1 /\ pc' # "send" /\ sending' = 0 /\ Len(channel') = 0
          /\ \/ Len(delivered') = Len(delivered)
             \/ Len(delivered') = Len(delivered) + 1
      BY <2>10, <2>c DEF Crash, ForgetTick
    <3> HIDE DEF excused, posting, holding
    <3> QED BY <1>a, <2>0, <2>1, <2>d, <3>1
  <2>11. CASE WalFlush \/ (\E k \in 0 .. Len(events) - 1 : DbCrash(k)) \/ UNCHANGED vars
    BY <2>11, <2>a DEF WalFlush, DbCrash, vars, tickVars
  <2>12. CASE NotifierPanics
    <3>1. /\ UNCHANGED <<events, delivered, refused, failures, pc>>
          /\ crashes' = crashes + 1 /\ sending' = 0 /\ Len(channel') = 0
      BY <2>12 DEF NotifierPanics, tickVars
    <3> HIDE DEF excused, posting, holding
    <3> QED BY <1>a, <2>0, <2>1, <2>d, <3>1
  <2>13. CASE Restart
    <3>1. /\ UNCHANGED <<events, channel, sending, delivered, refused, crashes, failures>>
          /\ pc' # "send" /\ pc # "send"
      BY <2>13 DEF Restart
    <3> HIDE DEF excused, posting, holding
    <3> QED BY <1>a, <2>0, <2>1, <2>d, <3>1
  <2> QED
    BY <2>2, <2>3, <2>4, <2>5, <2>6, <2>7, <2>8, <2>9, <2>10, <2>11, <2>12, <2>13
    DEF Next, DetectorStep, NotifierStep
<1> QED BY <1>1, <1>2, TypeCorrect, PipelineCorrect, PTL DEF Spec

\* As long as the database never crashes, the group is not told twice within a cooldown.
THEOREM NoRepeat == MaxDbCrashes = 0 /\ Spec => []NoRepeatAlert
<1> DEFINE NothingLost == MaxDbCrashes = 0 /\ lost = {}
<1>1. MaxDbCrashes = 0 /\ Init => NothingLost
  BY DEF Init
<1>2. TypeOK /\ NothingLost /\ [Next]_vars => NothingLost'
  <2> SUFFICES ASSUME TypeOK, NothingLost, [Next]_vars PROVE lost' = {}
    OBVIOUS
  <2>1. ~ \E k \in 0 .. Len(events) - 1 : DbCrash(k)
    BY DEF DbCrash, TypeOK
  <2> QED
    BY <2>1 DEF Next, DetectorStep, NotifierStep, vars, dbVars, StartTick, NextToken, EndTick,
                CooldownHit, CooldownClear, QueryFails, RecordAnomaly, RecordUnacknowledged,
                InsertEvent, Send, Receive, WebhookAccepts, WebhookFails, Crash, NotifierPanics,
                Restart, WalFlush
<1>3. NothingLost /\ PipelineInv /\ CooldownSpacing => NoRepeatAlert
  <2> SUFFICES ASSUME NothingLost, PipelineInv, CooldownSpacing,
                      NEW d \in 1 .. Len(delivered), NEW e \in 1 .. Len(delivered), d < e,
                      events[delivered[d]].token = events[delivered[e]].token,
                      events[delivered[d]].rule = events[delivered[e]].rule
               PROVE  events[delivered[e]].at - events[delivered[d]].at > Cooldown
    BY DEF NoRepeatAlert
  <2>1. /\ delivered[d] \in 1 .. Len(events) /\ delivered[e] \in 1 .. Len(events)
        /\ delivered[d] < delivered[e]
    BY DEF PipelineInv
  <2> QED BY <2>1 DEF CooldownSpacing
<1> HIDE DEF NothingLost
<1> QED
  BY <1>1, <1>2, <1>3, TypeCorrect, PipelineCorrect, Spacing, PTL DEF Spec

-----------------------------------------------------------------------------
\* Every step of the detector, the notifier and the environment is a step of the abstract
\* alert log or none.
THEOREM Implements == Spec => Refinement
<1>1. Init => Abstract!Init
  BY DEF Init, Abstract!Init
<1>2. TypeOK /\ EventInv /\ PipelineInv /\ [Next]_vars => [Abstract!Next]_(Abstract!vars)
  <2> SUFFICES ASSUME TypeOK, EventInv, PipelineInv, [Next]_vars
               PROVE  Abstract!Next \/ UNCHANGED Abstract!vars
    OBVIOUS
  <2> USE DEF dbVars, notifyVars, Abstract!vars
  <2>a. ASSUME pc = "record", InsertEvent, UNCHANGED delivered
        PROVE  Abstract!Next
    <3> DEFINE t == task.token
               r == task.rule
    <3>1. t \in Tokens /\ r \in Rules /\ now \in Clock
      BY <2>a DEF TypeOK, Task
    <3>2. ~Abstract!FiredSince(t, r, now - Cooldown)
      BY <2>a DEF EventInv, TaskInv, InCooldown, Stored, Abstract!FiredSince, Abstract!Stored
    <3>3. r = Combo => \E i \in 1 .. Len(events) : /\ events[i].token = t
                                                   /\ events[i].rule = VolSpike
                                                   /\ events[i].at >= now - Cooldown
      BY <2>a DEF EventInv, TaskInv, Fired
    <3>4. Abstract!Record(t, r, now)
      BY <2>a, <3>2, <3>3
      DEF Abstract!Record, InsertEvent, Abstract!Combo, Abstract!VolSpike, Combo, VolSpike
    <3> QED
      BY <3>1, <3>4 DEF Abstract!Next, Abstract!Rules, Rules, Abstract!Combo, Abstract!VolSpike,
                        Combo, VolSpike
  <2>b. ASSUME sending # None, delivered' = Append(delivered, sending), UNCHANGED <<events, lost>>
        PROVE  Abstract!Next
    <3>1. sending \in 1 .. Len(events) /\ Abstract!Deliver(sending)
      BY <2>b DEF PipelineInv, Abstract!Deliver
    <3> QED BY <3>1 DEF Abstract!Next
  <2>1. CASE RecordAnomaly \/ RecordUnacknowledged
    BY <2>1, <2>a DEF RecordAnomaly, RecordUnacknowledged
  <2>2. CASE WebhookAccepts \/ WebhookFails \/ Crash
    BY <2>2, <2>b DEF WebhookAccepts, WebhookFails, Crash
  <2>3. CASE \E k \in 0 .. Len(events) - 1 : DbCrash(k)
    <3>1. PICK k \in 0 .. Len(events) - 1 : DbCrash(k)
      BY <2>3
    <3>2. Abstract!Lose(k) /\ k \in 0 .. Len(events)
      BY <3>1 DEF DbCrash, Abstract!Lose
    <3> QED BY <3>2 DEF Abstract!Next
  <2>4. CASE \/ \E over \in SUBSET Tokens : \E hotter \in SUBSET over, at \in Clock :
                   StartTick(over, hotter, at)
             \/ \E t \in Tokens : NextToken(t)
             \/ EndTick \/ CooldownHit \/ CooldownClear \/ QueryFails \/ Send
    BY <2>4 DEF StartTick, NextToken, EndTick, CooldownHit, CooldownClear, QueryFails, Send
  <2>5. CASE Receive \/ NotifierPanics \/ Restart \/ WalFlush \/ UNCHANGED vars
    BY <2>5 DEF Receive, NotifierPanics, Restart, WalFlush, vars
  <2> QED
    BY <2>1, <2>2, <2>3, <2>4, <2>5 DEF Next, DetectorStep, NotifierStep
<1> QED
  BY <1>1, <1>2, TypeCorrect, EventsCorrect, PipelineCorrect, PTL DEF Spec, Refinement, Abstract!Spec

-----------------------------------------------------------------------------
(***************************************************************************)
(* What becomes of a swap in the stream task, for any feeds, any backlog   *)
(* of the client library, any failures, exits and changes of main_pools.   *)
(***************************************************************************)

Emitted == 1..Len(logs)
PcOf == {"subscribe", "select", "row", "bucket", "price", "sleep"}
Handling == {"row", "bucket", "price"}

Typed ==
    /\ cached \subseteq SwapFeed /\ mainPools \subseteq SwapFeed /\ touched \subseteq SwapFeed
    /\ feed \in [Feed -> {"none", "open", "ended"}]
    /\ logs \in Seq(Feed) /\ Len(logs) <= MaxLogs
    /\ backlog \in [Feed -> Seq(Nat)]
    /\ \A f \in Feed : Len(backlog[f]) <= Backlog
    /\ streamPc \in PcOf /\ bnbPrice \in {"initial", "live"}

\* Numbers of logs are numbers of logs that were emitted, a log waits in its own feed, and
\* the price of BNB has no row among the swaps.
Numbered ==
    /\ rowOf \cup countedOf \cup unheard \cup lagged \cup failed \subseteq Emitted
    /\ \A f \in Feed : \A n \in In(backlog[f]) : n \in Emitted /\ logs[n] = f
    /\ \A n \in rowOf : logs[n] \in SwapFeed

\* The log being handled, and what has been done for it.
InHandKnown ==
    /\ streamPc \notin Handling => inHand = 0
    /\ streamPc \in Handling => inHand \in Emitted
    /\ streamPc \in {"row", "bucket"} => logs[inHand] \in cached
    /\ streamPc = "price" => logs[inHand] = BnbFeed
    /\ streamPc = "bucket" => inHand \in rowOf

\* The cache and the table differ only in pools that entered or left since the first start.
CacheDiffers == (cached \ mainPools) \cup (mainPools \ cached) \subseteq touched

StreamInv == Typed /\ Numbered /\ InHandKnown /\ CacheDiffers /\ SwapsExplained

-----------------------------------------------------------------------------
LEMMA InAppend ==
    ASSUME NEW q \in Seq(Nat), NEW e \in Nat
    PROVE  /\ Append(q, e) \in Seq(Nat) /\ Len(Append(q, e)) = Len(q) + 1 /\ Len(q) \in Nat
           /\ In(Append(q, e)) = In(q) \cup {e}
<1> DEFINE a == Append(q, e)
<1>1. /\ a \in Seq(Nat) /\ Len(a) = Len(q) + 1 /\ Len(q) \in Nat
      /\ \A i \in 1..Len(q) : a[i] = q[i]
      /\ a[Len(q) + 1] = e
  OBVIOUS
<1> HIDE DEF a
<1>2. \A i \in 1..Len(a) : i \in 1..Len(q) \/ i = Len(q) + 1
  BY <1>1
<1>3. 1..Len(q) \subseteq 1..Len(a) /\ Len(q) + 1 \in 1..Len(a)
  BY <1>1
<1>4. In(a) = In(q) \cup {e}
  BY <1>1, <1>2, <1>3 DEF In
<1> QED BY <1>1, <1>4 DEF a

LEMMA InTail ==
    ASSUME NEW q \in Seq(Nat), q # <<>>
    PROVE  /\ Tail(q) \in Seq(Nat) /\ Len(Tail(q)) = Len(q) - 1 /\ Len(q) \in Nat
           /\ Head(q) \in In(q) /\ Head(q) \in Nat
           /\ In(q) = In(Tail(q)) \cup {Head(q)}
<1> DEFINE a == Tail(q)
<1>1. /\ a \in Seq(Nat) /\ Len(a) = Len(q) - 1 /\ Len(q) \in Nat /\ Len(q) # 0
      /\ Head(q) = q[1] /\ q[1] \in Nat
      /\ \A i \in 1..Len(a) : a[i] = q[i + 1]
  OBVIOUS
<1> HIDE DEF a
<1>2. /\ 1 \in 1..Len(q)
      /\ \A i \in 1..Len(a) : i + 1 \in 1..Len(q)
      /\ \A i \in 1..Len(q) : i # 1 => i - 1 \in 1..Len(a) /\ a[i - 1] = q[i]
  BY <1>1
<1>3. In(a) \cup {Head(q)} \subseteq In(q)
  BY <1>1, <1>2 DEF In
<1>4. In(q) \subseteq In(a) \cup {Head(q)}
  <2>1. ASSUME NEW n \in In(q), n # q[1] PROVE n \in In(a)
    <3>1. PICK i \in 1..Len(q) : n = q[i]
      BY DEF In
    <3>2. i - 1 \in 1..Len(a) /\ n = a[i - 1]
      BY <1>2, <2>1, <3>1
    <3> QED BY <3>2 DEF In
  <2> QED BY <1>1, <2>1
<1> QED BY <1>1, <1>2, <1>3, <1>4 DEF a, In

LEMMA InEmpty == ASSUME NEW q, q = <<>> PROVE In(q) = {}
  BY DEF In

LEMMA InSame == ASSUME UNCHANGED backlog, NEW f PROVE In(backlog'[f]) = In(backlog[f])
  OBVIOUS

\* A log was emitted: the numbers of the others stand.
LEMMA LogAppended ==
    ASSUME logs \in Seq(Feed), NEW f \in Feed, logs' = Append(logs, f)
    PROVE  /\ logs' \in Seq(Feed) /\ Len(logs) \in Nat /\ Len(logs') = Len(logs) + 1
           /\ Emitted' = Emitted \cup {Len(logs) + 1} /\ Len(logs) + 1 \notin Emitted
           /\ 0 \notin Emitted
           /\ \A n \in Emitted : logs'[n] = logs[n]
           /\ logs'[Len(logs) + 1] = f
  BY DEF Emitted

LEMMA LogsTyped ==
    ASSUME Typed
    PROVE  /\ Len(logs) \in Nat /\ 0 \notin Emitted /\ Emitted \subseteq Nat
           /\ \A n \in Emitted : logs[n] \in Feed
  BY DEF Typed, Emitted

LEMMA MainPoolNotBnb == ASSUME Typed PROVE BnbFeed \notin mainPools /\ BnbFeed \notin cached
  BY StreamAssumption DEF Typed, StreamAssumption

-----------------------------------------------------------------------------
LEMMA StreamInitInv == StreamInit => StreamInv
<1> SUFFICES ASSUME StreamInit PROVE StreamInv
  OBVIOUS
<1> USE DEF StreamInit
<1>1. Len(logs) = 0 /\ logs \in Seq(Feed) /\ Emitted = {}
  BY DEF Emitted
<1>2. \A f \in Feed : backlog[f] = <<>> /\ Len(backlog[f]) = 0 /\ In(backlog[f]) = {}
  BY InEmpty
<1>3. backlog \in [Feed -> Seq(Nat)]
  OBVIOUS
<1>4. feed \in [Feed -> {"none", "open", "ended"}]
  OBVIOUS
<1>5. Typed
  BY <1>1, <1>2, <1>3, <1>4, StreamAssumption DEF Typed, LoadMainPoolCache, PcOf, StreamAssumption
<1>6. Numbered /\ InHandKnown /\ CacheDiffers
  BY <1>1, <1>2 DEF Numbered, InHandKnown, CacheDiffers, Handling, LoadMainPoolCache
<1>7. SwapsExplained
  BY <1>1 DEF SwapsExplained, Emitted
<1> QED BY <1>5, <1>6, <1>7 DEF StreamInv

LEMMA EmitKeeps ==
    ASSUME StreamInv, NEW f \in Feed, Emit(f)
    PROVE  StreamInv'
<1> USE DEF StreamInv
<1> DEFINE n == Len(logs) + 1
           full == Len(backlog[f]) = Backlog
<1>1. /\ logs' \in Seq(Feed) /\ Len(logs) \in Nat /\ Len(logs') = n
      /\ Emitted' = Emitted \cup {n} /\ n \notin Emitted /\ 0 \notin Emitted
      /\ \A m \in Emitted : logs'[m] = logs[m]
      /\ logs'[n] = f
  BY LogAppended DEF Emit, Typed
<1>2. /\ n <= MaxLogs /\ n \in Nat
      /\ UNCHANGED <<cached, mainPoolVars, feed, streamPc, inHand, bnbPrice, storeVars, failed,
                     ends, streamFaults>>
  BY <1>1 DEF Emit
<1>3. /\ backlog' \in [Feed -> Seq(Nat)]
      /\ \A g \in Feed : Len(backlog'[g]) <= Backlog
      /\ \A g \in Feed : In(backlog'[g]) \subseteq
                            In(backlog[g]) \cup (IF g = f THEN {n} ELSE {})
      /\ lagged \subseteq lagged' /\ lagged' \subseteq Emitted
      /\ unheard \subseteq unheard' /\ unheard' \subseteq Emitted \cup {n}
      /\ \A g \in Feed : In(backlog[g]) \subseteq In(backlog'[g]) \cup lagged'
      /\ n \in In(backlog'[f]) \cup unheard'
  <2>0. backlog \in [Feed -> Seq(Nat)] /\ backlog[f] \in Seq(Nat) /\ Backlog \in Nat \ {0}
        /\ Len(backlog[f]) <= Backlog /\ Len(backlog[f]) \in Nat
    BY StreamAssumption DEF Typed, StreamAssumption
  <2>1. CASE feed[f] # "open"
    <3>1. unheard' = unheard \cup {n} /\ backlog' = backlog /\ lagged' = lagged
      BY <2>1 DEF Emit
    <3> HIDE DEF n
    <3> QED BY <3>1 DEF Typed, Numbered
  <2>2. CASE feed[f] = "open" /\ full
    <3> DEFINE r == Tail(backlog[f])
               q == Append(r, n)
    <3>1. /\ backlog' = [backlog EXCEPT ![f] = q]
          /\ lagged' = lagged \cup {Head(backlog[f])} /\ unheard' = unheard
      BY <2>2 DEF Emit
    <3>2. backlog[f] # <<>>
      BY <2>0, <2>2
    <3>3. /\ r \in Seq(Nat) /\ Len(r) = Len(backlog[f]) - 1
          /\ Head(backlog[f]) \in In(backlog[f])
          /\ In(backlog[f]) = In(r) \cup {Head(backlog[f])}
      BY <2>0, <3>2, InTail
    <3> HIDE DEF r
    <3>4. q \in Seq(Nat) /\ Len(q) = Len(r) + 1 /\ In(q) = In(r) \cup {n}
      BY <1>2, <3>3, InAppend
    <3> HIDE DEF q
    <3>5. backlog' \in [Feed -> Seq(Nat)] /\ backlog'[f] = q
          /\ \A g \in Feed \ {f} : backlog'[g] = backlog[g]
      BY <2>0, <3>1, <3>4
    <3>6. Head(backlog[f]) \in Emitted
      BY <3>3 DEF Numbered
    <3>7. Len(q) <= Backlog
      BY <2>0, <3>3, <3>4
    <3> HIDE DEF n, full
    <3>8. \A g \in Feed : Len(backlog'[g]) <= Backlog
      BY <3>5, <3>7 DEF Typed
    <3>9. \A g \in Feed : /\ In(backlog'[g]) \subseteq
                               In(backlog[g]) \cup (IF g = f THEN {n} ELSE {})
                          /\ In(backlog[g]) \subseteq In(backlog'[g]) \cup lagged'
      BY <3>1, <3>3, <3>4, <3>5
    <3>10. /\ lagged \subseteq lagged' /\ lagged' \subseteq Emitted
           /\ unheard \subseteq unheard' /\ unheard' \subseteq Emitted \cup {n}
      BY <3>1, <3>6 DEF Numbered
    <3>11. n \in In(backlog'[f])
      BY <3>4, <3>5
    <3> QED BY <3>5, <3>8, <3>9, <3>10, <3>11
  <2>3. CASE feed[f] = "open" /\ ~full
    <3> DEFINE q == Append(backlog[f], n)
    <3>1. /\ backlog' = [backlog EXCEPT ![f] = q]
          /\ lagged' = lagged /\ unheard' = unheard
      BY <2>3 DEF Emit
    <3>2. q \in Seq(Nat) /\ Len(q) = Len(backlog[f]) + 1 /\ In(q) = In(backlog[f]) \cup {n}
      BY <1>2, <2>0, InAppend
    <3> HIDE DEF q
    <3>3. backlog' \in [Feed -> Seq(Nat)] /\ backlog'[f] = q
          /\ \A g \in Feed \ {f} : backlog'[g] = backlog[g]
      BY <2>0, <3>1, <3>2
    <3>4. Len(q) <= Backlog
      BY <2>0, <2>3, <3>2
    <3> HIDE DEF n, full
    <3> QED BY <3>1, <3>2, <3>3, <3>4 DEF Typed, Numbered
  <2> QED BY <2>1, <2>2, <2>3
<1>4. Typed'
  BY <1>1, <1>2, <1>3 DEF Typed, mainPoolVars
<1> HIDE DEF n, full
<1>5. Numbered'
  <2>1. ASSUME NEW g \in Feed, NEW m \in In(backlog'[g])
        PROVE  m \in Emitted' /\ logs'[m] = g
    <3>1. m \in In(backlog[g]) \/ (g = f /\ m = n)
      BY <1>3, <2>1
    <3> QED BY <1>1, <3>1 DEF Numbered
  <2> QED BY <1>1, <1>2, <1>3, <2>1 DEF Numbered, storeVars
<1>6. InHandKnown'
  <2>1. UNCHANGED <<streamPc, inHand, cached, rowOf>>
    BY <1>2 DEF storeVars
  <2>2. streamPc \in Handling => logs'[inHand] = logs[inHand]
    BY <1>1 DEF InHandKnown
  <2>3. Emitted \subseteq Emitted'
    BY <1>1
  <2> HIDE DEF StreamInv
  <2>4. InHandKnown
    BY DEF StreamInv
  <2> QED BY <2>1, <2>2, <2>3, <2>4 DEF InHandKnown, Handling
<1>8. CacheDiffers'
  BY <1>2 DEF CacheDiffers, mainPoolVars
<1>7. SwapsExplained'
  <2>1. \A m \in rowOf' \ countedOf' : m = inHand' \/ m \in failed' \/ logs'[m] \in touched'
    BY <1>1, <1>2 DEF SwapsExplained, Numbered, storeVars, mainPoolVars
  <2>2. ASSUME NEW m \in Emitted', logs'[m] \in mainPools' \ touched'
        PROVE  \/ m \in countedOf' \cup unheard' \cup lagged' \cup failed'
               \/ m = inHand' \/ m \in In(backlog'[logs'[m]])
    <3>1. CASE m = n
      BY <1>1, <1>3, <3>1
    <3>2. CASE m \in Emitted
      <4>1. logs'[m] = logs[m] /\ logs[m] \in mainPools \ touched /\ logs[m] \in Feed
        BY <1>1, <1>2, <2>2, <3>2, LogsTyped DEF mainPoolVars
      <4>2. \/ m \in countedOf \cup unheard \cup lagged \cup failed
            \/ m = inHand \/ m \in In(backlog[logs[m]])
        BY <3>2, <4>1 DEF SwapsExplained, Emitted
      <4> QED BY <1>2, <1>3, <4>1, <4>2 DEF storeVars
    <3> QED BY <1>1, <2>2, <3>1, <3>2
  <2> QED BY <1>2, <2>1, <2>2 DEF SwapsExplained, Emitted, storeVars
<1> QED BY <1>4, <1>5, <1>6, <1>7, <1>8

-----------------------------------------------------------------------------
\* Subscriptions come and end, and the task waits: no log moves.
LEMMA QuietKeeps ==
    ASSUME StreamInv,
           UNCHANGED <<cached, mainPools, touched, backlog, inHand, bnbPrice, logs, rowOf,
                       countedOf, unheard, lagged, failed>>,
           feed' \in [Feed -> {"none", "open", "ended"}], streamPc' \in PcOf,
           streamPc' = streamPc \/ (streamPc \notin Handling /\ streamPc' \notin Handling)
    PROVE  StreamInv'
<1> USE DEF StreamInv
<1>0. Emitted' = Emitted
  BY DEF Emitted
<1>1. Typed'
  BY DEF Typed
<1>2. Numbered'
  BY <1>0 DEF Numbered
<1>3. InHandKnown'
  BY <1>0 DEF InHandKnown, Handling
<1>4. CacheDiffers' /\ SwapsExplained'
  BY DEF CacheDiffers, SwapsExplained
<1> QED BY <1>1, <1>2, <1>3, <1>4

\* The streams are dropped: what waited, and the log in hand, are counted as failed.
LEMMA DropKeeps ==
    ASSUME StreamInv, DropFeeds,
           UNCHANGED <<mainPools, touched, logs, rowOf, countedOf, unheard, lagged>>,
           cached' = cached \/ cached' = mainPools,
           streamPc' \in PcOf \ Handling, inHand' = 0, bnbPrice' \in {"initial", "live"},
           failed \subseteq failed', failed' \subseteq Emitted,
           inHand # 0 => inHand \in failed',
           \A f \in Feed : In(backlog[f]) \subseteq failed'
    PROVE  StreamInv'
<1> USE DEF StreamInv
<1>0. Emitted' = Emitted
  BY DEF Emitted
<1>1. /\ feed' \in [Feed -> {"none", "open", "ended"}] /\ backlog' \in [Feed -> Seq(Nat)]
      /\ \A f \in Feed : backlog'[f] = <<>> /\ Len(backlog'[f]) = 0
  BY DEF DropFeeds
<1>2. \A f \in Feed : In(backlog'[f]) = {}
  BY <1>1, InEmpty
<1>3. Backlog \in Nat
  BY StreamAssumption DEF StreamAssumption
<1>4. Typed'
  BY <1>1, <1>3 DEF Typed
<1>5. Numbered'
  BY <1>0, <1>2 DEF Numbered
<1>6. InHandKnown'
  BY DEF InHandKnown, Handling
<1>7. CacheDiffers'
  BY DEF CacheDiffers
<1>8. \A n \in rowOf' \ countedOf' : n = inHand' \/ n \in failed' \/ logs'[n] \in touched'
  BY LogsTyped DEF SwapsExplained, Numbered
<1>9. ASSUME NEW n \in 1..Len(logs'), logs'[n] \in mainPools' \ touched'
      PROVE  \/ n \in countedOf' \cup unheard' \cup lagged' \cup failed'
             \/ n = inHand' \/ n \in In(backlog'[logs'[n]])
  <2>1. n \in Emitted /\ n # 0 /\ logs[n] \in mainPools \ touched /\ logs[n] \in Feed
    BY <1>9, LogsTyped DEF Emitted
  <2>2. \/ n \in countedOf \cup unheard \cup lagged \cup failed
        \/ n = inHand \/ n \in In(backlog[logs[n]])
    BY <2>1 DEF SwapsExplained, Emitted
  <2> QED BY <2>1, <2>2
<1> QED BY <1>4, <1>5, <1>6, <1>7, <1>8, <1>9 DEF SwapsExplained

\* A log is taken from its feed: it is in hand, or it is of a pool that came or went.
LEMMA SelectLogKeeps ==
    ASSUME StreamInv, NEW f \in Feed, SelectLog(f)
    PROVE  StreamInv'
<1> USE DEF StreamInv
<1> DEFINE h == Head(backlog[f])
<1>0. Emitted' = Emitted
  BY DEF Emitted, SelectLog
<1>1. /\ UNCHANGED <<cached, mainPools, touched, refreshes, feed, logs, rowOf, countedOf, unheard,
                     lagged, failed>>
      /\ streamPc = "select" /\ inHand = 0
  BY DEF SelectLog, mainPoolVars, storeVars, InHandKnown, Handling
<1>2. backlog[f] \in Seq(Nat) /\ backlog[f] # <<>>
  BY DEF SelectLog, Typed
<1>3. /\ Tail(backlog[f]) \in Seq(Nat) /\ Len(Tail(backlog[f])) = Len(backlog[f]) - 1
      /\ Len(backlog[f]) \in Nat /\ h \in In(backlog[f])
      /\ In(backlog[f]) = In(Tail(backlog[f])) \cup {h}
  BY <1>2, InTail
<1>4. /\ backlog' \in [Feed -> Seq(Nat)] /\ backlog'[f] = Tail(backlog[f])
      /\ \A g \in Feed \ {f} : backlog'[g] = backlog[g]
  BY <1>3 DEF SelectLog, Typed
<1>5. h \in Emitted /\ logs[h] = f
  BY <1>3 DEF Numbered
<1>6. /\ \A g \in Feed : In(backlog'[g]) \subseteq In(backlog[g])
      /\ \A g \in Feed : In(backlog[g]) \subseteq In(backlog'[g]) \cup (IF g = f THEN {h} ELSE {})
      /\ \A g \in Feed : Len(backlog'[g]) <= Backlog
  <2>1. Backlog \in Nat
    BY StreamAssumption DEF StreamAssumption
  <2>2. Len(backlog'[f]) <= Backlog
    BY <1>3, <1>4, <2>1 DEF Typed
  <2> HIDE DEF h
  <2> QED BY <1>3, <1>4, <2>2 DEF Typed
<1>7. \/ f = BnbFeed /\ streamPc' = "price" /\ inHand' = h /\ bnbPrice' = "live"
      \/ f \in cached /\ streamPc' = "row" /\ inHand' = h /\ UNCHANGED bnbPrice
      \/ f # BnbFeed /\ f \notin cached /\ UNCHANGED <<streamPc, inHand, bnbPrice>>
  BY DEF SelectLog
<1> HIDE DEF h
<1>8. Typed'
  BY <1>1, <1>4, <1>6, <1>7 DEF Typed, PcOf
<1>9. Numbered'
  BY <1>0, <1>1, <1>6 DEF Numbered
<1>10. InHandKnown'
  BY <1>0, <1>1, <1>5, <1>7 DEF InHandKnown, Handling
<1>11. CacheDiffers'
  BY <1>1 DEF CacheDiffers
<1>12. \A n \in rowOf' \ countedOf' : n = inHand' \/ n \in failed' \/ logs'[n] \in touched'
  BY <1>1, LogsTyped DEF SwapsExplained, Numbered
<1>13. ASSUME NEW n \in 1..Len(logs'), logs'[n] \in mainPools' \ touched'
       PROVE  \/ n \in countedOf' \cup unheard' \cup lagged' \cup failed'
              \/ n = inHand' \/ n \in In(backlog'[logs'[n]])
  <2>1. n \in Emitted /\ n # 0 /\ logs[n] \in mainPools \ touched /\ logs[n] \in Feed
    BY <1>1, <1>13, LogsTyped DEF Emitted
  <2>2. \/ n \in countedOf \cup unheard \cup lagged \cup failed
        \/ n \in In(backlog[logs[n]])
    BY <1>1, <2>1 DEF SwapsExplained, Emitted
  <2>3. CASE logs[n] = f /\ n = h
    <3>1. f \in cached
      BY <2>1, <2>3 DEF CacheDiffers
    <3>2. f # BnbFeed
      BY <3>1, MainPoolNotBnb
    <3> QED BY <1>7, <2>3, <3>1, <3>2
  <2>4. CASE ~(logs[n] = f /\ n = h)
    BY <1>1, <1>6, <2>1, <2>2, <2>4
  <2> QED BY <2>3, <2>4
<1> QED BY <1>1, <1>8, <1>9, <1>10, <1>11, <1>12, <1>13 DEF SwapsExplained

\* A statement is done, or fails, for the log in hand.
LEMMA HandlingKeeps ==
    ASSUME StreamInv, InsertRow \/ InsertBnbPrice \/ AddToBuckets \/ InsertFails
    PROVE  StreamInv'
<1> USE DEF StreamInv
<1>0. /\ Emitted' = Emitted
      /\ UNCHANGED <<cached, mainPools, touched, feed, backlog, bnbPrice, logs, unheard, lagged>>
      /\ streamPc \in Handling /\ inHand \in Emitted
  BY DEF Emitted, InsertRow, InsertBnbPrice, AddToBuckets, InsertFails, HandlingVars, mainPoolVars,
         InHandKnown, Handling
<1>1. Typed'
  BY <1>0 DEF Typed, InsertRow, InsertBnbPrice, AddToBuckets, InsertFails, BackToSelect, PcOf
<1>2. Numbered'
  <2>1. /\ rowOf' \cup countedOf' \cup failed' \subseteq
               rowOf \cup countedOf \cup failed \cup {inHand}
        /\ rowOf' = rowOf \/ (streamPc = "row" /\ rowOf' = rowOf \cup {inHand})
    BY DEF InsertRow, InsertBnbPrice, AddToBuckets, InsertFails, storeVars
  <2>2. streamPc = "row" => logs[inHand] \in SwapFeed
    BY DEF InHandKnown, Typed
  <2>3. rowOf' \cup countedOf' \cup unheard' \cup lagged' \cup failed' \subseteq Emitted'
    BY <1>0, <2>1 DEF Numbered
  <2>4. \A n \in rowOf' : logs'[n] \in SwapFeed
    BY <1>0, <2>1, <2>2 DEF Numbered
  <2> QED BY <1>0, <2>3, <2>4 DEF Numbered
<1>3. InHandKnown'
  BY <1>0 DEF InHandKnown, InsertRow, InsertBnbPrice, AddToBuckets, InsertFails, BackToSelect,
              Handling
<1>4. CacheDiffers'
  BY <1>0 DEF CacheDiffers
<1>5. SwapsExplained'
  <2>1. /\ rowOf \subseteq rowOf' /\ rowOf' \subseteq rowOf \cup {inHand}
        /\ countedOf \subseteq countedOf' /\ failed \subseteq failed'
    BY DEF InsertRow, InsertBnbPrice, AddToBuckets, InsertFails, HandlingVars, storeVars
  <2>2. inHand' = inHand \/ inHand' = 0
    BY DEF InsertRow, InsertBnbPrice, AddToBuckets, InsertFails, BackToSelect
  <2>3. countedOf' \subseteq rowOf'
    BY <2>1 DEF SwapsExplained, InHandKnown, AddToBuckets, InsertRow, InsertBnbPrice, InsertFails,
                HandlingVars, storeVars
  <2>4. \/ inHand' = inHand
        \/ inHand \in failed'
        \/ /\ streamPc = "bucket"
           /\ inHand \in countedOf' \/ logs[inHand] \notin mainPools
        \/ streamPc = "price" /\ rowOf' = rowOf
    BY DEF InsertRow, InsertBnbPrice, AddToBuckets, InsertFails, storeVars
  <2>5. streamPc = "bucket" /\ logs[inHand] \notin mainPools => logs[inHand] \in touched
    BY DEF InHandKnown, CacheDiffers
  <2>6. streamPc = "price" => inHand \notin rowOf /\ logs[inHand] \notin mainPools
    BY MainPoolNotBnb, StreamAssumption DEF InHandKnown, Numbered, StreamAssumption
  <2>7. ASSUME NEW n \in rowOf' \ countedOf'
        PROVE  n = inHand' \/ n \in failed' \/ logs'[n] \in touched'
    <3>1. CASE n = inHand
      BY <1>0, <2>4, <2>5, <2>6, <2>7, <3>1
    <3>2. CASE n # inHand
      BY <1>0, <2>1, <2>7, <3>2 DEF SwapsExplained
    <3> QED BY <3>1, <3>2
  <2>8. ASSUME NEW n \in 1..Len(logs'), logs'[n] \in mainPools' \ touched'
        PROVE  \/ n \in countedOf' \cup unheard' \cup lagged' \cup failed'
               \/ n = inHand' \/ n \in In(backlog'[logs'[n]])
    <3>1. n \in 1..Len(logs) /\ logs[n] \in mainPools \ touched
      BY <1>0, <2>8
    <3>2. CASE n = inHand
      BY <1>0, <2>4, <2>5, <2>6, <3>1, <3>2
    <3>3. CASE n # inHand
      BY <1>0, <2>1, <3>1, <3>3 DEF SwapsExplained
    <3> QED BY <3>2, <3>3
  <2> QED BY <2>3, <2>7, <2>8 DEF SwapsExplained
<1> QED BY <1>1, <1>2, <1>3, <1>4, <1>5

LEMMA RefreshKeeps ==
    ASSUME StreamInv, NEW pools \in SUBSET SwapFeed, RefreshMainPools(pools)
    PROVE  StreamInv'
<1> USE DEF StreamInv, RefreshMainPools
<1>0. Emitted' = Emitted
  BY DEF Emitted
<1>1. Typed'
  BY DEF Typed
<1>2. Numbered' /\ InHandKnown'
  BY <1>0 DEF Numbered, InHandKnown, storeVars
<1>3. CacheDiffers'
  BY DEF CacheDiffers
<1>4. SwapsExplained'
  BY DEF SwapsExplained, storeVars
<1> QED BY <1>1, <1>2, <1>3, <1>4

-----------------------------------------------------------------------------
LEMMA StreamStepInv == StreamInv /\ [StreamNext]_streamVars => StreamInv'
<1> SUFFICES ASSUME StreamInv, [StreamNext]_streamVars PROVE StreamInv'
  OBVIOUS
<1>0. /\ feed \in [Feed -> {"none", "open", "ended"}] /\ streamPc \in PcOf
      /\ bnbPrice \in {"initial", "live"} /\ failed \subseteq Emitted
      /\ \A f \in Feed : In(backlog[f]) \subseteq Emitted
      /\ streamPc \notin Handling => inHand = 0
      /\ streamPc \in Handling => inHand \in Emitted
  BY DEF StreamInv, Typed, Numbered, InHandKnown
<1>1. CASE \E f \in Feed : Subscribe(f)
  <2>1. PICK f \in Feed : Subscribe(f)
    BY <1>1
  <2>2. feed' \in [Feed -> {"none", "open", "ended"}]
    BY <1>0, <2>1 DEF Subscribe
  <2>3. streamPc' \in PcOf /\ streamPc \notin Handling /\ streamPc' \notin Handling
    BY <2>1 DEF Subscribe, PcOf, Handling
  <2> QED BY <2>1, <2>2, <2>3, QuietKeeps DEF Subscribe, mainPoolVars, storeVars
<1>2. CASE \E f \in Feed : SelectLog(f)
  BY <1>2, SelectLogKeeps
<1>3. CASE InsertRow \/ InsertBnbPrice \/ AddToBuckets \/ InsertFails
  BY <1>3, HandlingKeeps
<1>4. CASE ElseBreak
  <2>1. \A f \in Feed : In(backlog[f]) = {}
    BY <1>4, InEmpty DEF ElseBreak
  <2>2. streamPc' \in PcOf \ Handling /\ inHand = 0 /\ inHand' = 0
    BY <1>0, <1>4 DEF ElseBreak, PcOf, Handling
  <2> QED BY <1>0, <1>4, <2>1, <2>2, DropKeeps DEF ElseBreak, mainPoolVars, storeVars
<1>5. CASE Reconnect
  <2>1. streamPc' \in PcOf /\ streamPc \notin Handling /\ streamPc' \notin Handling
    BY <1>5 DEF Reconnect, PcOf, Handling
  <2> QED BY <1>0, <1>5, <2>1, QuietKeeps DEF Reconnect, mainPoolVars, storeVars
<1>6. CASE SubscribeFails
  <2>1. streamPc' \in PcOf \ Handling /\ inHand = 0 /\ inHand' = 0
    BY <1>0, <1>6 DEF SubscribeFails, PcOf, Handling
  <2>2. failed \subseteq failed' /\ \A f \in Feed : In(backlog[f]) \subseteq failed'
    BY <1>6 DEF SubscribeFails
  <2>3. failed' \subseteq Emitted
    BY <1>0, <1>6 DEF SubscribeFails
  <2> QED BY <1>0, <1>6, <2>1, <2>2, <2>3, DropKeeps DEF SubscribeFails, mainPoolVars, storeVars
<1>7. CASE RestartRadar
  <2>1. streamPc' \in PcOf \ Handling /\ inHand' = 0 /\ bnbPrice' \in {"initial", "live"}
    BY <1>7 DEF RestartRadar, PcOf, Handling
  <2>2. /\ failed \subseteq failed' /\ \A f \in Feed : In(backlog[f]) \subseteq failed'
        /\ inHand # 0 => inHand \in failed'
    BY <1>7 DEF RestartRadar
  <2>3. failed' \subseteq Emitted
    BY <1>0, <1>7 DEF RestartRadar
  <2>4. cached' = mainPools
    BY <1>7 DEF RestartRadar, LoadMainPoolCache
  <2> QED BY <1>7, <2>1, <2>2, <2>3, <2>4, DropKeeps DEF RestartRadar, mainPoolVars, storeVars
<1>8. CASE \E f \in Feed : Emit(f)
  BY <1>8, EmitKeeps
<1>9. CASE \E F \in SUBSET Feed : FeedsEnd(F)
  <2>1. PICK F \in SUBSET Feed : FeedsEnd(F)
    BY <1>9
  <2>2. feed' \in [Feed -> {"none", "open", "ended"}]
    BY <1>0, <2>1 DEF FeedsEnd
  <2> QED BY <1>0, <2>1, <2>2, QuietKeeps DEF FeedsEnd, mainPoolVars, storeVars
<1>10. CASE \E pools \in SUBSET SwapFeed : RefreshMainPools(pools)
  BY <1>10, RefreshKeeps
<1>11. CASE UNCHANGED streamVars
  BY <1>0, <1>11, QuietKeeps DEF streamVars
<1> QED BY <1>1, <1>2, <1>3, <1>4, <1>5, <1>6, <1>7, <1>8, <1>9, <1>10, <1>11
        DEF StreamNext, StreamStep

\* Every swap of a pool that was in main_pools all along is counted, or is one of those the
\* feed, the backlog, a failed call or an exit took; for any number of kinds of pools and
\* any bounds (stream_listener.rs run_stream_listener, insert_swap).
THEOREM SwapsAlwaysExplained == StreamSpec => []SwapsExplained
<1>1. StreamInv => SwapsExplained
  BY DEF StreamInv
<1> QED BY <1>1, StreamInitInv, StreamStepInv, PTL DEF StreamSpec
=============================================================================
