------------------------------ MODULE AlertLog ------------------------------
(***************************************************************************)
(* What the alerting half of the radar promises, with no tick, no channel  *)
(* and no process in sight: rows enter anomaly_events only when their      *)
(* token and rule are out of cooldown, a combo row never without a recent  *)
(* vol_spike row of the same token, and the alert of a row goes out at     *)
(* most once, in the order of the rows.  Detector implements it.           *)
(***************************************************************************)
EXTENDS Integers, Sequences

CONSTANTS
    Tokens,     \* the token addresses of main_pools
    Times,      \* the instants a detection may carry
    Cooldown    \* AnomalyConfig.cooldown_ms

VARIABLES
    events,     \* every anomaly_events row ever inserted, in the order of its id
    lost,       \* the ids of the rows a database crash has taken away
    delivered   \* the ids whose alert reached the webhook, in order of arrival

vars == <<events, lost, delivered>>

VolSpike == 1
Combo == 2
Rules == {VolSpike, Combo}
Event == [token : Tokens, rule : Rules, at : Times]

\* The rows a query on anomaly_events can still return.
Stored == (1 .. Len(events)) \ lost

\* A row of token t and rule r detected at time `since` or later exists.
FiredSince(t, r, since) ==
    \E i \in Stored : /\ events[i].token = t
                      /\ events[i].rule = r
                      /\ events[i].at >= since

Init == events = <<>> /\ lost = {} /\ delivered = <<>>

Record(t, r, at) ==
    /\ ~FiredSince(t, r, at - Cooldown)
    /\ r = Combo => \E i \in 1 .. Len(events) : /\ events[i].token = t
                                                /\ events[i].rule = VolSpike
                                                /\ events[i].at >= at - Cooldown
    /\ events' = Append(events, [token |-> t, rule |-> r, at |-> at])
    /\ UNCHANGED <<lost, delivered>>

Deliver(i) ==
    /\ \A d \in 1 .. Len(delivered) : delivered[d] < i
    /\ delivered' = Append(delivered, i)
    /\ UNCHANGED <<events, lost>>

Lose(k) ==
    /\ lost' = lost \cup (k + 1 .. Len(events))
    /\ UNCHANGED <<events, delivered>>

Next ==
    \/ \E t \in Tokens, r \in Rules, at \in Times : Record(t, r, at)
    \/ \E i \in 1 .. Len(events) : Deliver(i)
    \/ \E k \in 0 .. Len(events) : Lose(k)

Spec == Init /\ [][Next]_vars
=============================================================================
