--------------------------- MODULE ListenerProbe ---------------------------
(***************************************************************************)
(* The subscriptions of the archived program and the probe that mounts     *)
(* them again after a silence (archive-ts/src/core/livenessProbe.ts,       *)
(* swap-listener.ts, index.ts).                                            *)
(*                                                                         *)
(* Time is kept as ages that stop growing at the threshold they are        *)
(* compared with, so that no clock bounds a behaviour.  A check waits for  *)
(* the number of the last block; a slow answer lets the next check start.  *)
(* Remounting has only await expressions that resolve in the same turn, so *)
(* it is one step.                                                         *)
(*                                                                         *)
(* The block numbers come over the same websocket as the swaps             *)
(* (clients/viem-clients.ts): when nothing comes over it, the checks fail  *)
(* too, and nothing but the transport can bring it back, for the client is *)
(* reset only by a remount and that only after an answered check.          *)
(***************************************************************************)
EXTENDS Integers, FiniteSets

CONSTANTS
    Interval,        \* CHECK_INTERVAL_MS
    Silence,         \* SWAP_SILENCE_THRESHOLD_MS
    Cooldown,        \* REMOUNT_COOLDOWN_MS
    MaxChecks,       \* bound: checks waiting for an answer
    MaxStartFaults   \* bound: subscriptions that fail to start

ASSUME ProbeAssumption ==
    /\ Interval \in Nat \ {0} /\ Silence \in Nat \ {0} /\ Cooldown \in Nat \ {0}
    /\ MaxChecks \in Nat \ {0} /\ MaxStartFaults \in Nat

SupportedDexes == {"v3", "v4", "pancake-v3"}             \* those of the probe
Dexes == SupportedDexes \cup {"pancake-v4-cl"}           \* those of main
Kind == Dexes \cup {"bnb"}

Min2(a, b) == IF a < b THEN a ELSE b

VARIABLES
    subs,        \* kind -> subscriptions that are mounted
    deaf,        \* kinds whose subscription delivers nothing any more
    socketUp,    \* the websocket carries something: it is neither closed nor open and silent
    toStart,     \* kinds main has still to start
    silence,     \* since the last swap or remount
    cool,        \* since the last remount
    due,         \* of the timer: to the next check
    checks,      \* checks that wait for a block number
    known,       \* a block number was read before
    ahead,       \* the chain has moved since it was
    probing,     \* the timer is set
    running,     \* no signal yet
    startFaults,
    remounted    \* history: there was a remount

probeVars == <<subs, deaf, socketUp, toStart, silence, cool, due, checks, known, ahead,
               probing, running, startFaults, remounted>>

ProbeTypeOK ==
    /\ subs \in [Kind -> Nat]
    /\ deaf \subseteq Kind /\ toStart \subseteq Kind
    /\ silence \in 0..Silence /\ cool \in 0..Cooldown /\ due \in 0..Interval
    /\ checks \in 0..MaxChecks
    /\ socketUp \in BOOLEAN /\ known \in BOOLEAN /\ ahead \in BOOLEAN
    /\ probing \in BOOLEAN /\ running \in BOOLEAN /\ remounted \in BOOLEAN
    /\ startFaults \in 0..MaxStartFaults

Hearing == {k \in Kind : subs[k] > 0} \ deaf

ProbeInit ==
    /\ subs = [k \in Kind |-> 0] /\ deaf = {} /\ socketUp = TRUE /\ toStart = Kind
    /\ silence = 0 /\ cool = Cooldown /\ due = Interval /\ checks = 0
    /\ known = FALSE /\ ahead = TRUE /\ probing = FALSE /\ running = TRUE
    /\ startFaults = 0 /\ remounted = FALSE

-----------------------------------------------------------------------------
\* main: each listener is tried once; the probe starts after the last.  A subscription that
\* starts while the websocket is down hears nothing.
StartSwapListener(k) ==
    /\ running /\ k \in toStart
    /\ k = "bnb" => toStart = {"bnb"}
    /\ toStart' = toStart \ {k}
    /\ \/ /\ subs' = [subs EXCEPT ![k] = @ + 1] /\ UNCHANGED startFaults
          /\ deaf' = IF socketUp THEN deaf ELSE deaf \cup {k}
       \/ /\ startFaults < MaxStartFaults /\ startFaults' = startFaults + 1
          /\ UNCHANGED <<subs, deaf>>
    /\ UNCHANGED <<socketUp, silence, cool, due, checks, known, ahead, probing, running, remounted>>

StartLivenessProbe ==
    /\ running /\ toStart = {} /\ ~probing
    /\ probing' = TRUE /\ silence' = 0 /\ due' = Interval
    /\ UNCHANGED <<subs, deaf, socketUp, toStart, cool, checks, known, ahead, running,
                   startFaults, remounted>>

\* A subscription ends without a word.
GoDeaf(k) ==
    /\ subs[k] > 0 /\ k \notin deaf
    /\ deaf' = deaf \cup {k}
    /\ UNCHANGED <<subs, socketUp, toStart, silence, cool, due, checks, known, ahead, probing,
                   running, startFaults, remounted>>

\* The websocket is lost, or stays open and silent, with all that it carries.
SocketDown ==
    /\ running /\ socketUp /\ socketUp' = FALSE
    /\ deaf' = {k \in Kind : subs[k] > 0}
    /\ UNCHANGED <<subs, toStart, silence, cool, due, checks, known, ahead, probing, running,
                   startFaults, remounted>>

\* The transport reconnects, and may subscribe again to what it carried.
SocketBack ==
    /\ ~socketUp /\ socketUp' = TRUE
    /\ deaf' \in {deaf, {}}
    /\ UNCHANGED <<subs, toStart, silence, cool, due, checks, known, ahead, probing, running,
                   startFaults, remounted>>

\* markAlive on a stored swap of any kind; the BNB price emits no event.
MarkAlive(k) ==
    /\ k \in Hearing \ {"bnb"} /\ silence > 0
    /\ silence' = 0
    /\ UNCHANGED <<subs, deaf, socketUp, toStart, cool, due, checks, known, ahead, probing, running,
                   startFaults, remounted>>

ChainAdvances ==
    /\ ~ahead /\ ahead' = TRUE
    /\ UNCHANGED <<subs, deaf, socketUp, toStart, silence, cool, due, checks, known, probing,
                   running, startFaults, remounted>>

Tick ==
    /\ probing /\ due > 0
    /\ due' = due - 1
    /\ silence' = Min2(silence + 1, Silence)
    /\ cool' = Min2(cool + 1, Cooldown)
    /\ UNCHANGED <<subs, deaf, socketUp, toStart, checks, known, ahead, probing, running,
                   startFaults, remounted>>

\* checkChain, to its await: nothing to do before the threshold.
StartCheck ==
    /\ probing /\ due = 0
    /\ due' = Interval
    /\ IF silence < Silence THEN UNCHANGED checks ELSE checks < MaxChecks /\ checks' = checks + 1
    /\ UNCHANGED <<subs, deaf, socketUp, toStart, silence, cool, known, ahead, probing,
                   running, startFaults, remounted>>

GetBlockNumberFails ==
    /\ checks > 0 /\ checks' = checks - 1
    /\ UNCHANGED <<subs, deaf, socketUp, toStart, silence, cool, due, known, ahead, probing,
                   running, startFaults, remounted>>

\* A node that lags behind, or two answers that crossed: the older number replaces the
\* newer one, and nothing else happens.
StaleAnswer ==
    /\ checks > 0 /\ known /\ socketUp
    /\ checks' = checks - 1 /\ ahead' = TRUE
    /\ UNCHANGED <<subs, deaf, socketUp, toStart, silence, cool, due, known, probing, running,
                   startFaults, remounted>>

\* Mutant: the old subscriptions stay.
RemountBeside(failed) ==
    /\ subs' = [k \in Kind |-> subs[k] + (IF k \in SupportedDexes \ failed THEN 1 ELSE 0)]
    /\ deaf' = {}
    /\ startFaults' = startFaults + Cardinality(failed)
    /\ silence' = 0 /\ cool' = 0 /\ remounted' = TRUE

\* remountChain: stopListenersForChain stops what is mounted, a new client starts three.
RemountChain(failed) ==
    /\ subs' = [k \in Kind |-> IF k \in SupportedDexes \ failed THEN 1 ELSE 0]
    /\ deaf' = {}
    /\ startFaults' = startFaults + Cardinality(failed)
    /\ silence' = 0 /\ cool' = 0 /\ remounted' = TRUE

\* Mutant: the first number is not kept (the return for a missing one comes first).
ForgetfulCheck ==
    /\ socketUp /\ checks > 0 /\ checks' = checks - 1
    /\ UNCHANGED known /\ ahead' = FALSE
    /\ IF known /\ ahead /\ cool >= Cooldown
         THEN \E failed \in SUBSET SupportedDexes :
                /\ startFaults + Cardinality(failed) <= MaxStartFaults
                /\ RemountChain(failed)
         ELSE UNCHANGED <<subs, deaf, silence, cool, startFaults, remounted>>
    /\ UNCHANGED <<socketUp, toStart, due, probing, running>>

\* The rest of checkChain.  Nothing is asked again: neither the silence nor the timer.
CheckChain ==
    /\ socketUp /\ checks > 0 /\ checks' = checks - 1
    /\ known' = TRUE /\ ahead' = FALSE
    /\ IF known /\ ahead /\ cool >= Cooldown
         THEN \E failed \in SUBSET SupportedDexes :
                /\ startFaults + Cardinality(failed) <= MaxStartFaults
                /\ RemountChain(failed)
         ELSE UNCHANGED <<subs, deaf, silence, cool, startFaults, remounted>>
    /\ UNCHANGED <<socketUp, toStart, due, probing, running>>

\* shutdown: stopLivenessProbe, stopAllListeners; a check that waits goes on, and while
\* the database closes it may still remount.
Shutdown ==
    /\ running /\ running' = FALSE
    /\ probing' = FALSE
    /\ subs' = [k \in Kind |-> 0] /\ deaf' = {}
    /\ UNCHANGED <<socketUp, toStart, silence, cool, due, checks, known, ahead, startFaults,
                   remounted>>

ProbeNext ==
    \/ \E k \in Kind : StartSwapListener(k) \/ GoDeaf(k) \/ MarkAlive(k)
    \/ SocketDown \/ SocketBack
    \/ StartLivenessProbe \/ ChainAdvances \/ Tick \/ StartCheck
    \/ GetBlockNumberFails \/ StaleAnswer \/ CheckChain \/ Shutdown

\* The websocket stays up from some time on.
SocketHolds == <>[]socketUp

\* The timer fires, and the chain makes a block every second or so.  Of the block numbers
\* that are asked for again and again over a websocket that stays up, some arrive when the
\* chain has moved; of one that is down, or comes and goes, nothing is assumed.
ProbeFairness ==
    /\ WF_probeVars(Tick) /\ WF_probeVars(StartCheck) /\ WF_probeVars(ChainAdvances)
    /\ SocketHolds => SF_probeVars(ahead /\ CheckChain)

ProbeSpec == ProbeInit /\ [][ProbeNext]_probeVars /\ ProbeFairness

-----------------------------------------------------------------------------
\* A kind is never subscribed twice, so a log is not counted twice by a remount; and a
\* remount, which stops all five kinds, brings back three: the listener of PancakeSwap V4
\* and that of the BNB price stay away until the program is started again
\* (livenessProbe.ts:10 lists three, index.ts:17 four).
OneSubscription ==
    /\ \A k \in Kind : subs[k] <= 1
    /\ remounted => \A k \in Kind \ SupportedDexes : subs[k] = 0

Deafened == probing /\ Hearing \ {"bnb"} = {}

\* Once the websocket stays up, subscriptions that can report a swap and have all gone
\* silent, with the websocket before or one by one, are mounted again, however many block
\* numbers the probe fails to get and however many of them fail to start
\* (livenessProbe.ts checkChain).  While one kind still reports, nobody notices the others;
\* and of a websocket that is open and silent for good, nobody notices anything.
DeafHeals == SocketHolds => (Deafened ~> ~Deafened)
=============================================================================
