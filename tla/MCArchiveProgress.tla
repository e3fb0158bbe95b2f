------------------------- MODULE MCArchiveProgress -------------------------
(***************************************************************************)
(* Loops that have to get somewhere: the liveness probe, the discovery of  *)
(* pools and the queue of the archived programs, and the stream task of    *)
(* the radar.  They share no variable, and a behaviour is of one of them:  *)
(* the others are at an end where nothing is enabled (a program that was   *)
(* shut down, a scan and a run of nothing, a stream nothing comes from any *)
(* more), so that each one's fairness stands as its module has it.         *)
(***************************************************************************)
EXTENDS ListenerProbe, FetchQueue, Discovery, StreamListener

progressVars == <<probeVars, queueVars, scanVars, streamVars>>

ProbeAtRest ==
    /\ subs = [k \in Kind |-> 0] /\ deaf = {} /\ socketUp = TRUE /\ toStart = {}
    /\ silence = 0 /\ cool = Cooldown /\ due = Interval /\ checks = 0
    /\ known = FALSE /\ ahead = TRUE /\ probing = FALSE /\ running = FALSE
    /\ startFaults = 0 /\ remounted = FALSE

QueueAtRest ==
    /\ span = 0 /\ batch = 1 /\ next = 0
    /\ fetcher = [f \in Fetcher |-> [pc |-> "done", job |-> 0]]
    /\ flushQueue = <<>>
    /\ flusher = [w \in Flusher |-> [pc |-> "done", job |-> 0]]
    /\ fetchersDone = TRUE
    /\ stored = {} /\ lost = {} /\ ended = TRUE

ScanAtRest ==
    /\ scanTo = 0 /\ step = 0 /\ wanted = {} /\ dump = {} /\ poolRows = {}
    /\ cursor = 1 /\ found = {} /\ missed = {} /\ listed = {}
    /\ scanner = [w \in Scanner |-> [pc |-> "done", range |-> 0]]
    /\ scanPc = "end" /\ scanFaults = 0

StreamAtRest ==
    /\ mainPools = {} /\ cached = {} /\ touched = {}
    /\ feed = [f \in Feed |-> "open"] /\ backlog = [f \in Feed |-> <<>>]
    /\ streamPc = "select" /\ inHand = 0 /\ bnbPrice = "initial"
    /\ logs = [n \in 1..MaxLogs |-> BnbFeed] /\ unheard = 1..MaxLogs
    /\ rowOf = {} /\ countedOf = {} /\ lagged = {} /\ failed = {}
    /\ ends = MaxEnds /\ streamFaults = MaxStreamFaults /\ refreshes = MaxRefresh

ProgressInit ==
    \/ ProbeInit /\ QueueAtRest /\ ScanAtRest /\ StreamAtRest
    \/ ProbeAtRest /\ QueueInit /\ ScanAtRest /\ StreamAtRest
    \/ ProbeAtRest /\ QueueAtRest /\ ScanInit /\ StreamAtRest
    \/ ProbeAtRest /\ QueueAtRest /\ ScanAtRest /\ StreamInit

ProgressNext ==
    \/ ProbeNext /\ UNCHANGED <<queueVars, scanVars, streamVars>>
    \/ QueueNext /\ UNCHANGED <<probeVars, scanVars, streamVars>>
    \/ ScanNext /\ UNCHANGED <<probeVars, queueVars, streamVars>>
    \/ StreamNext /\ UNCHANGED <<probeVars, queueVars, scanVars>>

ProgressSpec ==
    /\ ProgressInit /\ [][ProgressNext]_progressVars
    /\ ProbeFairness /\ QueueFairness /\ StreamFairness
=============================================================================
