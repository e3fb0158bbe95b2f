----------------------------- MODULE MCBackfill -----------------------------
(***************************************************************************)
(* Model-checking instance of the backfill binary: the pipeline, with more *)
(* batches than it can hold, so that every limit is reached; and what the  *)
(* batches of a short range make of their logs.  The two share no variable *)
(* and a behaviour is of one of them, with the other at its end.           *)
(***************************************************************************)
EXTENDS Backfill, BatchRows

PipelineAtRest ==
    /\ phase = [j \in Jobs |-> "done"] /\ main = "done" /\ collector = "ended"
    /\ staged = {} /\ stored = Jobs /\ errors = 0 /\ unflushed = 0 /\ kills = 0

BatchesAtRest ==
    /\ headTime = [b \in BlockNumber |-> 1] /\ priceLogs = {}
    /\ toBlock = 0 /\ batchSize = 1 /\ waiting = {}
    /\ bnbCache = NoPrice /\ batchRows = {} /\ givenUp = {} /\ gaps = 0

BackfillInit ==
    \/ Init /\ BatchesAtRest
    \/ PipelineAtRest /\ BatchInit

BackfillNext ==
    \/ Next /\ UNCHANGED batchVars
    \/ BatchNext /\ UNCHANGED vars

BackfillFairSpec ==
    /\ BackfillInit /\ [][BackfillNext]_<<vars, batchVars>>
    /\ WF_vars(\E j \in Jobs : JobStep(j)) /\ WF_vars(TaskStep)
=============================================================================
