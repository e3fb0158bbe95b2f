---------------------------- MODULE BatchLedger ----------------------------
(***************************************************************************)
(* What a backfill promises about its batches, whoever carries them: each  *)
(* is settled once, stored or given up, and the run ends when none is open *)
(* (archive-ts/scripts/backfill.ts main).                                  *)
(***************************************************************************)
CONSTANT Batch

VARIABLES
    open,     \* not settled
    kept,     \* stored
    dropped,  \* given up: fetching or storing failed
    closed    \* the run has ended

ledgerVars == <<open, kept, dropped, closed>>

\* A run that was never started is closed from the beginning.
LedgerInit ==
    /\ open \in SUBSET Batch
    /\ kept = {} /\ dropped = {}
    /\ closed \in BOOLEAN /\ (closed => open = {})

Settle(b) ==
    /\ b \in open /\ ~closed
    /\ open' = open \ {b}
    /\ \/ kept' = kept \cup {b} /\ UNCHANGED dropped
       \/ dropped' = dropped \cup {b} /\ UNCHANGED kept
    /\ UNCHANGED closed

Close ==
    /\ open = {} /\ ~closed
    /\ closed' = TRUE
    /\ UNCHANGED <<open, kept, dropped>>

LedgerNext == Close \/ \E b \in Batch : Settle(b)

LedgerSafety == LedgerInit /\ [][LedgerNext]_ledgerVars
LedgerSpec == LedgerSafety /\ WF_ledgerVars(LedgerNext)
=============================================================================
