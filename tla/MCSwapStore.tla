---------------------------- MODULE MCSwapStore ----------------------------
(***************************************************************************)
(* Model-checking instances of SwapStore: small sets of swaps, timestamps  *)
(* and backfill processes.                                                 *)
(***************************************************************************)
EXTENDS SwapStore
=============================================================================
