----------------------------- MODULE MCBaseline -----------------------------
(***************************************************************************)
(* Model-checking instances of Baseline: every trading pattern with a      *)
(* short day, and steady tokens with the constants of the program.         *)
(***************************************************************************)
EXTENDS Baseline
=============================================================================
