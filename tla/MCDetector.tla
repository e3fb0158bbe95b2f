----------------------------- MODULE MCDetector -----------------------------
(***************************************************************************)
(* Model-checking instances of Detector: one token over a few readings of  *)
(* the clock, and two tokens that are told by a channel of one place.      *)
(***************************************************************************)
EXTENDS Detector
=============================================================================
