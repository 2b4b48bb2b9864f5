----------------------------- MODULE MCRecorder -----------------------------
(***************************************************************************)
(* Recorder with two channels, which no action and no property tells apart *)
(* but by being unlike.                                                    *)
(***************************************************************************)
EXTENDS Recorder, TLC

CONSTANTS c1, c2

Symmetry == Permutations({c1, c2})
=============================================================================
