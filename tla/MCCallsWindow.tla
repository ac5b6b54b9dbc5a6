---------------------------- MODULE MCCallsWindow ----------------------------
(* Instances of CallsWindow for TLC.                                       *)
EXTENDS CallsWindow, TLC

CONSTANTS x1, x2

MCSymmetry == Permutations({x1, x2})
=============================================================================
