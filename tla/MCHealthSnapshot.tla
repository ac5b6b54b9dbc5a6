-------------------------- MODULE MCHealthSnapshot --------------------------
(* Instances of HealthSnapshot for TLC.                                    *)
EXTENDS HealthSnapshot, TLC

CONSTANTS e1, e2, f1, f2, r1, r2

(* Refreshes and requests are interchangeable.                             *)
MCSymmetry == Permutations({f1, f2}) \cup Permutations({r1, r2})
=============================================================================
