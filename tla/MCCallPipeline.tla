--------------------------- MODULE MCCallPipeline ---------------------------
(* Instances of CallPipeline for TLC.                                      *)
EXTENDS CallPipeline, TLC

CONSTANTS e1, e2, c1, c2, c3, x1, x2, r1

MCOneOwner   == (c1 :> e1) @@ (c2 :> e1)
MCThreeCalls == (c1 :> e1) @@ (c2 :> e1) @@ (c3 :> e1)

(* Executions and, where one exophone owns all, calls are interchangeable. *)
MCSymmetry == Permutations({x1, x2}) \cup Permutations({c1, c2, c3})
=============================================================================
