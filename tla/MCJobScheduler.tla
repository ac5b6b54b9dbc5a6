--------------------------- MODULE MCJobScheduler ---------------------------
(* Instances of JobScheduler for TLC.                                      *)
EXTENDS JobScheduler, TLC

CONSTANTS e1, e2, j1, j2, p1, p2, g1, g2, g3

(* Two jobs of one exophone, as onboarding creates them, and one each.     *)
MCSameExophone == (j1 :> e1) @@ (j2 :> e1)
MCOneJob       == (j1 :> e1)
MCOneJobEach   == (j1 :> e1) @@ (j2 :> e2)

(* Poll slots and goroutine ids are interchangeable.                       *)
MCSymmetry == Permutations({p1, p2}) \cup Permutations({g1, g2, g3})
=============================================================================
