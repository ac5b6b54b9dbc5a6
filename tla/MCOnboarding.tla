---------------------------- MODULE MCOnboarding ----------------------------
(* Instances of Onboarding for TLC.                                        *)
EXTENDS Onboarding, TLC

CONSTANTS n1, n2, i1, r1, r2

(* One number has a second form, with the country code.                    *)
MCNormalizePhone == (n1 :> n1) @@ (i1 :> n1) @@ (n2 :> n2)
=============================================================================
