---------------------------- MODULE MCJobAttempt ----------------------------
(* Instances of JobAttempt for TLC.                                        *)
EXTENDS JobAttempt
=============================================================================
