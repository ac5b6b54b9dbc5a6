----------------------------- MODULE MCBackfill -----------------------------
(* Instances of Backfill for TLC.                                          *)
EXTENDS Backfill

CONSTANTS e1, e2, d1, d2, s1, s2, w1, w2

(* A date once, and a date that was listed three times.                          *)
MCBodies == {<<d1>>, <<d1, d1, d1>>}
=============================================================================
