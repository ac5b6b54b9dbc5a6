----------------------------- MODULE CallLedger -----------------------------
(* What counting promises for the calls of one day, when the executions of *)
(* an exophone do not overlap (internal/workers/job_worker.go executeCalls,*)
(* internal/snapshots/generator.go): a call is taken once, the calls taken *)
(* by an execution are counted together or lost together, and nothing is   *)
(* counted that was not taken.                                             *)

CONSTANTS
    Exophones,
    Calls,
    MayLose,    \* may a taken batch be lost
    MayWipe     \* may the day's row be started afresh

VARIABLE stage      \* the stage of every call, for every exophone

Stages == {"unseen", "pending", "counted", "lost"}

Init == stage = [e \in Exophones |-> [c \in Calls |-> "unseen"]]

Move(e, s, t) ==
    stage' = [stage EXCEPT ![e] =
                 [c \in Calls |-> IF stage[e][c] = s THEN t ELSE stage[e][c]]]

Take(e, c) ==
    /\ stage[e][c] = "unseen"
    /\ stage' = [stage EXCEPT ![e][c] = "pending"]

Settle(e) == Move(e, "pending", "counted")

(* The batches in flight are gone, of some exophones or of all.            *)
Lose ==
    /\ MayLose
    /\ \E es \in SUBSET Exophones :
          stage' = [e \in Exophones |-> [c \in Calls |->
                       IF e \in es /\ stage[e][c] = "pending" THEN "lost"
                                                              ELSE stage[e][c]]]

(* The row is written as if the batch were the first of the day.           *)
Wipe(e) ==
    /\ MayWipe
    /\ stage' = [stage EXCEPT ![e] =
                    [c \in Calls |-> IF stage[e][c] = "pending" THEN "counted"
                                     ELSE IF stage[e][c] = "counted" THEN "lost"
                                     ELSE stage[e][c]]]

Next ==
    \/ \E e \in Exophones : Settle(e) \/ Wipe(e) \/ \E c \in Calls : Take(e, c)
    \/ Lose

Spec == Init /\ [][Next]_stage
=============================================================================
