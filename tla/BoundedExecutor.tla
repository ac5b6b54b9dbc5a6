--------------------------- MODULE BoundedExecutor ---------------------------
(* What the worker pool promises its callers (internal/workers/pool.go):   *)
(* never more than Capacity tasks at once, and a process that ends in good *)
(* order only when no task is left running.                                *)
EXTENDS Naturals, FiniteSets

CONSTANTS
    Tasks,      \* task identities
    Capacity,   \* size of the semaphore
    MayCrash    \* may the process also end at any moment

VARIABLES
    running,    \* tasks that hold a slot
    open        \* is the process alive

vars == <<running, open>>

Init == running = {} /\ open = TRUE

(* Submit lets one more task in.                                           *)
Begin(t) ==
    /\ open
    /\ t \notin running
    /\ Cardinality(running) < Capacity
    /\ running' = running \cup {t}
    /\ UNCHANGED open

End(t) ==
    /\ t \in running
    /\ running' = running \ {t}
    /\ UNCHANGED open

(* Wait has returned: nothing is running.                                  *)
Close ==
    /\ open
    /\ running = {}
    /\ open' = FALSE
    /\ UNCHANGED running

Kill ==
    /\ MayCrash
    /\ open
    /\ open' = FALSE
    /\ running' = {}

Reopen ==
    /\ ~open
    /\ open' = TRUE
    /\ UNCHANGED running

Next ==
    \/ \E t \in Tasks : Begin(t) \/ End(t)
    \/ Close \/ Kill \/ Reopen

Spec == Init /\ [][Next]_vars
=============================================================================
