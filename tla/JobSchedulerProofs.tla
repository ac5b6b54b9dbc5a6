-------------------------- MODULE JobSchedulerProofs --------------------------
(* Proofs about JobScheduler for every number of jobs, pollers and          *)
(* goroutines and every pool size.                                          *)
(* The last two sections are what there is without fairness of              *)
(* ShutdownCompletes and PausedQuiesces: what is left to do gets less.      *)
EXTENDS JobScheduler, FiniteSetTheorems, TLAPS

-----------------------------------------------------------------------------
(* Type correctness.                                                        *)

(* The record of a goroutine that exists has all its fields.                *)
LEMMA LiveIsRunning ==
    ASSUME TypeOK, NEW w \in Goroutines, worker[w].pc # "none"
    PROVE  worker[w] \in Running
  BY DEF TypeOK, NoGoroutine

LEMMA TypeInit == ASSUME Init PROVE TypeOK
<1>1. prio \in [Jobs -> Priorities] /\ config \in [Priorities -> Frequencies]
  BY SchedulerAssumption DEF Init, SchedulerAssumption
<1>2. freq \in [Jobs -> Frequencies]
  BY <1>1 DEF Init
<1>3. left \in [Jobs -> Int] /\ lives \in 1 .. MaxLives
  BY SchedulerAssumption DEF Init, SchedulerAssumption
<1>4. worker \in [Goroutines -> {NoGoroutine} \cup Running]
  BY DEF Init
<1>5. poll \in [Pollers -> [pc : {"idle", "submit", "spawn"}, todo : SUBSET JobCopy]]
  BY DEF Init, IdlePoll
<1>6. active \in [Jobs -> BOOLEAN] /\ polled \in BOOLEAN /\ faulted \in BOOLEAN
  BY Zenon DEF Init
<1>7. sem \in Int /\ wg \in Int /\ phase \in Phases
  BY DEF Init, Phases
<1>8. stamped \subseteq Jobs /\ orphan \subseteq Jobs /\ refreshing \subseteq Exophones
  BY DEF Init
<1>9. cron \in [Exophones -> BOOLEAN]
  BY DEF Init
<1> QED
  BY <1>1, <1>2, <1>3, <1>4, <1>5, <1>6, <1>7, <1>8, <1>9 DEF TypeOK

LEMMA TypeNext == ASSUME TypeOK, [Next]_vars PROVE TypeOK'
<1> USE SchedulerAssumption DEF TypeOK, Phases, TxnState
<1>1. CASE Tick
  <2>1. left' \in [Jobs -> Int]
    <3>1. \A j \in Jobs : left[j] \in Int /\ left[j] - 1 \in Int
      OBVIOUS
    <3> QED
      BY <1>1, <3>1 DEF Tick
  <2> QED
    BY <1>1, <2>1 DEF Tick, adminVars
<1>2. ASSUME NEW p \in Pollers, Poll(p) PROVE TypeOK'
  <2>1. DueJobs \in SUBSET JobCopy
    BY DEF DueJobs, JobCopy
  <2>2. [pc |-> "submit", todo |-> DueJobs]
           \in [pc : {"idle", "submit", "spawn"}, todo : SUBSET JobCopy]
    BY <2>1
  <2>3. poll' \in [Pollers -> [pc : {"idle", "submit", "spawn"}, todo : SUBSET JobCopy]]
    BY <1>2, <2>2 DEF Poll, IdlePoll
  <2> QED
    BY <1>2, <2>3 DEF Poll, dbVars, adminVars
<1>3. ASSUME NEW p \in Pollers, Acquire(p) PROVE TypeOK'
  BY <1>3 DEF Acquire, dbVars, adminVars
<1>4. ASSUME NEW p \in Pollers, Spawn(p) PROVE TypeOK'
  <2>1. PICK c \in poll[p].todo, w \in Goroutines :
           /\ worker' = [worker EXCEPT ![w] = Goroutine(c)]
           /\ poll' = [poll EXCEPT ![p] =
                 IF poll[p].todo \ {c} = {} THEN IdlePoll
                 ELSE [pc |-> "submit", todo |-> poll[p].todo \ {c}]]
    BY <1>4 DEF Spawn
  <2>2. Goroutine(c) \in Running
    BY DEF Goroutine, Running, JobCopy, Steps
  <2>3. worker' \in [Goroutines -> {NoGoroutine} \cup Running]
    BY <2>1, <2>2
  <2>4. poll' \in [Pollers -> [pc : {"idle", "submit", "spawn"}, todo : SUBSET JobCopy]]
    BY <2>1 DEF IdlePoll
  <2> QED
    BY <1>4, <2>3, <2>4 DEF Spawn, dbVars, adminVars
<1>5. ASSUME NEW w \in Goroutines, ExecuteJob(w) \/ Panic(w) PROVE TypeOK'
  <2>0. worker[w] \in Running
    BY <1>5, LiveIsRunning
    DEF ExecuteJob, CreateTransaction, CallApi, UpdateTransaction,
        AdvanceNextRun, ReleaseSlot, WgDone, Panic
  <2>1. CASE CreateTransaction(w)
    <3>1. worker' \in [Goroutines -> {NoGoroutine} \cup Running]
      BY <2>0, <2>1 DEF CreateTransaction, Running, Steps
    <3> QED
      BY <2>0, <2>1, <3>1 DEF CreateTransaction, Running, dbVars, adminVars
  <2>2. CASE CallApi(w)
    <3>1. worker' \in [Goroutines -> {NoGoroutine} \cup Running]
      <4>1. PICK found \in BOOLEAN :
               worker' = [worker EXCEPT ![w].pc = "update", ![w].found = found]
        BY <2>2 DEF CallApi
      <4>2. [worker[w] EXCEPT !.pc = "update", !.found = found] \in Running
        BY <2>0 DEF Running, Steps
      <4> QED
        BY <4>1, <4>2
    <3> QED
      BY <2>0, <2>2, <3>1 DEF CallApi, Running, dbVars, adminVars
  <2>3. CASE UpdateTransaction(w)
    <3>1. worker' \in [Goroutines -> {NoGoroutine} \cup Running]
      BY <2>0, <2>3 DEF UpdateTransaction, Running, Steps
    <3>2. refreshing' \subseteq Exophones
      <4>1. ExophoneOf[worker[w].job] \in Exophones
        BY <2>0 DEF Running, SchedulerAssumption
      <4> QED
        BY <2>3, <4>1 DEF UpdateTransaction
    <3> QED
      BY <2>3, <3>1, <3>2 DEF UpdateTransaction, dbVars, adminVars
  <2>4. CASE AdvanceNextRun(w)
    <3>1. worker' \in [Goroutines -> {NoGoroutine} \cup Running]
      BY <2>0, <2>4 DEF AdvanceNextRun, Running, Steps
    <3>2. worker[w].freq \in Int
      <4>1. worker[w].freq \in Frequencies
        BY <2>0 DEF Running
      <4>2. \A f \in Frequencies : f \in Int
        BY SchedulerAssumption DEF SchedulerAssumption
      <4> QED
        BY <4>1, <4>2
    <3>3. left' \in [Jobs -> Int]
      BY <2>4, <3>2 DEF AdvanceNextRun
    <3>4. faulted' \in BOOLEAN
      BY <2>4 DEF AdvanceNextRun
    <3>5. UNCHANGED <<adminVars, stamped, orphan, phase, polled, poll, sem, wg,
                      refreshing, lives>>
      BY <2>4 DEF AdvanceNextRun
    <3> QED
      BY <3>1, <3>3, <3>4, <3>5 DEF adminVars, TypeOK
  <2>5. CASE ReleaseSlot(w)
    <3>1. worker' \in [Goroutines -> {NoGoroutine} \cup Running]
      BY <2>0, <2>5 DEF ReleaseSlot, Running, Steps
    <3> QED
      BY <2>0, <2>5, <3>1 DEF ReleaseSlot, Running, dbVars, adminVars
  <2>6. CASE WgDone(w)
    <3>1. worker' \in [Goroutines -> {NoGoroutine} \cup Running]
      BY <2>0, <2>6 DEF WgDone, Running, Steps
    <3> QED
      BY <2>0, <2>6, <3>1 DEF WgDone, Running, dbVars, adminVars
  <2>7. CASE Panic(w)
    <3>1. worker' \in [Goroutines -> {NoGoroutine} \cup Running]
      BY <2>0, <2>7 DEF Panic, Running, Steps
    <3> QED
      BY <2>0, <2>7, <3>1 DEF Panic, Running, dbVars, adminVars
  <2> QED
    BY <1>5, <2>1, <2>2, <2>3, <2>4, <2>5, <2>6, <2>7 DEF ExecuteJob
<1>6. ASSUME NEW e \in Exophones, RefreshDone(e) PROVE TypeOK'
  BY <1>6 DEF RefreshDone, dbVars, adminVars
<1>7. CASE Admin
  <2>1. ASSUME NEW e \in Exophones, NEW val \in BOOLEAN, SetCronApplicable(e, val)
        PROVE  TypeOK'
    BY <2>1 DEF SetCronApplicable, processVars
  <2>2. ASSUME NEW e \in Exophones, NEW p \in Priorities, NEW f \in Frequencies,
               UpdatePriority(e, p, f)
        PROVE  TypeOK'
    BY <2>2 DEF UpdatePriority, processVars
  <2>3. ASSUME NEW p \in Priorities, NEW f \in Frequencies, UpdatePriorityConfig(p, f)
        PROVE  TypeOK'
    BY <2>3 DEF UpdatePriorityConfig, processVars
  <2> QED
    BY <1>7, <2>1, <2>2, <2>3 DEF Admin
<1>8. CASE Signal \/ StopCron \/ CronStopped
  BY <1>8 DEF Signal, StopCron, CronStopped, dbVars, adminVars
<1>9. CASE Exit \/ Crash
  <2>1. RunningRows \subseteq Jobs
    BY LiveIsRunning DEF RunningRows, Gone, Running
  <2>2. ProcessEnds /\ faulted' \in BOOLEAN
    BY <1>9 DEF Exit, Crash
  <2>3. poll' \in [Pollers -> [pc : {"idle", "submit", "spawn"}, todo : SUBSET JobCopy]]
    BY <2>2 DEF ProcessEnds, IdlePoll
  <2>4. worker' \in [Goroutines -> {NoGoroutine} \cup Running]
    BY <2>2 DEF ProcessEnds
  <2> QED
    BY <2>1, <2>2, <2>3, <2>4 DEF ProcessEnds, adminVars
<1>10. CASE Boot
  BY <1>10 DEF Boot, SchedulerAssumption, dbVars, adminVars
<1>11. CASE UNCHANGED vars
  BY <1>11 DEF vars, dbVars, adminVars, processVars
<1> QED
  BY <1>1, <1>2, <1>3, <1>4, <1>5, <1>6, <1>7, <1>8, <1>9, <1>10, <1>11
  DEF Next, Dispatch, Shutdown

(* Every variable of the scheduler keeps its type.                          *)
THEOREM TypeCorrect == Spec => []TypeOK
<1>1. Init => TypeOK
  BY TypeInit
<1>2. TypeOK /\ [Next]_vars => TypeOK'
  BY TypeNext
<1> QED
  BY <1>1, <1>2, PTL DEF Spec

-----------------------------------------------------------------------------
(* The pool.  PoolAccounting is inductive once a goroutine that is gone     *)
(* stays gone after the process ended, and once scheduler.Stop has returned *)
(* only when no RunDueJobs is left.                                         *)
Quiet ==
    /\ phase \in {"waiting", "exited"} => \A p \in Pollers : poll[p].pc = "idle"
    /\ phase = "exited" => \A w \in Goroutines : Gone(worker[w])

PoolInv == TypeOK /\ PoolAccounting /\ Quiet

LEMMA FiniteSides ==
    /\ IsFiniteSet(Holders) /\ IsFiniteSet(Alive) /\ IsFiniteSet(Spawning)
    /\ Cardinality(Holders) \in Nat
    /\ Cardinality(Alive) \in Nat
    /\ Cardinality(Spawning) \in Nat
<1>1. Holders \in SUBSET Goroutines /\ Alive \in SUBSET Goroutines
                                    /\ Spawning \in SUBSET Pollers
  BY DEF Holders, Alive, Spawning
<1>2. IsFiniteSet(Goroutines) /\ IsFiniteSet(Pollers)
  BY SchedulerAssumption DEF SchedulerAssumption
<1> QED
  BY <1>1, <1>2, FS_Subset, FS_CardinalityType

LEMMA PoolInit == ASSUME Init PROVE PoolInv
<1>1. Holders = {} /\ Alive = {} /\ Spawning = {}
  BY DEF Init, Holders, Alive, Spawning, HoldsSlot, Gone, NoGoroutine, IdlePoll
<1>2. sem = 0 /\ wg = 0 /\ phase = "up"
  BY DEF Init
<1>3. PoolSize \in Nat
  BY SchedulerAssumption DEF SchedulerAssumption
<1> QED
  BY <1>1, <1>2, <1>3, TypeInit, FS_EmptySet DEF PoolInv, PoolAccounting, Quiet

(* A step that moves a goroutine or a poller without changing what it       *)
(* holds, and leaves the counters alone, keeps the books.                   *)
LEMMA SameBooks ==
    ASSUME PoolAccounting, Holders' = Holders, Alive' = Alive,
           Spawning' = Spawning, UNCHANGED <<sem, wg>>
    PROVE  PoolAccounting'
  BY DEF PoolAccounting

LEMMA AcquireBooks ==
    ASSUME PoolInv, NEW p \in Pollers, Acquire(p)
    PROVE  PoolAccounting'
<1>1. Holders' = Holders /\ Alive' = Alive
  BY DEF Acquire, Holders, Alive
<1>2. p \notin Spawning /\ Spawning' = Spawning \cup {p}
  BY DEF PoolInv, TypeOK, Acquire, Spawning
<1>3. Cardinality(Spawning') = Cardinality(Spawning) + 1
  BY <1>2, FiniteSides, FS_AddElement
<1>4. sem' = sem + 1 /\ sem < PoolSize /\ wg' = wg /\ sem \in Int
  BY DEF Acquire, PoolInv, TypeOK
<1>5. PoolSize \in Nat
  BY SchedulerAssumption DEF SchedulerAssumption
<1> QED
  BY <1>1, <1>3, <1>4, <1>5, FiniteSides DEF PoolInv, PoolAccounting

LEMMA SpawnBooks ==
    ASSUME PoolInv, NEW p \in Pollers, Spawn(p)
    PROVE  PoolAccounting'
<1>1. PICK c \in poll[p].todo, w \in Goroutines :
         /\ Gone(worker[w])
         /\ worker' = [worker EXCEPT ![w] = Goroutine(c)]
         /\ poll' = [poll EXCEPT ![p] =
               IF poll[p].todo \ {c} = {} THEN IdlePoll
               ELSE [pc |-> "submit", todo |-> poll[p].todo \ {c}]]
  BY DEF Spawn
<1>2. Goroutine(c).pc = "create"
  BY DEF Goroutine
<1>3. w \notin Holders /\ Holders' = Holders \cup {w}
  BY <1>1, <1>2 DEF PoolInv, TypeOK, Holders, HoldsSlot, Gone
<1>4. w \notin Alive /\ Alive' = Alive \cup {w}
  BY <1>1, <1>2 DEF PoolInv, TypeOK, Alive, Gone
<1>5. p \in Spawning /\ Spawning' = Spawning \ {p}
  BY <1>1 DEF PoolInv, TypeOK, Spawn, Spawning, IdlePoll
<1>6. /\ Cardinality(Holders') = Cardinality(Holders) + 1
      /\ Cardinality(Alive') = Cardinality(Alive) + 1
  BY <1>3, <1>4, FiniteSides, FS_AddElement
<1>7. Cardinality(Spawning') = Cardinality(Spawning) - 1
  BY <1>5, FiniteSides, FS_RemoveElement
<1>8. sem' = sem /\ wg' = wg + 1
  BY DEF Spawn
<1> QED
  BY <1>6, <1>7, <1>8, FiniteSides DEF PoolInv, PoolAccounting

LEMMA ExecuteBooks ==
    ASSUME PoolInv, NEW w \in Goroutines, ExecuteJob(w) \/ Panic(w)
    PROVE  PoolAccounting'
<1>0. /\ worker \in [Goroutines -> {NoGoroutine} \cup Running]
      /\ sem \in Int /\ wg \in Int
  BY DEF PoolInv, TypeOK
<1>1. CASE ReleaseSlot(w)
  <2>1. w \in Holders /\ Holders' = Holders \ {w}
    BY <1>0, <1>1 DEF ReleaseSlot, Holders, HoldsSlot
  <2>2. Alive' = Alive /\ Spawning' = Spawning
    BY <1>0, <1>1 DEF ReleaseSlot, Alive, Gone, Spawning
  <2>3. Cardinality(Holders') = Cardinality(Holders) - 1
    BY <2>1, FiniteSides, FS_RemoveElement
  <2>4. sem' = sem - 1 /\ wg' = wg /\ PoolSize \in Nat
    BY <1>1, SchedulerAssumption DEF ReleaseSlot, SchedulerAssumption
  <2> QED
    BY <1>0, <2>2, <2>3, <2>4, FiniteSides DEF PoolInv, PoolAccounting
<1>2. CASE WgDone(w)
  <2>1. w \in Alive /\ Alive' = Alive \ {w}
    BY <1>0, <1>2 DEF WgDone, NoGoroutine, Alive, Gone
  <2>2. Holders' = Holders /\ Spawning' = Spawning
    BY <1>0, <1>2 DEF WgDone, NoGoroutine, Holders, HoldsSlot, Spawning
  <2>3. Cardinality(Alive') = Cardinality(Alive) - 1
    BY <2>1, FiniteSides, FS_RemoveElement
  <2>4. sem' = sem /\ wg' = wg - 1
    BY <1>2 DEF WgDone
  <2> QED
    BY <1>0, <2>2, <2>3, <2>4, FiniteSides DEF PoolInv, PoolAccounting
<1>3. CASE \/ CreateTransaction(w) \/ CallApi(w) \/ UpdateTransaction(w)
           \/ AdvanceNextRun(w) \/ Panic(w)
  <2>1. /\ worker[w].pc \in {"create", "call", "update", "advance"}
        /\ worker'[w].pc \in {"call", "update", "advance", "release"}
        /\ \A v \in Goroutines \ {w} : worker'[v] = worker[v]
    <3>0. worker[w] \in Running
      BY <1>3, LiveIsRunning
      DEF PoolInv, CreateTransaction, CallApi, UpdateTransaction, AdvanceNextRun, Panic
    <3>1. CASE CreateTransaction(w)
      BY <1>0, <3>0, <3>1 DEF CreateTransaction, Running
    <3>2. CASE CallApi(w)
      BY <1>0, <3>0, <3>2 DEF CallApi, Running
    <3>3. CASE UpdateTransaction(w)
      <4>1. \/ worker' = [worker EXCEPT ![w].pc = "advance", ![w].txn = "ENDED"]
            \/ worker' = [worker EXCEPT ![w].pc = "advance"]
        BY <3>3 DEF UpdateTransaction
      <4>2. worker[w].pc = "update"
        BY <3>3 DEF UpdateTransaction
      <4> QED
        BY <1>0, <3>0, <4>1, <4>2 DEF Running
    <3>4. CASE AdvanceNextRun(w)
      <4>1. worker[w].pc = "advance" /\ worker' = [worker EXCEPT ![w].pc = "release"]
        BY <3>4 DEF AdvanceNextRun
      <4> QED
        BY <1>0, <3>0, <4>1 DEF Running
    <3>5. CASE Panic(w)
      BY <1>0, <3>0, <3>5 DEF Panic, Running
    <3> QED
      BY <1>3, <3>1, <3>2, <3>3, <3>4, <3>5
  <2>2. UNCHANGED <<poll, sem, wg>>
    BY <1>3 DEF CreateTransaction, CallApi, UpdateTransaction, AdvanceNextRun, Panic
  <2>3. Holders' = Holders /\ Alive' = Alive
    BY <2>1 DEF Holders, Alive, HoldsSlot, Gone
  <2>4. Spawning' = Spawning
    BY <2>2 DEF Spawning
  <2> QED
    BY <2>2, <2>3, <2>4, SameBooks DEF PoolInv
<1> QED
  BY <1>1, <1>2, <1>3 DEF ExecuteJob

LEMMA QuietNext == ASSUME PoolInv, [Next]_vars PROVE Quiet'
<1> USE DEF PoolInv, Quiet
<1>0. /\ worker \in [Goroutines -> {NoGoroutine} \cup Running]
      /\ phase \in Phases
      /\ poll \in [Pollers -> [pc : {"idle", "submit", "spawn"}, todo : SUBSET JobCopy]]
  BY DEF TypeOK
<1>1. CASE UNCHANGED <<phase, poll, worker>>
  BY <1>1 DEF Gone
<1>2. ASSUME NEW p \in Pollers, Dispatch(p) PROVE Quiet'
  <2>1. phase \notin {"waiting", "exited"}
    BY <1>2 DEF Dispatch, Poll, Acquire, Spawn
  <2>2. phase' = phase
    BY <1>2 DEF Dispatch, Poll, Acquire, Spawn
  <2> QED
    BY <2>1, <2>2
<1>3. ASSUME NEW w \in Goroutines, ExecuteJob(w) \/ Panic(w) PROVE Quiet'
  <2>1. worker[w].pc # "none"
    BY <1>3 DEF ExecuteJob, CreateTransaction, CallApi, UpdateTransaction,
                AdvanceNextRun, ReleaseSlot, WgDone, Panic
  <2>2. phase # "exited"
    BY <2>1 DEF Gone
  <2>3. UNCHANGED <<phase, poll>>
    BY <1>3 DEF ExecuteJob, CreateTransaction, CallApi, UpdateTransaction,
                AdvanceNextRun, ReleaseSlot, WgDone, Panic
  <2> QED
    BY <2>2, <2>3
<1>4. CASE Signal \/ StopCron \/ CronStopped \/ Boot
  BY <1>4 DEF Signal, StopCron, CronStopped, Boot
<1>5. CASE Exit \/ Crash
  BY <1>5 DEF Exit, Crash, ProcessEnds, Gone, IdlePoll, NoGoroutine
<1>6. CASE Tick \/ (\E e \in Exophones : RefreshDone(e)) \/ Admin \/ UNCHANGED vars
  <2>1. UNCHANGED <<phase, poll, worker>>
    BY <1>6 DEF Tick, RefreshDone, Admin, SetCronApplicable, UpdatePriority,
                UpdatePriorityConfig, processVars, vars
  <2> QED
    BY <2>1, <1>1
<1> QED
  BY <1>2, <1>3, <1>4, <1>5, <1>6 DEF Next, Shutdown

LEMMA BooksNext == ASSUME PoolInv, [Next]_vars PROVE PoolAccounting'
<1>1. CASE UNCHANGED <<poll, sem, wg, worker>>
  <2>1. Holders' = Holders /\ Alive' = Alive /\ Spawning' = Spawning
    BY <1>1 DEF Holders, Alive, Spawning
  <2> QED
    BY <1>1, <2>1, SameBooks DEF PoolInv
<1>2. ASSUME NEW p \in Pollers, Poll(p) PROVE PoolAccounting'
  <2>1. Holders' = Holders /\ Alive' = Alive
    BY <1>2 DEF Poll, Holders, Alive
  <2>2. Spawning' = Spawning
    <3>1. poll[p].pc = "idle" /\ poll'[p].pc \in {"idle", "submit"}
      BY <1>2 DEF PoolInv, TypeOK, Poll, IdlePoll
    <3>2. \A q \in Pollers \ {p} : poll'[q] = poll[q]
      BY <1>2 DEF PoolInv, TypeOK, Poll
    <3> QED
      BY <3>1, <3>2 DEF Spawning
  <2> QED
    BY <1>2, <2>1, <2>2, SameBooks DEF PoolInv, Poll
<1>3. CASE Exit \/ Crash
  <2>1. Holders' = {} /\ Alive' = {} /\ Spawning' = {}
    BY <1>3 DEF Exit, Crash, ProcessEnds, Holders, Alive, Spawning, HoldsSlot,
                Gone, NoGoroutine, IdlePoll
  <2>2. sem' = 0 /\ wg' = 0 /\ PoolSize \in Nat
    BY <1>3, SchedulerAssumption DEF Exit, Crash, ProcessEnds, SchedulerAssumption
  <2> QED
    BY <2>1, <2>2, FS_EmptySet DEF PoolAccounting
<1>4. CASE \/ Tick \/ (\E e \in Exophones : RefreshDone(e)) \/ Admin
           \/ Signal \/ StopCron \/ CronStopped \/ Boot \/ UNCHANGED vars
  <2>1. UNCHANGED <<poll, sem, wg, worker>>
    BY <1>4 DEF Tick, RefreshDone, Admin, SetCronApplicable, UpdatePriority,
                UpdatePriorityConfig, processVars, vars, Signal, StopCron,
                CronStopped, Boot
  <2> QED
    BY <2>1, <1>1
<1> QED
  BY <1>2, <1>3, <1>4, AcquireBooks, SpawnBooks, ExecuteBooks
  DEF Next, Dispatch, Shutdown

LEMMA PoolInvariant == Spec => []PoolInv
<1>1. Init => PoolInv
  BY PoolInit
<1>2. PoolInv /\ [Next]_vars => PoolInv'
  BY TypeNext, BooksNext, QuietNext DEF PoolInv
<1> QED
  BY <1>1, <1>2, PTL DEF Spec

(* The semaphore and the wait group tell the truth in every reachable state *)
(* (Pool.Submit, and its deferred function also after a panic).             *)
THEOREM PoolAccountingHolds == Spec => []PoolAccounting
<1>1. PoolInv => PoolAccounting
  BY DEF PoolInv
<1> QED
  BY <1>1, PoolInvariant, PTL

(* No Submit adds to the wait group once main is in DefaultPool.Wait.       *)
THEOREM NoAddDuringWaitHolds == Spec => NoAddDuringWait
<1>1. PoolInv /\ [Next]_vars => [wg' > wg => phase \notin {"waiting", "exited"}]_vars
  <2> SUFFICES ASSUME PoolInv, Next, wg' > wg
               PROVE  phase \notin {"waiting", "exited"}
    OBVIOUS
  <2>0. wg \in Nat
    BY FiniteSides DEF PoolInv, PoolAccounting
  <2>1. ASSUME NEW p \in Pollers, Dispatch(p)
        PROVE  phase \notin {"waiting", "exited"}
    BY <2>1 DEF Dispatch, Poll, Acquire, Spawn, PoolInv, Quiet
  <2>2. ASSUME NEW w \in Goroutines, ExecuteJob(w) \/ Panic(w)
        PROVE  FALSE
    <3>1. wg' = wg \/ wg' = wg - 1
      BY <2>2 DEF ExecuteJob, CreateTransaction, CallApi, UpdateTransaction,
                  AdvanceNextRun, ReleaseSlot, WgDone, Panic
    <3> QED
      BY <3>1, <2>0
  <2>3. CASE Exit \/ Crash
    BY <2>0, <2>3 DEF Exit, Crash, ProcessEnds
  <2>4. CASE \/ Tick \/ (\E e \in Exophones : RefreshDone(e)) \/ Admin
             \/ Signal \/ StopCron \/ CronStopped \/ Boot
    <3>1. wg' = wg
      BY <2>4 DEF Tick, RefreshDone, Admin, SetCronApplicable, UpdatePriority,
                  UpdatePriorityConfig, processVars, Signal, StopCron,
                  CronStopped, Boot
    <3> QED
      BY <3>1, <2>0
  <2> QED
    BY <2>1, <2>2, <2>3, <2>4 DEF Next, Shutdown
<1> QED
  BY <1>1, PoolInvariant, PTL DEF Spec, NoAddDuringWait

-----------------------------------------------------------------------------
(* The refinement.                                                          *)

LEMMA SpawnBegins ==
    ASSUME PoolInv, NEW p \in Pollers, Spawn(p)
    PROVE  \E w \in Goroutines : Executor!Begin(w)
<1>1. PICK c \in poll[p].todo, w \in Goroutines :
         /\ Gone(worker[w])
         /\ worker' = [worker EXCEPT ![w] = Goroutine(c)]
  BY DEF Spawn
<1>2. Goroutine(c).pc = "create"
  BY DEF Goroutine
<1>3. w \notin Holders /\ Holders' = Holders \cup {w}
  BY <1>1, <1>2 DEF PoolInv, TypeOK, Holders, HoldsSlot, Gone
<1>4. phase # "exited" /\ phase' = phase
  BY DEF Spawn, PoolInv, Quiet
<1>5. Cardinality(Holders) < PoolSize
  <2>1. p \in Spawning
    BY DEF Spawn, Spawning
  <2>2. Cardinality(Spawning) # 0
    BY <2>1, FiniteSides, FS_EmptySet
  <2>3. PoolSize \in Nat
    BY SchedulerAssumption DEF SchedulerAssumption
  <2> QED
    BY <2>2, <2>3, FiniteSides DEF PoolInv, PoolAccounting
<1>6. (phase' # "exited") = (phase # "exited")
  BY <1>4
<1>7. Executor!Begin(w)
  BY <1>3, <1>4, <1>5, <1>6 DEF Executor!Begin, Executor!Cardinality, Cardinality
<1> QED
  BY <1>7

LEMMA WorkerStepRefines ==
    ASSUME PoolInv, NEW w \in Goroutines, ExecuteJob(w) \/ Panic(w)
    PROVE  Executor!End(w) \/ UNCHANGED Executor!vars
<1>0. worker \in [Goroutines -> {NoGoroutine} \cup Running]
  BY DEF PoolInv, TypeOK
<1>1. CASE ReleaseSlot(w)
  <2>1. w \in Holders /\ Holders' = Holders \ {w}
    BY <1>0, <1>1 DEF ReleaseSlot, Holders, HoldsSlot
  <2> QED
    BY <1>1, <2>1 DEF ReleaseSlot, Executor!End
<1>2. CASE ~ReleaseSlot(w)
  <2>1. UNCHANGED phase
    BY <1>2 DEF ExecuteJob, CreateTransaction, CallApi, UpdateTransaction,
                AdvanceNextRun, WgDone, Panic
  <2>2. Holders' = Holders
    <3>1. HoldsSlot(worker[w]) <=> HoldsSlot(worker'[w])
      <4>0. worker[w] \in Running
        BY <1>2, LiveIsRunning
        DEF PoolInv, ExecuteJob, CreateTransaction, CallApi, UpdateTransaction,
            AdvanceNextRun, WgDone, Panic
      <4>1. CASE CreateTransaction(w)
        BY <1>0, <4>0, <4>1 DEF CreateTransaction, Running, HoldsSlot
      <4>2. CASE CallApi(w)
        BY <1>0, <4>0, <4>2 DEF CallApi, Running, HoldsSlot
      <4>3. CASE UpdateTransaction(w)
        <5>1. \/ worker' = [worker EXCEPT ![w].pc = "advance", ![w].txn = "ENDED"]
              \/ worker' = [worker EXCEPT ![w].pc = "advance"]
          BY <4>3 DEF UpdateTransaction
        <5>2. worker[w].pc = "update"
          BY <4>3 DEF UpdateTransaction
        <5> QED
          BY <1>0, <4>0, <5>1, <5>2 DEF Running, HoldsSlot
      <4>4. CASE AdvanceNextRun(w)
        <5>1. worker[w].pc = "advance" /\ worker' = [worker EXCEPT ![w].pc = "release"]
          BY <4>4 DEF AdvanceNextRun
        <5> QED
          BY <1>0, <4>0, <5>1 DEF Running, HoldsSlot
      <4>5. CASE WgDone(w)
        BY <1>0, <4>5 DEF WgDone, NoGoroutine, HoldsSlot
      <4>6. CASE Panic(w)
        BY <1>0, <4>0, <4>6 DEF Panic, Running, HoldsSlot
      <4> QED
        BY <1>2, <4>1, <4>2, <4>3, <4>4, <4>5, <4>6 DEF ExecuteJob
    <3>2. \A v \in Goroutines \ {w} : worker'[v] = worker[v]
      BY <1>0, <1>2 DEF ExecuteJob, CreateTransaction, CallApi, UpdateTransaction,
                        AdvanceNextRun, WgDone, Panic
    <3> QED
      BY <3>1, <3>2 DEF Holders
  <2> QED
    BY <2>1, <2>2 DEF Executor!vars
<1> QED
  BY <1>1, <1>2

LEMMA EndRefines ==
    ASSUME PoolInv, Exit \/ Crash
    PROVE  Executor!Close \/ Executor!Kill \/ UNCHANGED Executor!vars
<1>1. Holders' = {} /\ phase' = "exited" /\ phase # "exited"
  <2>1. \A w \in Goroutines : worker'[w] = NoGoroutine
    BY DEF Exit, Crash, ProcessEnds
  <2>2. Holders' = {}
    BY <2>1 DEF Holders, HoldsSlot, NoGoroutine
  <2>3. phase' = "exited" /\ phase # "exited"
    BY DEF Exit, Crash, ProcessEnds
  <2> QED
    BY <2>2, <2>3
<1>2. CASE Exit
  <2>1. Cardinality(Alive) = 0
    BY <1>2 DEF Exit, PoolInv, PoolAccounting
  <2>2. Alive = {}
    BY <2>1, FiniteSides, FS_EmptySet
  <2>3. Holders = {}
    BY <2>2 DEF Holders, Alive, HoldsSlot, Gone
  <2> QED
    BY <1>1, <2>3 DEF Executor!Close
<1>3. CASE Crash
  BY <1>1, <1>3 DEF Crash, Executor!Kill
<1> QED
  BY <1>2, <1>3

(* The pool, the dispatcher and the drain sequence of main implement the    *)
(* bounded executor: never more than PoolSize executions, and an orderly    *)
(* end only when none is left.                                              *)
THEOREM SchedulerImplementsExecutor == Spec => ImplementsExecutor
<1>1. Init => Executor!Init
  <2> SUFFICES ASSUME Init PROVE Executor!Init
    OBVIOUS
  <2>1. Holders = {} /\ phase = "up"
    BY DEF Init, Holders, HoldsSlot, NoGoroutine
  <2> QED
    BY <2>1 DEF Executor!Init
<1>2. PoolInv /\ [Next]_vars => [Executor!Next]_(Executor!vars)
  <2> SUFFICES ASSUME PoolInv, [Next]_vars
               PROVE  Executor!Next \/ UNCHANGED Executor!vars
    OBVIOUS
  <2>1. ASSUME NEW p \in Pollers, Dispatch(p)
        PROVE  Executor!Next \/ UNCHANGED Executor!vars
    <3>1. CASE Spawn(p)
      BY <3>1, SpawnBegins DEF Executor!Next
    <3>2. CASE Poll(p) \/ Acquire(p)
      BY <3>2 DEF Poll, Acquire, Holders, Executor!vars
    <3> QED
      BY <2>1, <3>1, <3>2 DEF Dispatch
  <2>2. ASSUME NEW w \in Goroutines, ExecuteJob(w) \/ Panic(w)
        PROVE  Executor!Next \/ UNCHANGED Executor!vars
    BY <2>2, WorkerStepRefines DEF Executor!Next
  <2>3. CASE Exit \/ Crash
    BY <2>3, EndRefines DEF Executor!Next
  <2>4. CASE Boot
    <3>1. Holders' = Holders
      BY <2>4 DEF Boot, Holders
    <3> QED
      BY <2>4, <3>1 DEF Boot, Executor!Reopen, Executor!Next
  <2>5. CASE Signal \/ StopCron \/ CronStopped
    BY <2>5 DEF Signal, StopCron, CronStopped, Holders, Executor!vars
  <2>6. CASE Tick \/ (\E e \in Exophones : RefreshDone(e)) \/ Admin \/ UNCHANGED vars
    BY <2>6 DEF Tick, RefreshDone, Admin, SetCronApplicable, UpdatePriority,
                UpdatePriorityConfig, processVars, vars, Holders, Executor!vars
  <2> QED
    BY <2>1, <2>2, <2>3, <2>4, <2>5, <2>6 DEF Next, Shutdown
<1> QED
  BY <1>1, <1>2, PoolInvariant, PTL DEF Spec, ImplementsExecutor, Executor!Spec

-----------------------------------------------------------------------------
(* Transactions.  What a goroutine's row says at each step of ExecuteJob.   *)
RowOf(s) ==
    /\ s.pc = "create" => s.txn = "NONE"
    /\ s.pc = "advance" /\ ("db" \notin Faults \/ ~faulted) => s.txn = "ENDED"
    /\ s.pc \in {"release", "done"} /\ ~faulted => s.txn # "RUNNING"

RowInv ==
    /\ \A w \in Goroutines : ~Gone(worker[w]) => RowOf(worker[w])
    /\ NoOrphanWithoutFault

TxnInv == PoolInv /\ RowInv

LEMMA RowInit == ASSUME Init PROVE RowInv
  BY DEF Init, RowInv, NoOrphanWithoutFault, Gone, NoGoroutine

(* One step of ExecuteJob, seen from the goroutine that takes it.           *)
LEMMA RowStep ==
    ASSUME TxnInv, NEW w \in Goroutines, ExecuteJob(w) \/ Panic(w)
    PROVE  RowInv'
<1> USE DEF RowOf, NoOrphanWithoutFault, Gone
<1>0. /\ worker \in [Goroutines -> {NoGoroutine} \cup Running]
      /\ faulted \in BOOLEAN
  BY DEF TxnInv, PoolInv, TypeOK
<1>1. worker[w] \in Running /\ RowOf(worker[w])
  BY LiveIsRunning
  DEF TxnInv, RowInv, PoolInv, ExecuteJob, CreateTransaction, CallApi,
      UpdateTransaction, AdvanceNextRun, ReleaseSlot, WgDone, Panic
<1>2. faulted => faulted'
  BY DEF ExecuteJob, CreateTransaction, CallApi, UpdateTransaction,
         AdvanceNextRun, ReleaseSlot, WgDone, Panic
<1>3. ASSUME worker'[w].pc # "none" => RowOf(worker[w])',
             \A v \in Goroutines \ {w} : worker'[v] = worker[v]
      PROVE  \A v \in Goroutines : ~Gone(worker[v])' => RowOf(worker[v])'
  <2> SUFFICES ASSUME NEW v \in Goroutines \ {w}, ~Gone(worker[v])'
               PROVE  RowOf(worker[v])'
    BY <1>3
  <2>1. worker'[v] = worker[v]
    BY <1>3
  <2> QED
    BY <2>1, <1>2 DEF TxnInv, RowInv
<1>4. CASE CreateTransaction(w)
  <2>1. orphan' = orphan
    BY <1>4 DEF CreateTransaction
  <2>2. worker'[w].pc # "none" => RowOf(worker[w])'
    <3>1. \/ worker' = [worker EXCEPT ![w].pc = "call", ![w].txn = "RUNNING"]
          \/ worker' = [worker EXCEPT ![w].pc = "release"]
      BY <1>4 DEF CreateTransaction
    <3>2. worker[w].txn = "NONE"
      BY <1>1, <1>4 DEF CreateTransaction
    <3> QED
      BY <1>0, <1>1, <3>1, <3>2 DEF Running
  <2>3. \A v \in Goroutines \ {w} : worker'[v] = worker[v]
    BY <1>0, <1>4 DEF CreateTransaction
  <2> QED
    BY <1>2, <1>3, <2>1, <2>2, <2>3 DEF RowInv, TxnInv
<1>5. CASE CallApi(w)
  <2>1. orphan' = orphan
    BY <1>5 DEF CallApi, dbVars
  <2>2. worker'[w].pc = "update"
    BY <1>0, <1>1, <1>5 DEF CallApi, Running
  <2>3. \A v \in Goroutines \ {w} : worker'[v] = worker[v]
    BY <1>0, <1>5 DEF CallApi
  <2> QED
    BY <1>2, <1>3, <2>1, <2>2, <2>3 DEF RowInv, TxnInv
<1>6. CASE UpdateTransaction(w)
  <2>1. orphan' = orphan
    BY <1>6 DEF UpdateTransaction, dbVars
  <2>2. worker'[w].pc # "none" => RowOf(worker[w])'
    <3>1. CASE worker' = [worker EXCEPT ![w].pc = "advance", ![w].txn = "ENDED"]
      BY <1>0, <1>1, <3>1 DEF Running
    <3>2. CASE /\ worker' = [worker EXCEPT ![w].pc = "advance"]
               /\ "db" \in Faults /\ faulted'
      BY <1>0, <1>1, <3>2 DEF Running
    <3> QED
      BY <1>6, <3>1, <3>2 DEF UpdateTransaction
  <2>3. \A v \in Goroutines \ {w} : worker'[v] = worker[v]
    BY <1>0, <1>6 DEF UpdateTransaction
  <2> QED
    BY <1>2, <1>3, <2>1, <2>2, <2>3 DEF RowInv, TxnInv
<1>7. CASE AdvanceNextRun(w)
  <2>1. orphan' = orphan
    BY <1>7 DEF AdvanceNextRun
  <2>2. worker'[w].pc # "none" => RowOf(worker[w])'
    <3>1. worker' = [worker EXCEPT ![w].pc = "release"] /\ worker[w].pc = "advance"
      BY <1>7 DEF AdvanceNextRun
    <3> QED
      BY <1>0, <1>1, <1>2, <3>1 DEF Running
  <2>3. \A v \in Goroutines \ {w} : worker'[v] = worker[v]
    BY <1>0, <1>7 DEF AdvanceNextRun
  <2> QED
    BY <1>2, <1>3, <2>1, <2>2, <2>3 DEF RowInv, TxnInv
<1>8. CASE ReleaseSlot(w)
  <2>1. orphan' = orphan /\ faulted' = faulted
    BY <1>8 DEF ReleaseSlot, dbVars
  <2>2. worker'[w].pc # "none" => RowOf(worker[w])'
    BY <1>0, <1>1, <1>8, <2>1 DEF ReleaseSlot, Running
  <2>3. \A v \in Goroutines \ {w} : worker'[v] = worker[v]
    BY <1>0, <1>8 DEF ReleaseSlot
  <2> QED
    BY <1>2, <1>3, <2>1, <2>2, <2>3 DEF RowInv, TxnInv
<1>9. CASE WgDone(w)
  <2>1. ~faulted' => orphan' = {}
    BY <1>1, <1>9 DEF WgDone, TxnInv, RowInv
  <2>2. worker'[w].pc = "none"
    BY <1>0, <1>9 DEF WgDone, NoGoroutine
  <2>3. \A v \in Goroutines \ {w} : worker'[v] = worker[v]
    BY <1>0, <1>9 DEF WgDone
  <2> QED
    BY <1>2, <1>3, <2>1, <2>2, <2>3 DEF RowInv, TxnInv
<1>10. CASE Panic(w)
  <2>1. orphan' = orphan /\ faulted'
    BY <1>10 DEF Panic, dbVars
  <2>2. worker'[w].pc = "release"
    BY <1>0, <1>1, <1>10 DEF Panic, Running
  <2>3. \A v \in Goroutines \ {w} : worker'[v] = worker[v]
    BY <1>0, <1>10 DEF Panic
  <2> QED
    BY <1>2, <1>3, <2>1, <2>2, <2>3 DEF RowInv, TxnInv
<1> QED
  BY <1>4, <1>5, <1>6, <1>7, <1>8, <1>9, <1>10 DEF ExecuteJob

LEMMA RowNext == ASSUME TxnInv, [Next]_vars PROVE RowInv'
<1> USE DEF NoOrphanWithoutFault, Gone
<1>1. CASE UNCHANGED <<worker, orphan, faulted>>
  BY <1>1 DEF TxnInv, RowInv, RowOf
<1>2. ASSUME NEW p \in Pollers, Dispatch(p) PROVE RowInv'
  <2>1. CASE Poll(p) \/ Acquire(p)
    <3>1. UNCHANGED <<worker, orphan>> /\ (faulted => faulted')
      BY <2>1 DEF Poll, Acquire, dbVars
    <3> QED
      BY <3>1 DEF TxnInv, RowInv, RowOf
  <2>2. CASE Spawn(p)
    <3>1. PICK c \in poll[p].todo, w \in Goroutines :
             worker' = [worker EXCEPT ![w] = Goroutine(c)]
      BY <2>2 DEF Spawn
    <3>2. UNCHANGED <<orphan, faulted>>
      BY <2>2 DEF Spawn, dbVars
    <3>3. \A v \in Goroutines \ {w} : worker'[v] = worker[v]
      BY <3>1 DEF TxnInv, PoolInv, TypeOK
    <3>4. worker'[w].pc = "create" /\ worker'[w].txn = "NONE"
      BY <3>1 DEF TxnInv, PoolInv, TypeOK, Goroutine
    <3> QED
      BY <3>2, <3>3, <3>4 DEF TxnInv, RowInv, RowOf
  <2> QED
    BY <1>2, <2>1, <2>2 DEF Dispatch
<1>3. CASE Exit \/ Crash
  <2>1. \A w \in Goroutines : worker'[w] = NoGoroutine
    BY <1>3 DEF Exit, Crash, ProcessEnds
  <2>2. ~faulted' => orphan' = {}
    <3>1. CASE Crash
      BY <3>1 DEF Crash
    <3>2. CASE Exit
      <4>1. Cardinality(Alive) = 0
        BY <3>2 DEF Exit, TxnInv, PoolInv, PoolAccounting
      <4>2. Alive = {}
        BY <4>1, FiniteSides, FS_EmptySet
      <4>3. RunningRows = {}
        BY <4>2 DEF RunningRows, Alive
      <4> QED
        BY <3>2, <4>3 DEF Exit, ProcessEnds, TxnInv, RowInv
    <3> QED
      BY <1>3, <3>1, <3>2
  <2> QED
    BY <2>1, <2>2 DEF RowInv, NoGoroutine
<1>4. CASE \/ Tick \/ (\E e \in Exophones : RefreshDone(e)) \/ Admin
           \/ Signal \/ StopCron \/ CronStopped \/ Boot \/ UNCHANGED vars
  <2>1. UNCHANGED <<worker, orphan, faulted>>
    BY <1>4 DEF Tick, RefreshDone, Admin, SetCronApplicable, UpdatePriority,
                UpdatePriorityConfig, processVars, dbVars, vars, Signal,
                StopCron, CronStopped, Boot
  <2> QED
    BY <2>1, <1>1
<1> QED
  BY <1>2, <1>3, <1>4, RowStep DEF Next, Shutdown

LEMMA TxnInvariant == Spec => []TxnInv
<1>1. Init => TxnInv
  BY PoolInit, RowInit DEF TxnInv
<1>2. TxnInv /\ [Next]_vars => TxnInv'
  <2> SUFFICES ASSUME TxnInv, [Next]_vars PROVE TxnInv'
    OBVIOUS
  <2>1. PoolInv'
    BY TypeNext, BooksNext, QuietNext DEF TxnInv, PoolInv
  <2> QED
    BY <2>1, RowNext DEF TxnInv
<1> QED
  BY <1>1, <1>2, PTL DEF Spec

(* Without a panic, a database failure or a crash no row stays RUNNING for  *)
(* good, an orderly shutdown included.                                      *)
THEOREM NoOrphanHolds == Spec => []NoOrphanWithoutFault
<1>1. TxnInv => NoOrphanWithoutFault
  BY DEF TxnInv, RowInv
<1> QED
  BY <1>1, TxnInvariant, PTL

(* As long as the database has not failed, next_run_at moves forward only   *)
(* for a run whose transaction row already tells its outcome.               *)
THEOREM RescheduledAfterOutcomeHolds == Spec => RescheduledAfterOutcome
<1> DEFINE Moved == ("db" \notin Faults \/ ~faulted) =>
                    \A j \in Jobs : left'[j] > left[j] =>
                      \E w \in Goroutines : /\ HoldsSlot(worker[w])
                                            /\ worker[w].job = j
                                            /\ worker[w].txn = "ENDED"
<1>1. TxnInv /\ [Next]_vars => [Moved]_vars
  <2> SUFFICES ASSUME TxnInv, Next PROVE Moved
    OBVIOUS
  <2>0. left \in [Jobs -> Int]
    BY DEF TxnInv, PoolInv, TypeOK
  <2>1. CASE left' = left
    BY <2>0, <2>1
  <2>2. CASE Tick
    <3>1. \A j \in Jobs : left'[j] = left[j] \/ left'[j] = left[j] - 1
      BY <2>0, <2>2 DEF Tick
    <3> QED
      BY <2>0, <3>1
  <2>3. ASSUME NEW w \in Goroutines, AdvanceNextRun(w) PROVE Moved
    <3>1. worker[w].pc = "advance"
      BY <2>3 DEF AdvanceNextRun
    <3>2. /\ HoldsSlot(worker[w])
          /\ "db" \notin Faults \/ ~faulted => worker[w].txn = "ENDED"
      BY <3>1 DEF HoldsSlot, TxnInv, RowInv, RowOf, Gone
    <3>3. \A j \in Jobs : j # worker[w].job => left'[j] = left[j]
      BY <2>0, <2>3 DEF AdvanceNextRun
    <3> QED
      BY <2>0, <3>2, <3>3
  <2>4. ASSUME NEW w \in Goroutines, (ExecuteJob(w) /\ ~AdvanceNextRun(w)) \/ Panic(w)
        PROVE  left' = left
    BY <2>4 DEF ExecuteJob, CreateTransaction, CallApi, UpdateTransaction,
                ReleaseSlot, WgDone, Panic, dbVars
  <2>5. CASE \/ (\E p \in Pollers : Dispatch(p)) \/ Admin \/ Signal \/ Shutdown
             \/ (\E e \in Exophones : RefreshDone(e)) \/ Crash \/ Boot
    <3>1. left' = left
      BY <2>5 DEF Dispatch, Poll, Acquire, Spawn, Admin, SetCronApplicable,
         UpdatePriority, UpdatePriorityConfig, Signal, Shutdown, StopCron,
         CronStopped, Exit, Crash, ProcessEnds, Boot, RefreshDone, dbVars
    <3> QED
      BY <2>1, <3>1
  <2> QED
    BY <2>1, <2>2, <2>3, <2>4, <2>5 DEF Next
<1> QED
  BY <1>1, TxnInvariant, PTL DEF Spec, RescheduledAfterOutcome

-----------------------------------------------------------------------------
(* The drain of main ends.                                                  *)

(* What is still to be handed out, job by job of each list; the Submits     *)
(* that wait for a slot; and what the goroutines have still to do.          *)
Copies == {x \in Pollers \X Jobs : \E c \in poll[x[1]].todo : c.job = x[2]}

Submitting == {p \in Pollers : poll[p].pc = "submit"}

StepsLeft(s) ==
    CASE s.pc = "create" -> 6 [] s.pc = "call"    -> 5 [] s.pc = "update" -> 4
      [] s.pc = "advance" -> 3 [] s.pc = "release" -> 2 [] s.pc = "done"   -> 1
      [] s.pc = "none" -> 0

Undone == {x \in Goroutines \X (1 .. 6) : x[2] <= StepsLeft(worker[x[1]])}

Shrinks(T, S) == T \subseteq S /\ T # S

(* A job less to hand out; or else a Submit less that waits, or a step less *)
(* for the goroutines.                                                      *)
Nearer ==
    \/ Shrinks(Copies', Copies)
    \/ /\ Copies' = Copies
       /\ \/ Shrinks(Submitting', Submitting) /\ Undone' = Undone
          \/ Submitting' = Submitting /\ Shrinks(Undone', Undone)

(* Only a poll makes new work: once cron is stopped, requests, refreshes    *)
(* and the time that passes leave alone what main waits for.                *)
DrainNearer ==
    /\ \A p \in Pollers : Acquire(p) \/ Spawn(p) => Nearer
    /\ \A w \in Goroutines : ExecuteJob(w) \/ Panic(w) => Nearer
    /\ phase \notin {"up", "http"} =>
          Nearer \/ UNCHANGED <<poll, worker>> \/ phase' = "exited"

(* Main never waits for nothing: a RunDueJobs in flight has a job to hand   *)
(* out next, in the order of its list; a Submit that finds the pool full    *)
(* has a holder, or another Submit about to make one, to wait for; and a    *)
(* wait group that is not zero has a goroutine.                             *)
DrainGoesOn ==
    /\ \A p \in Pollers : poll[p].pc # "idle" =>
          \E c \in poll[p].todo : \A d \in poll[p].todo : Before(c, d)
    /\ Submitting # {} => sem < PoolSize \/ Spawning # {} \/ Holders # {}
    /\ phase = "waiting" => wg = 0 \/ Alive # {}

(* A list has a job at most once, and is never empty while it is worked on. *)
ListInv ==
    /\ \A j \in Jobs : left[j] >= -MaxOverdue
    /\ \A p \in Pollers :
          /\ poll[p].pc = "idle" <=> poll[p].todo = {}
          /\ \A c \in poll[p].todo : c.left >= -MaxOverdue
          /\ \A c, d \in poll[p].todo : c.job = d.job => c = d

LEMMA ListInit == ASSUME Init PROVE ListInv
<1>1. MaxOverdue \in Nat
  BY SchedulerAssumption DEF SchedulerAssumption
<1>2. \A j \in Jobs : left[j] >= -MaxOverdue
  BY <1>1 DEF Init
<1> QED BY <1>2 DEF Init, ListInv, IdlePoll

LEMMA ListNext == ASSUME TypeOK, ListInv, [Next]_vars PROVE ListInv'
<1>0. /\ MaxOverdue \in Nat /\ left \in [Jobs -> Int] /\ Frequencies \subseteq Nat \ {0}
      /\ poll \in [Pollers -> [pc : {"idle", "submit", "spawn"}, todo : SUBSET JobCopy]]
  BY SchedulerAssumption DEF SchedulerAssumption, TypeOK
<1>1. CASE UNCHANGED <<left, poll>>
  BY <1>1 DEF ListInv
<1>2. CASE Tick
  <2>1. \A j \in Jobs : left'[j] >= -MaxOverdue
    <3> TAKE j \in Jobs
    <3>1. left[j] \in Int /\ left[j] >= -MaxOverdue
      BY <1>0 DEF ListInv
    <3>2. left'[j] = IF left[j] > -MaxOverdue THEN left[j] - 1 ELSE left[j]
      BY <1>2 DEF Tick
    <3> QED BY <1>0, <3>1, <3>2
  <2>2. poll' = poll
    BY <1>2 DEF Tick
  <2> QED BY <2>1, <2>2 DEF ListInv
<1>3. ASSUME NEW p \in Pollers, Poll(p) PROVE ListInv'
  <2>1. left' = left /\ \A q \in Pollers : q # p => poll'[q] = poll[q]
    BY <1>0, <1>3 DEF Poll, dbVars
  <2>2. \/ poll'[p] = IdlePoll
        \/ poll'[p] = [pc |-> "submit", todo |-> DueJobs] /\ DueJobs # {}
        \/ poll'[p] = poll[p]
    BY <1>0, <1>3 DEF Poll
  <2>3. /\ \A c \in DueJobs : c.left >= -MaxOverdue
        /\ \A c, d \in DueJobs : c.job = d.job => c = d
    BY DEF DueJobs, ListInv
  <2>4. /\ poll'[p].pc = "idle" <=> poll'[p].todo = {}
        /\ \A c \in poll'[p].todo : c.left >= -MaxOverdue
        /\ \A c, d \in poll'[p].todo : c.job = d.job => c = d
    <3>1. CASE poll'[p] = IdlePoll
      BY <3>1 DEF IdlePoll
    <3>2. CASE poll'[p] = [pc |-> "submit", todo |-> DueJobs] /\ DueJobs # {}
      BY <2>3, <3>2
    <3>3. CASE poll'[p] = poll[p]
      BY <3>3 DEF ListInv
    <3> QED BY <2>2, <3>1, <3>2, <3>3
  <2> QED BY <2>1, <2>4 DEF ListInv
<1>4. ASSUME NEW p \in Pollers, Acquire(p) PROVE ListInv'
  <2>1. left' = left /\ \A q \in Pollers : q # p => poll'[q] = poll[q]
    BY <1>0, <1>4 DEF Acquire, dbVars
  <2>2. poll[p].pc = "submit" /\ poll'[p].pc = "spawn" /\ poll'[p].todo = poll[p].todo
    BY <1>0, <1>4 DEF Acquire
  <2> QED BY <2>1, <2>2 DEF ListInv
<1>5. ASSUME NEW p \in Pollers, Spawn(p) PROVE ListInv'
  <2>1. left' = left /\ \A q \in Pollers : q # p => poll'[q] = poll[q]
    BY <1>0, <1>5 DEF Spawn, dbVars
  <2>2. PICK c \in poll[p].todo :
           poll'[p] = IF poll[p].todo \ {c} = {} THEN IdlePoll
                      ELSE [pc |-> "submit", todo |-> poll[p].todo \ {c}]
    BY <1>0, <1>5 DEF Spawn
  <2>3. /\ poll'[p].todo = poll[p].todo \ {c}
        /\ poll'[p].pc = "idle" <=> poll'[p].todo = {}
    BY <2>2 DEF IdlePoll
  <2> QED BY <2>1, <2>3 DEF ListInv
<1>6. ASSUME NEW w \in Goroutines, AdvanceNextRun(w) PROVE ListInv'
  <2>1. worker[w] \in Running
    BY <1>6, LiveIsRunning DEF AdvanceNextRun
  <2>2. \A j \in Jobs : left'[j] = left[j] \/ left'[j] = worker[w].freq
    BY <1>0, <1>6 DEF AdvanceNextRun
  <2>3. worker[w].freq \in Nat
    BY <1>0, <2>1 DEF Running
  <2>4. \A j \in Jobs : left'[j] >= -MaxOverdue
    BY <1>0, <2>2, <2>3 DEF ListInv
  <2>5. poll' = poll
    BY <1>6 DEF AdvanceNextRun
  <2> QED BY <2>4, <2>5 DEF ListInv
<1>7. ASSUME NEW w \in Goroutines, (ExecuteJob(w) /\ ~AdvanceNextRun(w)) \/ Panic(w)
      PROVE  ListInv'
  BY <1>1, <1>7
  DEF ExecuteJob, CreateTransaction, CallApi, UpdateTransaction, ReleaseSlot, WgDone, Panic,
      dbVars
<1>8. CASE Exit \/ Crash
  <2>1. left' = left /\ \A p \in Pollers : poll'[p] = IdlePoll
    BY <1>8 DEF Exit, Crash, ProcessEnds
  <2> QED BY <2>1 DEF ListInv, IdlePoll
<1>9. CASE \/ (\E e \in Exophones : RefreshDone(e)) \/ Admin \/ Signal \/ StopCron
           \/ CronStopped \/ Boot \/ UNCHANGED vars
  BY <1>1, <1>9
  DEF RefreshDone, Admin, SetCronApplicable, UpdatePriority, UpdatePriorityConfig, Signal,
      StopCron, CronStopped, Boot, vars, dbVars, processVars
<1> QED
  BY <1>2, <1>3, <1>4, <1>5, <1>6, <1>7, <1>8, <1>9 DEF Next, Dispatch, Shutdown

(* A set of natural numbers has a least one, by the well-founded order of   *)
(* the subsets of a finite set.                                             *)
LEMMA LeastNat ==
    ASSUME NEW T \in SUBSET Nat, T # {}
    PROVE  \E x \in T : \A y \in T : x <= y
<1>1. PICK n \in T : TRUE
  OBVIOUS
<1> DEFINE S == 0 .. n
           F == {0 .. x : x \in {t \in T : t <= n}}
<1>2. IsFiniteSet(S)
  <2>1. 0 \in Int /\ n \in Int
    OBVIOUS
  <2> QED BY <2>1, FS_Interval
<1>3. IsWellFoundedOn(StrictSubsetOrdering(S), SUBSET S)
  <2> HIDE DEF S
  <2>1. FiniteSubsetsOf(S) = SUBSET S
    BY <1>2, FS_FiniteSubsetsOfFinite
  <2> QED BY <2>1, FS_StrictSubsetOrderingWellFounded
<1>4. F \subseteq SUBSET S /\ F # {}
  <2>1. 0 .. n \in F
    OBVIOUS
  <2>2. \A t \in T : t <= n => 0 .. t \subseteq 0 .. n
    OBVIOUS
  <2> QED BY <2>1, <2>2
<1>5. PICK U \in F : \A V \in F : ~(<<V, U>> \in StrictSubsetOrdering(S))
  <2> HIDE DEF S, F
  <2> QED BY <1>3, <1>4, WFMin
<1>6. PICK x \in T : x <= n /\ U = 0 .. x
  BY <1>5
<1>7. ASSUME NEW y \in T, y < x PROVE FALSE
  <2>1. 0 .. y \in F
    BY <1>6, <1>7
  <2>2. 0 .. y \subseteq U /\ 0 .. y # U
    <3>1. x \in 0 .. x /\ x \notin 0 .. y /\ 0 .. y \subseteq 0 .. x
      BY <1>7
    <3> QED BY <1>6, <3>1
  <2>3. U \subseteq S
    BY <1>4, <1>5
  <2> HIDE DEF S, F
  <2> QED BY <1>5, <2>1, <2>2, <2>3 DEF StrictSubsetOrdering
<1> QED BY <1>7

(* There is a first job in every list: ORDER BY leaves no two copies apart. *)
LEMMA FirstOfList ==
    ASSUME NEW T \in SUBSET JobCopy, T # {}, \A c \in T : c.left >= -MaxOverdue
    PROVE  \E c \in T : \A d \in T : Before(c, d)
<1>0. MaxOverdue \in Nat /\ \A c \in T : c.prio \in Nat /\ c.left \in Int
  BY SchedulerAssumption DEF SchedulerAssumption, JobCopy
<1> DEFINE P == {c.prio : c \in T}
<1>1. P \in SUBSET Nat /\ P # {}
  BY <1>0
<1>2. PICK q \in P : \A r \in P : q <= r
  <2> HIDE DEF P
  <2> QED BY <1>1, LeastNat
<1> DEFINE L == {c.left + MaxOverdue : c \in {d \in T : d.prio = q}}
<1>3. L \in SUBSET Nat /\ L # {}
  <2>1. \A c \in T : c.left + MaxOverdue \in Nat
    BY <1>0
  <2> QED BY <1>2, <2>1
<1>4. PICK l \in L : \A m \in L : l <= m
  <2> HIDE DEF L
  <2> QED BY <1>3, LeastNat
<1>5. PICK c \in T : c.prio = q /\ l = c.left + MaxOverdue
  BY <1>4
<1>6. ASSUME NEW d \in T PROVE Before(c, d)
  <2>1. CASE d.prio = q
    <3>1. l <= d.left + MaxOverdue
      BY <1>4, <2>1
    <3> QED BY <1>0, <1>5, <2>1, <3>1 DEF Before
  <2>2. CASE d.prio # q
    <3>1. q <= d.prio
      BY <1>2
    <3> QED BY <1>0, <1>5, <2>2, <3>1 DEF Before
  <2> QED BY <2>1, <2>2
<1> QED BY <1>6

LEMMA GoesOn == ASSUME PoolInv, ListInv PROVE DrainGoesOn
<1>1. ASSUME NEW p \in Pollers, poll[p].pc # "idle"
      PROVE  \E c \in poll[p].todo : \A d \in poll[p].todo : Before(c, d)
  <2>1. poll[p].todo \in SUBSET JobCopy
    BY DEF PoolInv, TypeOK
  <2> QED BY <1>1, <2>1, FirstOfList DEF ListInv
<1>2. ASSUME ~(sem < PoolSize) PROVE Spawning # {} \/ Holders # {}
  <2>1. ASSUME Spawning = {}, Holders = {} PROVE FALSE
    <3>1. sem = 0
      BY <2>1, FS_EmptySet DEF PoolInv, PoolAccounting
    <3>2. PoolSize \in Nat \ {0}
      BY SchedulerAssumption DEF SchedulerAssumption
    <3> QED BY <1>2, <3>1, <3>2
  <2> QED BY <2>1
<1>3. Alive = {} => wg = 0
  BY FS_EmptySet DEF PoolInv, PoolAccounting
<1> QED BY <1>1, <1>2, <1>3 DEF DrainGoesOn

(* A goroutine that goes on.                                                *)
LEMMA WorkStep ==
    ASSUME TypeOK, NEW w \in Goroutines, ExecuteJob(w) \/ Panic(w)
    PROVE  /\ poll' = poll
           /\ \A v \in Goroutines : v # w => worker'[v] = worker[v]
           /\ worker'[w].pc # "none" => worker'[w].job = worker[w].job
           /\ \E n \in 1 .. 6, m \in 0 .. 5 :
                 m < n /\ StepsLeft(worker[w]) = n /\ StepsLeft(worker'[w]) = m
<1>0. /\ worker \in [Goroutines -> {NoGoroutine} \cup Running]
      /\ worker[w] \in Running
  BY LiveIsRunning
  DEF TypeOK, ExecuteJob, CreateTransaction, CallApi, UpdateTransaction, AdvanceNextRun,
      ReleaseSlot, WgDone, Panic
<1>1. poll' = poll
  BY DEF ExecuteJob, CreateTransaction, CallApi, UpdateTransaction, AdvanceNextRun,
         ReleaseSlot, WgDone, Panic
<1>2. \A v \in Goroutines : v # w => worker'[v] = worker[v]
  BY <1>0
  DEF ExecuteJob, CreateTransaction, CallApi, UpdateTransaction, AdvanceNextRun,
      ReleaseSlot, WgDone, Panic
<1>3. /\ \/ worker[w].pc = "create" /\ worker'[w].pc \in {"call", "release"}
         \/ worker[w].pc = "call" /\ worker'[w].pc \in {"update", "release"}
         \/ worker[w].pc = "update" /\ worker'[w].pc = "advance"
         \/ worker[w].pc = "advance" /\ worker'[w].pc = "release"
         \/ worker[w].pc = "release" /\ worker'[w].pc = "done"
         \/ worker[w].pc = "done" /\ worker'[w].pc = "none"
      /\ worker'[w].pc # "none" => worker'[w].job = worker[w].job
  <2>1. CASE CreateTransaction(w)
    BY <1>0, <2>1 DEF CreateTransaction, Running
  <2>2. CASE CallApi(w)
    BY <1>0, <2>2 DEF CallApi, Running
  <2>3. CASE UpdateTransaction(w)
    <3>1. /\ worker[w].pc = "update"
          /\ \/ worker' = [worker EXCEPT ![w].pc = "advance", ![w].txn = "ENDED"]
             \/ worker' = [worker EXCEPT ![w].pc = "advance"]
      BY <2>3 DEF UpdateTransaction
    <3> QED BY <1>0, <3>1 DEF Running
  <2>4. CASE AdvanceNextRun(w)
    <3>1. worker[w].pc = "advance" /\ worker' = [worker EXCEPT ![w].pc = "release"]
      BY <2>4 DEF AdvanceNextRun
    <3> QED BY <1>0, <3>1 DEF Running
  <2>5. CASE ReleaseSlot(w)
    BY <1>0, <2>5 DEF ReleaseSlot, Running
  <2>6. CASE WgDone(w)
    BY <1>0, <2>6 DEF WgDone, NoGoroutine
  <2>7. CASE Panic(w)
    BY <1>0, <2>7 DEF Panic, Running
  <2> QED BY <2>1, <2>2, <2>3, <2>4, <2>5, <2>6, <2>7 DEF ExecuteJob
<1>4. \E n \in 1 .. 6, m \in 0 .. 5 :
         m < n /\ StepsLeft(worker[w]) = n /\ StepsLeft(worker'[w]) = m
  <2>1. CASE worker[w].pc = "create"
    <3>1. StepsLeft(worker[w]) = 6 /\ StepsLeft(worker'[w]) \in {5, 2}
      BY <1>3, <2>1 DEF StepsLeft
    <3> QED BY <3>1
  <2>2. CASE worker[w].pc = "call"
    <3>1. StepsLeft(worker[w]) = 5 /\ StepsLeft(worker'[w]) \in {4, 2}
      BY <1>3, <2>2 DEF StepsLeft
    <3> QED BY <3>1
  <2>3. CASE worker[w].pc = "update"
    <3>1. StepsLeft(worker[w]) = 4 /\ StepsLeft(worker'[w]) = 3
      BY <1>3, <2>3 DEF StepsLeft
    <3> QED BY <3>1
  <2>4. CASE worker[w].pc = "advance"
    <3>1. StepsLeft(worker[w]) = 3 /\ StepsLeft(worker'[w]) = 2
      BY <1>3, <2>4 DEF StepsLeft
    <3> QED BY <3>1
  <2>5. CASE worker[w].pc = "release"
    <3>1. StepsLeft(worker[w]) = 2 /\ StepsLeft(worker'[w]) = 1
      BY <1>3, <2>5 DEF StepsLeft
    <3> QED BY <3>1
  <2>6. CASE worker[w].pc = "done"
    <3>1. StepsLeft(worker[w]) = 1 /\ StepsLeft(worker'[w]) = 0
      BY <1>3, <2>6 DEF StepsLeft
    <3> QED BY <3>1
  <2> QED BY <1>3, <2>1, <2>2, <2>3, <2>4, <2>5, <2>6
<1> QED BY <1>1, <1>2, <1>3, <1>4

LEMMA WorkNearer ==
    ASSUME TypeOK, NEW w \in Goroutines, ExecuteJob(w) \/ Panic(w)
    PROVE  Nearer
<1>1. poll' = poll /\ \A v \in Goroutines : v # w => worker'[v] = worker[v]
  BY WorkStep
<1>2. PICK n \in 1 .. 6, m \in 0 .. 5 :
         m < n /\ StepsLeft(worker[w]) = n /\ StepsLeft(worker'[w]) = m
  BY WorkStep
<1>3. <<w, n>> \in Undone /\ <<w, n>> \notin Undone'
  BY <1>2 DEF Undone
<1>4. ASSUME NEW x \in Undone' PROVE x \in Undone
  <2>1. x \in Goroutines \X (1 .. 6) /\ x[2] <= StepsLeft(worker'[x[1]])
    BY <1>4 DEF Undone
  <2>2. CASE x[1] = w
    <3>1. x[2] <= n
      BY <1>2, <2>1, <2>2
    <3> QED BY <1>2, <2>1, <2>2, <3>1 DEF Undone
  <2>3. CASE x[1] # w
    BY <1>1, <2>1, <2>3 DEF Undone
  <2> QED BY <2>2, <2>3
<1>5. Copies' = Copies /\ Submitting' = Submitting
  BY <1>1 DEF Copies, Submitting
<1> QED BY <1>3, <1>4, <1>5 DEF Nearer, Shrinks

(* A Submit that got its slot, and one that started its goroutine.          *)
LEMMA SubmitNearer ==
    ASSUME TypeOK, ListInv, NEW p \in Pollers, Acquire(p) \/ Spawn(p)
    PROVE  Nearer
<1>0. poll \in [Pollers -> [pc : {"idle", "submit", "spawn"}, todo : SUBSET JobCopy]]
  BY DEF TypeOK
<1>1. CASE Acquire(p)
  <2>1. /\ poll[p].pc = "submit" /\ poll'[p].pc = "spawn" /\ poll'[p].todo = poll[p].todo
        /\ \A q \in Pollers : q # p => poll'[q] = poll[q]
    BY <1>0, <1>1 DEF Acquire
  <2>2. Submitting' = Submitting \ {p} /\ p \in Submitting
    BY <2>1 DEF Submitting
  <2>3. Copies' = Copies
    BY <2>1 DEF Copies
  <2>4. Undone' = Undone
    BY <1>1 DEF Acquire, Undone
  <2> QED BY <2>2, <2>3, <2>4 DEF Nearer, Shrinks
<1>2. CASE Spawn(p)
  <2>1. PICK c \in poll[p].todo :
           poll'[p] = IF poll[p].todo \ {c} = {} THEN IdlePoll
                      ELSE [pc |-> "submit", todo |-> poll[p].todo \ {c}]
    BY <1>0, <1>2 DEF Spawn
  <2>2. \A q \in Pollers : q # p => poll'[q] = poll[q]
    BY <1>0, <1>2 DEF Spawn
  <2>3. poll'[p].todo = poll[p].todo \ {c}
    BY <2>1 DEF IdlePoll
  <2>4. c.job \in Jobs
    BY <1>0 DEF JobCopy
  <2>5. <<p, c.job>> \in Copies
    BY <2>4 DEF Copies
  <2>6. <<p, c.job>> \notin Copies'
    <3>1. \A d \in poll'[p].todo : d.job # c.job
      BY <2>3 DEF ListInv
    <3> QED BY <3>1 DEF Copies
  <2>7. Copies' \subseteq Copies
    BY <2>2, <2>3 DEF Copies
  <2> QED BY <2>5, <2>6, <2>7 DEF Nearer, Shrinks
<1> QED BY <1>1, <1>2

LEMMA StepNearer == ASSUME TypeOK, ListInv, [Next]_vars PROVE DrainNearer
<1>1. ASSUME phase \notin {"up", "http"}
      PROVE  Nearer \/ UNCHANGED <<poll, worker>> \/ phase' = "exited"
  <2>1. \A p \in Pollers : ~Poll(p)
    BY <1>1 DEF Poll
  <2>2. CASE \/ Tick \/ (\E e \in Exophones : RefreshDone(e)) \/ Admin
             \/ Signal \/ StopCron \/ CronStopped \/ Boot \/ UNCHANGED vars
    BY <2>2
    DEF Tick, RefreshDone, Admin, SetCronApplicable, UpdatePriority, UpdatePriorityConfig,
        Signal, StopCron, CronStopped, Boot, vars, processVars
  <2>3. CASE Exit \/ Crash
    BY <2>3 DEF Exit, Crash, ProcessEnds
  <2> QED
    BY <2>1, <2>2, <2>3, SubmitNearer, WorkNearer DEF Next, Dispatch, Shutdown
<1> QED BY <1>1, SubmitNearer, WorkNearer DEF DrainNearer

(* ShutdownCompletes needs no more than that goroutines are scheduled and   *)
(* that a free slot goes to a Submit: whatever fails or is requested, what  *)
(* is left of the drain gets less with every step that is part of it, among *)
(* the subsets of finite sets, and there always is such a step.             *)
THEOREM DrainRunsOut ==
    ASSUME IsFiniteSet(Jobs)
    PROVE  Spec => /\ [](IsFiniteSet(Copies) /\ IsFiniteSet(Submitting) /\ IsFiniteSet(Undone))
                   /\ []DrainGoesOn
                   /\ [][DrainNearer]_vars
<1>1. Init => PoolInv /\ ListInv
  BY PoolInit, ListInit
<1>2. PoolInv /\ ListInv /\ [Next]_vars => PoolInv' /\ ListInv'
  BY TypeNext, BooksNext, QuietNext, ListNext DEF PoolInv
<1>3. IsFiniteSet(Copies) /\ IsFiniteSet(Submitting) /\ IsFiniteSet(Undone)
  <2>1. IsFiniteSet(Pollers) /\ IsFiniteSet(Goroutines)
    BY SchedulerAssumption DEF SchedulerAssumption
  <2>2. IsFiniteSet(1 .. 6)
    <3>1. 1 \in Int /\ 6 \in Int
      OBVIOUS
    <3> QED BY <3>1, FS_Interval
  <2>3. IsFiniteSet(Pollers \X Jobs) /\ IsFiniteSet(Goroutines \X (1 .. 6))
    BY <2>1, <2>2, FS_Product
  <2>4. /\ Copies \in SUBSET (Pollers \X Jobs) /\ Submitting \in SUBSET Pollers
        /\ Undone \in SUBSET (Goroutines \X (1 .. 6))
    BY DEF Copies, Submitting, Undone
  <2> QED BY <2>1, <2>3, <2>4, FS_Subset
<1>4. PoolInv /\ ListInv => DrainGoesOn
  BY GoesOn
<1>5. PoolInv /\ ListInv /\ [Next]_vars => [DrainNearer]_vars
  BY StepNearer DEF PoolInv
<1> QED BY <1>1, <1>2, <1>3, <1>4, <1>5, PTL DEF Spec

-----------------------------------------------------------------------------
(* A paused exophone winds down.                                            *)

CopiesOf(e) == {x \in Copies : ExophoneOf[x[2]] = e}

UndoneOf(e) == {x \in Undone : ExophoneOf[worker[x[1]].job] = e}

(* While the cron flag of an exophone is off, nothing is added to what is   *)
(* handed out or under way for it but by handing out, whatever the pollers, *)
(* the requests and the failures do; and each of its goroutines goes on.    *)
PausedNearer ==
    \A e \in Exophones : ~cron[e] =>
        \/ Shrinks(CopiesOf(e)', CopiesOf(e))
        \/ /\ CopiesOf(e)' = CopiesOf(e)
           /\ UndoneOf(e)' \subseteq UndoneOf(e)
           /\ \A w \in Goroutines :
                 (ExecuteJob(w) \/ Panic(w)) /\ ExophoneOf[worker[w].job] = e =>
                    Shrinks(UndoneOf(e)', UndoneOf(e))

LEMMA PollPaused ==
    ASSUME TypeOK, ListInv, NEW p \in Pollers, Poll(p), NEW e \in Exophones, ~cron[e]
    PROVE  CopiesOf(e)' = CopiesOf(e) /\ UndoneOf(e)' = UndoneOf(e)
<1>0. /\ poll \in [Pollers -> [pc : {"idle", "submit", "spawn"}, todo : SUBSET JobCopy]]
      /\ worker' = worker
  BY DEF TypeOK, Poll
<1>1. \A c \in DueJobs : ExophoneOf[c.job] # e
  BY DEF DueJobs, Due
<1>2. \A q \in Pollers : q # p => poll'[q] = poll[q]
  BY <1>0 DEF Poll
<1>3. poll[p].todo = {}
  BY DEF Poll, ListInv
<1>4. \A c \in poll'[p].todo : ExophoneOf[c.job] # e
  <2>1. \/ poll'[p] = IdlePoll \/ poll'[p] = poll[p]
        \/ poll'[p] = [pc |-> "submit", todo |-> DueJobs]
    BY <1>0 DEF Poll
  <2> QED BY <1>1, <1>3, <2>1 DEF IdlePoll
<1>5. \A x \in Pollers \X Jobs :
         x \in CopiesOf(e) <=> x \in CopiesOf(e)'
  <2> TAKE x \in Pollers \X Jobs
  <2>1. CASE x[1] = p
    BY <1>3, <1>4, <2>1 DEF CopiesOf, Copies
  <2>2. CASE x[1] # p
    BY <1>2, <2>2 DEF CopiesOf, Copies
  <2> QED BY <2>1, <2>2
<1>6. CopiesOf(e)' = CopiesOf(e)
  <2>1. CopiesOf(e) \subseteq Pollers \X Jobs /\ CopiesOf(e)' \subseteq Pollers \X Jobs
    BY DEF CopiesOf, Copies
  <2> QED BY <1>5, <2>1
<1> QED BY <1>0, <1>6 DEF UndoneOf, Undone

LEMMA WorkPaused ==
    ASSUME TypeOK, NEW w \in Goroutines, ExecuteJob(w) \/ Panic(w), NEW e \in Exophones
    PROVE  /\ CopiesOf(e)' = CopiesOf(e)
           /\ UndoneOf(e)' \subseteq UndoneOf(e)
           /\ ExophoneOf[worker[w].job] = e => Shrinks(UndoneOf(e)', UndoneOf(e))
<1>1. poll' = poll /\ \A v \in Goroutines : v # w => worker'[v] = worker[v]
  BY WorkStep
<1>2. PICK n \in 1 .. 6, m \in 0 .. 5 :
         m < n /\ StepsLeft(worker[w]) = n /\ StepsLeft(worker'[w]) = m
  BY WorkStep
<1>3. worker'[w].pc # "none" => worker'[w].job = worker[w].job
  BY WorkStep
<1>4. ASSUME NEW x \in UndoneOf(e)' PROVE x \in UndoneOf(e)
  <2>1. /\ x \in Goroutines \X (1 .. 6) /\ x[2] <= StepsLeft(worker'[x[1]])
        /\ ExophoneOf[worker'[x[1]].job] = e
    BY <1>4 DEF UndoneOf, Undone
  <2>2. CASE x[1] = w
    <3>1. x[2] <= n /\ ~(m < 1)
      BY <1>2, <2>1, <2>2
    <3>2. worker'[w].pc # "none"
      BY <1>2, <3>1 DEF StepsLeft
    <3> QED BY <1>2, <1>3, <2>1, <2>2, <3>1, <3>2 DEF UndoneOf, Undone
  <2>3. CASE x[1] # w
    BY <1>1, <2>1, <2>3 DEF UndoneOf, Undone
  <2> QED BY <2>2, <2>3
<1>5. ASSUME ExophoneOf[worker[w].job] = e
      PROVE  <<w, n>> \in UndoneOf(e) /\ <<w, n>> \notin UndoneOf(e)'
  BY <1>2, <1>5 DEF UndoneOf, Undone
<1>6. CopiesOf(e)' = CopiesOf(e)
  BY <1>1 DEF CopiesOf, Copies
<1> QED BY <1>4, <1>5, <1>6 DEF Shrinks

LEMMA SubmitPaused ==
    ASSUME TypeOK, ListInv, NEW p \in Pollers, Acquire(p) \/ Spawn(p), NEW e \in Exophones
    PROVE  \/ Shrinks(CopiesOf(e)', CopiesOf(e))
           \/ CopiesOf(e)' = CopiesOf(e) /\ UndoneOf(e)' = UndoneOf(e)
<1>0. poll \in [Pollers -> [pc : {"idle", "submit", "spawn"}, todo : SUBSET JobCopy]]
  BY DEF TypeOK
<1>1. CASE Acquire(p)
  <2>1. /\ poll'[p].todo = poll[p].todo
        /\ \A q \in Pollers : q # p => poll'[q] = poll[q]
    BY <1>0, <1>1 DEF Acquire
  <2> QED BY <1>1, <2>1 DEF Acquire, CopiesOf, Copies, UndoneOf, Undone
<1>2. CASE Spawn(p)
  <2>1. PICK c \in poll[p].todo, w \in Goroutines :
           /\ Gone(worker[w])
           /\ worker' = [worker EXCEPT ![w] = Goroutine(c)]
           /\ poll'[p] = IF poll[p].todo \ {c} = {} THEN IdlePoll
                         ELSE [pc |-> "submit", todo |-> poll[p].todo \ {c}]
    BY <1>0, <1>2 DEF Spawn
  <2>2. /\ poll'[p].todo = poll[p].todo \ {c}
        /\ \A q \in Pollers : q # p => poll'[q] = poll[q]
        /\ c.job \in Jobs
    BY <1>0, <1>2, <2>1 DEF Spawn, IdlePoll, JobCopy
  <2>3. CopiesOf(e)' \subseteq CopiesOf(e)
    BY <2>2 DEF CopiesOf, Copies
  <2>4. CASE ExophoneOf[c.job] = e
    <3>1. <<p, c.job>> \in CopiesOf(e)
      BY <2>2, <2>4 DEF CopiesOf, Copies
    <3>2. <<p, c.job>> \notin CopiesOf(e)'
      <4>1. \A d \in poll'[p].todo : d.job # c.job
        BY <2>2 DEF ListInv
      <4> QED BY <4>1 DEF CopiesOf, Copies
    <3> QED BY <2>3, <3>1, <3>2 DEF Shrinks
  <2>5. CASE ExophoneOf[c.job] # e
    <3>1. CopiesOf(e) \subseteq CopiesOf(e)'
      <4> SUFFICES ASSUME NEW x \in CopiesOf(e) PROVE x \in CopiesOf(e)'
        OBVIOUS
      <4>1. PICK d \in poll[x[1]].todo : d.job = x[2]
        BY DEF CopiesOf, Copies
      <4>2. d # c
        BY <2>5, <4>1 DEF CopiesOf
      <4>3. d \in poll'[x[1]].todo
        BY <2>2, <4>1, <4>2 DEF CopiesOf, Copies
      <4> QED BY <4>1, <4>3 DEF CopiesOf, Copies
    <3>2. UndoneOf(e)' = UndoneOf(e)
      <4>1. /\ worker'[w].job = c.job
            /\ \A v \in Goroutines : v # w => worker'[v] = worker[v]
        BY <2>1 DEF TypeOK, Goroutine
      <4>2. \A k \in 1 .. 6 : ~(k <= StepsLeft(worker[w]))
        BY <2>1 DEF StepsLeft, Gone
      <4>3. \A x \in Goroutines \X (1 .. 6) : x \in UndoneOf(e)' <=> x \in UndoneOf(e)
        <5> TAKE x \in Goroutines \X (1 .. 6)
        <5>1. CASE x[1] = w
          BY <2>5, <4>1, <4>2, <5>1 DEF UndoneOf, Undone
        <5>2. CASE x[1] # w
          BY <4>1, <5>2 DEF UndoneOf, Undone
        <5> QED BY <5>1, <5>2
      <4>4. /\ UndoneOf(e) \subseteq Goroutines \X (1 .. 6)
            /\ UndoneOf(e)' \subseteq Goroutines \X (1 .. 6)
        BY DEF UndoneOf, Undone
      <4> QED BY <4>3, <4>4
    <3> QED BY <2>3, <3>1, <3>2
  <2> QED BY <2>4, <2>5
<1> QED BY <1>1, <1>2

LEMMA StepPaused ==
    ASSUME TypeOK, ListInv, [Next]_vars, NEW e \in Exophones, ~cron[e]
    PROVE  \/ Shrinks(CopiesOf(e)', CopiesOf(e))
           \/ CopiesOf(e)' = CopiesOf(e) /\ UndoneOf(e)' \subseteq UndoneOf(e)
<1>1. CASE UNCHANGED <<poll, worker>>
  BY <1>1 DEF CopiesOf, Copies, UndoneOf, Undone
<1>2. CASE Exit \/ Crash
  <2>1. /\ \A p \in Pollers : poll'[p] = IdlePoll
        /\ \A w \in Goroutines : worker'[w] = NoGoroutine
    BY <1>2 DEF Exit, Crash, ProcessEnds
  <2>2. CopiesOf(e)' = {}
    BY <2>1 DEF CopiesOf, Copies, IdlePoll
  <2>3. UndoneOf(e)' = {}
    <3>1. StepsLeft(NoGoroutine) = 0
      BY DEF StepsLeft, NoGoroutine
    <3> QED BY <2>1, <3>1 DEF UndoneOf, Undone
  <2> QED BY <2>2, <2>3 DEF Shrinks
<1>3. CASE \/ Tick \/ (\E x \in Exophones : RefreshDone(x)) \/ Admin
           \/ Signal \/ StopCron \/ CronStopped \/ Boot \/ UNCHANGED vars
  <2>1. UNCHANGED <<poll, worker>>
    BY <1>3
    DEF Tick, RefreshDone, Admin, SetCronApplicable, UpdatePriority, UpdatePriorityConfig,
        Signal, StopCron, CronStopped, Boot, vars, processVars
  <2> QED BY <1>1, <2>1
<1> QED
  BY <1>2, <1>3, PollPaused, SubmitPaused, WorkPaused DEF Next, Dispatch, Shutdown

(* PausedQuiesces likewise: once the flag of an exophone is off, what a     *)
(* RunDueJobs in flight has copied of it is handed out and done, and        *)
(* nothing is added, however the flags of others, the priorities and the    *)
(* configuration change meanwhile.                                          *)
THEOREM PausedRunsOut == Spec => [][PausedNearer]_vars
<1>1. Init => TypeOK /\ ListInv
  BY TypeInit, ListInit
<1>2. TypeOK /\ ListInv /\ [Next]_vars => TypeOK' /\ ListInv'
  BY TypeNext, ListNext
<1>3. TypeOK /\ ListInv /\ [Next]_vars => PausedNearer
  BY StepPaused, WorkPaused DEF PausedNearer
<1> QED BY <1>1, <1>2, <1>3, PTL DEF Spec
=============================================================================
