---------------------------- MODULE JobScheduler ----------------------------
(***************************************************************************)
(* The monitoring scheduler: cron ticks that run RunDueJobs, each in a     *)
(* goroutine of its own (internal/scheduler/scheduler.go), the dispatcher  *)
(* that submits due jobs to a bounded pool (internal/workers/dispatcher.go *)
(* and pool.go), the life of one ExecuteJob and its transaction row        *)
(* (internal/workers/job_worker.go), the administration handlers that      *)
(* rewrite the job rows meanwhile, and the drain sequence of main.         *)
(*                                                                         *)
(* Time is relative.  left[j] is next_run_at - now in ticks of the         *)
(* resolution of a transaction id; a Tick ages every job, so the clock     *)
(* itself needs no variable and no bound.                                  *)
(***************************************************************************)
EXTENDS Integers, FiniteSets

CONSTANTS
    Exophones,      \* the rows of exophones
    Jobs,           \* the rows of monitoring_jobs
    ExophoneOf,     \* monitoring_jobs.exophone_id
    Priorities,     \* 0 stands for P0, 1 for P1, ...
    Frequencies,    \* values of frequency_minutes, in ticks
    PoolSize,       \* scheduler.worker_pool_size
    Pollers,        \* bound: RunDueJobs calls in flight at once
    Goroutines,     \* bound: pool goroutines alive at once
    MaxOverdue,     \* bound: how late a job is told apart
    MaxLives,       \* bound: how often the process is booted
    Requests,       \* what arrives from outside: requests and the signal
    Faults          \* the failures that occur

ASSUME SchedulerAssumption ==
    /\ ExophoneOf \in [Jobs -> Exophones]
    /\ Priorities \subseteq Nat
    /\ Frequencies \subseteq Nat \ {0}
    /\ PoolSize \in Nat \ {0}
    /\ IsFiniteSet(Pollers)
    /\ IsFiniteSet(Goroutines)
    /\ MaxOverdue \in Nat
    /\ MaxLives \in Nat \ {0}
    /\ Requests \subseteq {"toggle", "priority", "config", "signal"}
    /\ Faults \subseteq {"crash", "panic", "db", "account"}

VARIABLES
    \* --- MySQL ---
    cron,           \* exophones.is_cron_applicable
    active,         \* monitoring_jobs.is_active
    prio,           \* monitoring_jobs.priority
    freq,           \* monitoring_jobs.frequency_minutes
    left,           \* monitoring_jobs.next_run_at, relative to now
    config,         \* priority_config.frequency_minutes
    stamped,        \* jobs that own a transaction id of the current second
    orphan,         \* jobs with a RUNNING transaction that nobody will finish
    \* --- the process ---
    phase,          \* how far main is
    polled,         \* has cron fired the poll entry in this tick
    poll,           \* the RunDueJobs calls in flight
    sem,            \* tokens in Pool.sem
    wg,             \* counter of Pool.wg
    worker,         \* the pool's goroutines
    refreshing,     \* exophones with a detached RefreshExophoneHealth running
    lives,          \* boots so far
    faulted         \* history: a panic, a database failure or a crash occurred

dbVars      == <<cron, active, prio, freq, left, config, stamped, orphan>>
adminVars   == <<cron, active, prio, freq, config>>
processVars == <<phase, polled, poll, sem, wg, worker, refreshing>>
vars        == <<dbVars, processVars, lives, faulted>>

-----------------------------------------------------------------------------
Phases   == {"up", "http", "stopping", "waiting", "exited"}
Steps    == {"none", "create", "call", "update", "advance", "release", "done"}

(* ENDED stands for SUCCESS and FAILED: scheduling does not tell them      *)
(* apart (JobAttempt says which of them a call earns).                      *)
TxnState == {"NONE", "RUNNING", "ENDED"}

(* A row of monitoring_jobs as GetDueJobs copied it.                       *)
JobCopy == [job : Jobs, prio : Priorities, left : Int, freq : Frequencies]

IdlePoll == [pc |-> "idle", todo |-> {}]

(* A goroutine id that is not in use, and one that runs fn for copy c.     *)
NoGoroutine == [pc |-> "none"]

Goroutine(c) == [pc |-> "create", job |-> c.job, freq |-> c.freq,
                 txn |-> "NONE", found |-> TRUE]

Gone(s) == s.pc = "none"

(* Between <-p.sem and wg.Done a goroutine is alive but holds no slot.     *)
HoldsSlot(s) == s.pc \notin {"none", "done"}

Executing(j) == \E w \in Goroutines : HoldsSlot(worker[w]) /\ worker[w].job = j

(* Jobs whose RUNNING row dies with the goroutines of the process.         *)
RunningRows == {worker[w].job : w \in {v \in Goroutines :
                    ~Gone(worker[v]) /\ worker[v].txn = "RUNNING"}}

-----------------------------------------------------------------------------
(* Rows as onboarding writes them: due at once, active, frequency from     *)
(* priority_config.  The cron flag is onboarding's 1, or the 0 of the rows *)
(* that were there before migrate_001_leg_status.sql added the column.     *)
Init ==
    /\ cron \in [Exophones -> BOOLEAN]
    /\ active = [j \in Jobs |-> TRUE]
    /\ config \in [Priorities -> Frequencies]
    /\ \E p \in [Exophones -> Priorities] :
          prio = [j \in Jobs |-> p[ExophoneOf[j]]]
    /\ freq = [j \in Jobs |-> config[prio[j]]]
    /\ left = [j \in Jobs |-> 0]
    /\ stamped = {}
    /\ orphan = {}
    /\ phase = "up"
    /\ polled = FALSE
    /\ poll = [p \in Pollers |-> IdlePoll]
    /\ sem = 0
    /\ wg = 0
    /\ worker = [w \in Goroutines |-> NoGoroutine]
    /\ refreshing = {}
    /\ lives = 1
    /\ faulted = FALSE

(* One second passes: jobs age and the transaction-id stamp changes.       *)
Tick ==
    /\ left' = [j \in Jobs |-> IF left[j] > -MaxOverdue THEN left[j] - 1
                                                        ELSE left[j]]
    /\ stamped' = {}
    /\ polled' = FALSE
    /\ UNCHANGED <<adminVars, orphan, phase, poll, sem, wg, worker,
                   refreshing, lives, faulted>>

-----------------------------------------------------------------------------
(* Variant: the query forgets the join on is_cron_applicable and is_active. *)
DueIgnoringCron(j) == left[j] <= 0

(* GetDueJobs: due, active, cron-applicable rows, as copies.               *)
Due(j) == left[j] <= 0 /\ active[j] /\ cron[ExophoneOf[j]]

DueJobs == {[job |-> j, prio |-> prio[j], left |-> left[j], freq |-> freq[j]] :
               j \in {k \in Jobs : Due(k)}}

(* ORDER BY FIELD(priority, 'P0', ...), next_run_at: c may come before d.  *)
Before(c, d) == \/ c.prio < d.prio
                \/ c.prio = d.prio /\ c.left <= d.left

(* Cron fires RunDueJobs in a new goroutine; earlier ones may still run.   *)
(* An empty list, or a query error, ends the call at once.                 *)
Poll(p) ==
    /\ phase \in {"up", "http"}
    /\ ~polled
    /\ poll[p].pc = "idle"
    /\ polled' = TRUE
    /\ \/ /\ poll' = [poll EXCEPT ![p] =
                 IF DueJobs = {} THEN IdlePoll
                                 ELSE [pc |-> "submit", todo |-> DueJobs]]
          /\ UNCHANGED faulted
       \/ /\ "db" \in Faults
          /\ faulted' = TRUE
          /\ UNCHANGED poll
    /\ UNCHANGED <<dbVars, phase, sem, wg, worker, refreshing, lives>>

(* Variant: Submit starts a goroutine without waiting for a free slot.      *)
AcquireUnbounded(p) ==
    /\ poll[p].pc = "submit"
    /\ sem' = sem + 1
    /\ poll' = [poll EXCEPT ![p].pc = "spawn"]
    /\ UNCHANGED <<dbVars, phase, polled, wg, worker, refreshing, lives, faulted>>

(* Variant: the pool takes nothing in any more once the signal has arrived. *)
AcquireWhileUp(p) ==
    /\ poll[p].pc = "submit"
    /\ sem < PoolSize
    /\ phase = "up"
    /\ sem' = sem + 1
    /\ poll' = [poll EXCEPT ![p].pc = "spawn"]
    /\ UNCHANGED <<dbVars, phase, polled, wg, worker, refreshing, lives, faulted>>

(* p.sem <- struct{}{} : blocks while the channel is full.                 *)
Acquire(p) ==
    /\ poll[p].pc = "submit"
    /\ sem < PoolSize
    /\ sem' = sem + 1
    /\ poll' = [poll EXCEPT ![p].pc = "spawn"]
    /\ UNCHANGED <<dbVars, phase, polled, wg, worker, refreshing, lives, faulted>>

(* wg.Add(1) and the go statement for the first copy left in the list.     *)
Spawn(p) ==
    /\ poll[p].pc = "spawn"
    /\ \E c \in poll[p].todo, w \in Goroutines :
          LET rest == poll[p].todo \ {c} IN
          /\ \A d \in poll[p].todo : Before(c, d)
          /\ Gone(worker[w])
          /\ worker' = [worker EXCEPT ![w] = Goroutine(c)]
          /\ poll' = [poll EXCEPT ![p] =
                 IF rest = {} THEN IdlePoll ELSE [pc |-> "submit", todo |-> rest]]
    /\ wg' = wg + 1
    /\ UNCHANGED <<dbVars, phase, polled, sem, refreshing, lives, faulted>>

-----------------------------------------------------------------------------
(* ExecuteJob, one action per effect another goroutine can see.            *)

(* The transaction id holds the second and the job; its unique key refuses *)
(* a second execution of the same job within the same second, and          *)
(* ExecuteJob then returns without touching the job row.                   *)
CreateTransaction(w) ==
    /\ worker[w].pc = "create"
    /\ \/ /\ worker[w].job \notin stamped
          /\ stamped' = stamped \cup {worker[w].job}
          /\ worker' = [worker EXCEPT ![w].pc = "call", ![w].txn = "RUNNING"]
          /\ UNCHANGED faulted
       \/ /\ worker[w].job \in stamped
          /\ worker' = [worker EXCEPT ![w].pc = "release"]
          /\ UNCHANGED <<stamped, faulted>>
       \/ /\ "db" \in Faults
          /\ faulted' = TRUE
          /\ worker' = [worker EXCEPT ![w].pc = "release"]
          /\ UNCHANGED stamped
    /\ UNCHANGED <<adminVars, left, orphan, phase, polled, poll, sem, wg,
                   refreshing, lives>>

(* Variant: the job is advanced as soon as the API has answered.            *)
AdvancedFirst(w) ==
    /\ worker[w].pc = "call"
    /\ worker' = [worker EXCEPT ![w].pc = "advance"]
    /\ UNCHANGED <<dbVars, phase, polled, poll, sem, wg, refreshing, lives, faulted>>

(* GetAccountByID and the API call with its retries, stored response,      *)
(* metrics and alerts.  None of it is seen by another goroutine of the     *)
(* scheduler; what remains is whether the account was found.               *)
CallApi(w) ==
    /\ worker[w].pc = "call"
    /\ \E found \in {TRUE} \cup {f \in {FALSE} : "account" \in Faults} :
          worker' = [worker EXCEPT ![w].pc = "update", ![w].found = found]
    /\ UNCHANGED <<dbVars, phase, polled, poll, sem, wg, refreshing, lives, faulted>>

(* Variant: a status outside the enumeration of job_transactions.           *)
UpdateTransactionUnknown(w) ==
    /\ worker[w].pc = "update"
    /\ worker' = [worker EXCEPT ![w].pc = "advance", ![w].txn = "UNKNOWN"]
    /\ UNCHANGED <<dbVars, phase, polled, poll, sem, wg, refreshing, lives, faulted>>

(* UpdateTransactionStatus, whose error is discarded, and then, unless the *)
(* account was missing, go snapshots.RefreshExophoneHealth: a goroutine    *)
(* nothing waits for.                                                      *)
UpdateTransaction(w) ==
    /\ worker[w].pc = "update"
    /\ \/ /\ worker' = [worker EXCEPT ![w].pc = "advance", ![w].txn = "ENDED"]
          /\ UNCHANGED faulted
       \/ /\ "db" \in Faults
          /\ faulted' = TRUE
          /\ worker' = [worker EXCEPT ![w].pc = "advance"]
    /\ refreshing' = IF worker[w].found
                         THEN refreshing \cup {ExophoneOf[worker[w].job]}
                         ELSE refreshing
    /\ UNCHANGED <<dbVars, phase, polled, poll, sem, wg, lives>>

RefreshDone(e) ==
    /\ phase # "exited"
    /\ e \in refreshing
    /\ refreshing' = refreshing \ {e}
    /\ UNCHANGED <<dbVars, phase, polled, poll, sem, wg, worker, lives, faulted>>

(* AdvanceNextRun with the frequency of the dispatched copy; its error is  *)
(* discarded too, and the job then stays due.                              *)
AdvanceNextRun(w) ==
    /\ worker[w].pc = "advance"
    /\ \/ /\ left' = [left EXCEPT ![worker[w].job] = worker[w].freq]
          /\ UNCHANGED faulted
       \/ /\ "db" \in Faults
          /\ faulted' = TRUE
          /\ UNCHANGED left
    /\ worker' = [worker EXCEPT ![w].pc = "release"]
    /\ UNCHANGED <<adminVars, stamped, orphan, phase, polled, poll, sem, wg,
                   refreshing, lives>>

(* Variant: slot and wait group are given back by statements after fn(),    *)
(* not by a deferred function, so a panic skips them.                       *)
PanicKeepsSlot(w) ==
    /\ worker[w].pc = "call"
    /\ worker' = [worker EXCEPT ![w] = NoGoroutine]
    /\ faulted' = TRUE
    /\ UNCHANGED <<dbVars, phase, polled, poll, sem, wg, refreshing, lives>>

(* A panic unwinds to the deferred function, past the update and advance.  *)
Panic(w) ==
    /\ "panic" \in Faults
    /\ worker[w].pc = "call"
    /\ worker' = [worker EXCEPT ![w].pc = "release"]
    /\ faulted' = TRUE
    /\ UNCHANGED <<dbVars, phase, polled, poll, sem, wg, refreshing, lives>>

(* Variant: the deferred function forgets <-p.sem.                          *)
SlotLeaks(w) ==
    /\ worker[w].pc = "release"
    /\ worker' = [worker EXCEPT ![w].pc = "done"]
    /\ UNCHANGED <<dbVars, phase, polled, poll, sem, wg, refreshing, lives, faulted>>

(* The deferred function of Submit: <-p.sem, then wg.Done.                 *)
ReleaseSlot(w) ==
    /\ worker[w].pc = "release"
    /\ sem' = sem - 1
    /\ worker' = [worker EXCEPT ![w].pc = "done"]
    /\ UNCHANGED <<dbVars, phase, polled, poll, wg, refreshing, lives, faulted>>

WgDone(w) ==
    /\ worker[w].pc = "done"
    /\ wg' = wg - 1
    /\ worker' = [worker EXCEPT ![w] = NoGoroutine]
    /\ orphan' = IF worker[w].txn = "RUNNING" THEN orphan \cup {worker[w].job}
                                              ELSE orphan
    /\ UNCHANGED <<adminVars, left, stamped, phase, polled, poll, sem,
                   refreshing, lives, faulted>>

-----------------------------------------------------------------------------
(* Administration requests.  srv.Shutdown gives up after 30 s, so a        *)
(* handler may still finish in any phase before the process is gone.       *)

(* SetCronApplicable: the flag and is_active of all jobs, one transaction. *)
SetCronApplicable(e, val) ==
    /\ "toggle" \in Requests
    /\ phase # "exited"
    /\ cron' = [cron EXCEPT ![e] = val]
    /\ active' = [j \in Jobs |-> IF ExophoneOf[j] = e THEN val ELSE active[j]]
    /\ UNCHANGED <<prio, freq, left, config, stamped, orphan, processVars,
                   lives, faulted>>

(* UpdatePriority: the frequency is the request's or the configured one.   *)
UpdatePriority(e, p, f) ==
    /\ "priority" \in Requests
    /\ phase # "exited"
    /\ prio' = [j \in Jobs |-> IF ExophoneOf[j] = e THEN p ELSE prio[j]]
    /\ freq' = [j \in Jobs |-> IF ExophoneOf[j] = e THEN f ELSE freq[j]]
    /\ UNCHANGED <<cron, active, left, config, stamped, orphan, processVars,
                   lives, faulted>>

(* UpdatePriorityConfig: the config row only, never the job rows.          *)
UpdatePriorityConfig(p, f) ==
    /\ "config" \in Requests
    /\ phase # "exited"
    /\ config' = [config EXCEPT ![p] = f]
    /\ UNCHANGED <<cron, active, prio, freq, left, stamped, orphan, processVars,
                   lives, faulted>>

-----------------------------------------------------------------------------
(* main after the signal: srv.Shutdown, scheduler.Stop, DefaultPool.Wait.  *)
Signal ==
    /\ "signal" \in Requests
    /\ phase = "up"
    /\ phase' = "http"
    /\ UNCHANGED <<dbVars, polled, poll, sem, wg, worker, refreshing, lives, faulted>>

(* srv.Shutdown returned; cron accepts no further tick.                    *)
StopCron ==
    /\ phase = "http"
    /\ phase' = "stopping"
    /\ UNCHANGED <<dbVars, polled, poll, sem, wg, worker, refreshing, lives, faulted>>

(* Variant: Stop does not wait for the context of cron.Stop.                *)
StopWithoutWaiting ==
    /\ phase = "stopping"
    /\ phase' = "waiting"
    /\ UNCHANGED <<dbVars, polled, poll, sem, wg, worker, refreshing, lives, faulted>>

(* <-ctx.Done(): every cron function has returned.                         *)
CronStopped ==
    /\ phase = "stopping"
    /\ \A p \in Pollers : poll[p].pc = "idle"
    /\ phase' = "waiting"
    /\ UNCHANGED <<dbVars, polled, poll, sem, wg, worker, refreshing, lives, faulted>>

(* The end of the process takes every goroutine with it.                   *)
ProcessEnds ==
    /\ phase' = "exited"
    /\ poll' = [p \in Pollers |-> IdlePoll]
    /\ worker' = [w \in Goroutines |-> NoGoroutine]
    /\ orphan' = orphan \cup RunningRows
    /\ sem' = 0
    /\ wg' = 0
    /\ UNCHANGED <<adminVars, left, stamped, polled, refreshing, lives>>

(* Variant: main returns without DefaultPool.Wait.                          *)
ExitWithoutWait == phase = "waiting" /\ ProcessEnds /\ UNCHANGED faulted

(* wg.Wait returned and main with it.                                      *)
Exit ==
    /\ phase = "waiting"
    /\ wg = 0
    /\ ProcessEnds
    /\ UNCHANGED faulted

Crash ==
    /\ "crash" \in Faults
    /\ phase # "exited"
    /\ ProcessEnds
    /\ faulted' = TRUE

Boot ==
    /\ phase = "exited"
    /\ lives < MaxLives
    /\ lives' = lives + 1
    /\ phase' = "up"
    /\ refreshing' = {}
    /\ UNCHANGED <<dbVars, polled, poll, sem, wg, worker, faulted>>

-----------------------------------------------------------------------------
Dispatch(p) == Poll(p) \/ Acquire(p) \/ Spawn(p)

ExecuteJob(w) ==
    \/ CreateTransaction(w) \/ CallApi(w) \/ UpdateTransaction(w)
    \/ AdvanceNextRun(w) \/ ReleaseSlot(w) \/ WgDone(w)

Admin ==
    \/ \E e \in Exophones, val \in BOOLEAN : SetCronApplicable(e, val)
    \/ \E e \in Exophones, p \in Priorities, f \in Frequencies : UpdatePriority(e, p, f)
    \/ \E p \in Priorities, f \in Frequencies : UpdatePriorityConfig(p, f)

Shutdown == StopCron \/ CronStopped \/ Exit

Next ==
    \/ Tick
    \/ \E p \in Pollers : Dispatch(p)
    \/ \E w \in Goroutines : ExecuteJob(w) \/ Panic(w)
    \/ \E e \in Exophones : RefreshDone(e)
    \/ Admin
    \/ Signal \/ Shutdown \/ Crash \/ Boot

(* Time passes, cron fires, goroutines are scheduled and calls return      *)
(* (every HTTP client has a timeout; a statement returns as long as the    *)
(* database or TCP answers).  A full channel wakes its senders in          *)
(* the order they arrived, hence strong fairness for Acquire; a go         *)
(* statement never blocks, so for Spawn it only undoes the bound on ids.   *)
Fairness ==
    /\ WF_vars(Tick)
    /\ WF_vars(\E p \in Pollers : Poll(p))
    /\ \A p \in Pollers : SF_vars(Acquire(p)) /\ SF_vars(Spawn(p))
    /\ \A w \in Goroutines : WF_vars(ExecuteJob(w))
    /\ WF_vars(Shutdown)

Spec == Init /\ [][Next]_vars

FairSpec == Spec /\ Fairness

-----------------------------------------------------------------------------
(* Types.                                                                  *)
Running == [pc : Steps \ {"none"}, job : Jobs, freq : Frequencies,
            txn : TxnState, found : BOOLEAN]

TypeOK ==
    /\ cron \in [Exophones -> BOOLEAN]
    /\ active \in [Jobs -> BOOLEAN]
    /\ prio \in [Jobs -> Priorities]
    /\ freq \in [Jobs -> Frequencies]
    /\ left \in [Jobs -> Int]
    /\ config \in [Priorities -> Frequencies]
    /\ stamped \subseteq Jobs
    /\ orphan \subseteq Jobs
    /\ phase \in Phases
    /\ polled \in BOOLEAN
    /\ poll \in [Pollers -> [pc : {"idle", "submit", "spawn"}, todo : SUBSET JobCopy]]
    /\ sem \in Int
    /\ wg \in Int
    /\ worker \in [Goroutines -> {NoGoroutine} \cup Running]
    /\ refreshing \subseteq Exophones
    /\ lives \in 1 .. MaxLives
    /\ faulted \in BOOLEAN

-----------------------------------------------------------------------------
(* Safety.                                                                 *)

Holders  == {w \in Goroutines : HoldsSlot(worker[w])}
Alive    == {w \in Goroutines : ~Gone(worker[w])}
Spawning == {p \in Pollers : poll[p].pc = "spawn"}

(* The two counters of the pool tell the truth: a token for every holder   *)
(* and every Submit between acquiring and its go statement, and one wg     *)
(* count for every goroutine that main still has to wait for.              *)
PoolAccounting ==
    /\ sem = Cardinality(Holders) + Cardinality(Spawning)
    /\ sem <= PoolSize
    /\ wg = Cardinality(Alive)

(* A transaction stays RUNNING for good only after a panic, a database     *)
(* failure or a crash: the drain order of main loses no row of its own.    *)
NoOrphanWithoutFault == ~faulted => orphan = {}

(* wg.Add never races wg.Wait: once scheduler.Stop has returned no Submit  *)
(* is left that could add a goroutine main does not wait for.              *)
NoAddDuringWait == [][wg' > wg => phase \notin {"waiting", "exited"}]_vars

(* next_run_at moves forward only for a run whose row already tells its    *)
(* outcome, so a crash in between repeats the run instead of hiding it.    *)
(* A statement that may fail may fail for the row alone: then this is      *)
(* claimed up to the first failure.                                        *)
RescheduledAfterOutcome ==
    [][(\/ "db" \notin Faults
        \/ ~faulted) =>
       \A j \in Jobs : left'[j] > left[j] =>
          \E w \in Goroutines : /\ HoldsSlot(worker[w])
                                /\ worker[w].job = j
                                /\ worker[w].txn = "ENDED"]_vars

(* The pool as its callers see it.                                         *)
Executor == INSTANCE BoundedExecutor
              WITH Tasks <- Goroutines, Capacity <- PoolSize,
                   MayCrash <- "crash" \in Faults,
                   running <- Holders, open <- phase # "exited"

(* The semaphore, the wait group and the drain order of main implement the *)
(* bounded executor: no step overfills it, and only a crash ends the       *)
(* process while a task holds a slot.                                      *)
ImplementsExecutor == Executor!Spec

-----------------------------------------------------------------------------
(* Liveness, under FairSpec.                                               *)

(* No due job starves, whatever its priority and however full the pool is, *)
(* unless it is paused or the process is going down.                       *)
DueJobRuns ==
    \A j \in Jobs : (Due(j) /\ phase = "up") ~>
                        (Executing(j) \/ ~Due(j) \/ phase # "up")

(* A signal leads to the end of the process: the drain sequence cannot     *)
(* wait for itself.                                                        *)
ShutdownCompletes == (phase = "http") ~> (phase = "exited")

(* After cron is switched off for good, the copies already dispatched      *)
(* drain and no job of the exophone runs again.                            *)
PausedQuiesces ==
    \A e \in Exophones :
        (<>[]~cron[e]) => <>[](\A j \in Jobs : ExophoneOf[j] = e => ~Executing(j))
=============================================================================
