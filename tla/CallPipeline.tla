---------------------------- MODULE CallPipeline ----------------------------
(***************************************************************************)
(* Counting the calls of one IST day: executeCalls with its Redis filter   *)
(* (internal/workers/job_worker.go, internal/cache/dedup.go), the read-    *)
(* modify-write of the day's row (internal/snapshots/generator.go), the    *)
(* account dashboard (internal/repository/snapshot_repo.go) and the        *)
(* handlers that repair the day meanwhile (internal/handlers/backfill.go   *)
(* and reprocess.go).                                                      *)
(*                                                                         *)
(* A row of call_metrics_snapshot is the number of times each call was     *)
(* added to it; the columns are sums over that.  Which window an execution *)
(* fetches is not modelled here: it may return any of the calls made so    *)
(* far, so windows overlap in every possible way.                          *)
(***************************************************************************)
EXTENDS Integers, FiniteSets

CONSTANTS
    Exophones,
    Calls,          \* call SIDs of the day
    OwnerOf,        \* the exophone a call belongs to
    Runs,           \* bound: CALLS executions in flight at once
    Repairs,        \* bound: backfills and reprocess requests in flight at once
    Kinds,          \* kinds of repair that are requested
    TakeTurns,      \* who takes turns on an exophone: nobody, repairs, or all
    Skips,          \* initial values of skip_call_logs
    SkipAlls,       \* values of scheduler.skip_call_logs_write in the configuration
    MaxCount,       \* bound: Redis fails only while every count is below it
    Requests,       \* settings that are changed at run time
    Faults          \* the failures that occur

ASSUME PipelineAssumption ==
    /\ OwnerOf \in [Calls -> Exophones]
    /\ Kinds \subseteq {"backfill", "bulk", "reprocess"}
    /\ TakeTurns \in {"none", "repairs", "all"}
    /\ Skips \subseteq BOOLEAN
    /\ SkipAlls \subseteq BOOLEAN
    /\ MaxCount \in Nat
    /\ Requests \subseteq {"settings", "skip"}
    /\ Faults \subseteq {"crash", "db", "redis", "api"}

VARIABLES
    happened,       \* calls the vendor reports so far
    dedup,          \* Redis: the SID set of each exophone
    snapshot,       \* call_metrics_snapshot of the day
    logs,           \* call_logs
    pages,          \* job_responses: call records and whether their row is 2xx
    dashboard,      \* the rows account_dashboard_snapshot was computed from
    skip,           \* exophones.skip_call_logs
    skipAll,        \* feature.skipCallLogsWrite
    run,            \* the executions
    repair          \* the backfills and reprocess requests

stores   == <<dedup, snapshot, logs, pages, dashboard>>
settings == <<skip, skipAll>>
vars     == <<happened, stores, settings, run, repair>>

-----------------------------------------------------------------------------
Idle == [pc |-> "idle"]

Busy(s, e) == s.pc # "idle" /\ s.exo = e

NoRun(e)    == \A x \in Runs : ~Busy(run[x], e)
NoRepair(e) == \A r \in Repairs : ~Busy(repair[r], e)
AtRest(e)   == NoRun(e) /\ NoRepair(e)

(* Nothing in the code makes executions and repairs of an exophone take    *)
(* turns; these are the environments in which it happens.                  *)
MayRun(e)    == /\ TakeTurns = "all" => NoRun(e)
                /\ TakeTurns # "none" => NoRepair(e)
MayRepair(e) == TakeTurns # "none" => AtRest(e)

Empty == [c \in Calls |-> 0]

(* The row a batch alone makes, and the row with the batch added.          *)
RowOf(S)    == [c \in Calls |-> IF c \in S THEN 1 ELSE 0]
Plus(f, S)  == [c \in Calls |-> IF c \in S THEN f[c] + 1 ELSE f[c]]

Own(e) == {c \in Calls : OwnerOf[c] = e}

(* A statement whose error is discarded stores all it was given or, when   *)
(* the database fails, any part of it.                                     *)
Stored(S) == {T \in SUBSET S : T = S \/ "db" \in Faults}

Pages(e, S, ok) == [exo : {e}, call : S, ok : {ok}]

Init ==
    /\ happened = {}
    /\ dedup = [e \in Exophones |-> {}]
    /\ snapshot = [e \in Exophones |-> Empty]
    /\ logs = [e \in Exophones |-> {}]
    /\ pages = {}
    /\ dashboard = [e \in Exophones |-> Empty]
    /\ skip \in [Exophones -> Skips]
    /\ skipAll \in SkipAlls
    /\ run = [x \in Runs |-> Idle]
    /\ repair = [r \in Repairs |-> Idle]

CallHappens(c) ==
    /\ c \notin happened
    /\ happened' = happened \cup {c}
    /\ UNCHANGED <<stores, settings, run, repair>>

-----------------------------------------------------------------------------
(* executeCalls.                                                           *)

(* GetExophoneByID.  When it fails the execution goes on without a number, *)
(* and takes skip_call_logs for off.                                       *)
ResolveExophone(x, e) ==
    /\ run[x].pc = "idle"
    /\ MayRun(e)
    /\ \E found \in {TRUE} \cup {f \in {FALSE} : "db" \in Faults} :
          run' = [run EXCEPT ![x] =
                     [pc |-> "fetch", exo |-> e, found |-> found,
                      skip |-> found /\ skip[e], batch |-> {}, todo |-> {},
                      fresh |-> {}, row |-> Empty]]
    /\ UNCHANGED <<happened, stores, settings, repair>>

(* Without a number the vendor reports the calls of the whole account.     *)
Reported(x) == IF run[x].found THEN happened \cap Own(run[x].exo) ELSE happened

(* FetchCalls and the rows of job_responses.                               *)
FetchCalls(x) ==
    /\ run[x].pc = "fetch"
    /\ \E batch \in SUBSET Reported(x) :
          /\ \E S \in Stored(batch) :
                pages' = pages \cup Pages(run[x].exo, S, TRUE)
          /\ run' = [run EXCEPT ![x].batch = batch, ![x].todo = batch,
                        ![x].pc = IF batch = {} THEN "logs" ELSE "register"]
    /\ UNCHANGED <<happened, dedup, snapshot, logs, dashboard, settings, repair>>

(* The last attempt failed, or a 4xx ended the execution, perhaps after    *)
(* some pages: they are stored with the status of the last answer, which   *)
(* is 2xx only when a page could not be parsed.                            *)
FetchFails(x) ==
    /\ "api" \in Faults
    /\ run[x].pc = "fetch"
    /\ \E S \in SUBSET Reported(x), ok \in BOOLEAN :
          pages' = pages \cup Pages(run[x].exo, S, ok)
    /\ run' = [run EXCEPT ![x] = Idle]
    /\ UNCHANGED <<happened, dedup, snapshot, logs, dashboard, settings, repair>>

(* Variant: every call is taken for new, whatever SADD answers.             *)
RegisterIgnoringAnswer(x, c) ==
    LET e == run[x].exo
        rest == run[x].todo \ {c} IN
    /\ run[x].pc = "register"
    /\ c \in run[x].todo
    /\ dedup' = [dedup EXCEPT ![e] = @ \cup {c}]
    /\ run' = [run EXCEPT ![x].todo = rest, ![x].fresh = @ \cup {c},
                  ![x].pc = IF rest = {} THEN "logs" ELSE "register"]
    /\ UNCHANGED <<happened, snapshot, logs, pages, dashboard, settings, repair>>

(* filterNewRecords: one SADD of the pipeline; the call is fresh when the  *)
(* set did not hold it.  Pipelines of other executions interleave.         *)
Register(x, c) ==
    LET e == run[x].exo
        rest == run[x].todo \ {c} IN
    /\ run[x].pc = "register"
    /\ c \in run[x].todo
    /\ dedup' = [dedup EXCEPT ![e] = @ \cup {c}]
    /\ run' = [run EXCEPT ![x].todo = rest,
                  ![x].fresh = IF c \in dedup[e] THEN @ ELSE @ \cup {c},
                  ![x].pc = IF rest = {} THEN "logs" ELSE "register"]
    /\ UNCHANGED <<happened, snapshot, logs, pages, dashboard, settings, repair>>

(* Variant: a pipeline error leaves the calls not yet answered out.         *)
RegisterFailsClosed(x) ==
    /\ "redis" \in Faults
    /\ run[x].pc = "register"
    /\ \A c \in run[x].batch : snapshot[run[x].exo][c] < MaxCount
    /\ run' = [run EXCEPT ![x].todo = {}, ![x].pc = "logs"]
    /\ UNCHANGED <<happened, stores, settings, repair>>

(* The pipeline fails, or the deadline of the job has passed by now (the   *)
(* fetch does not obey it, the pipeline does), whatever part of it was     *)
(* executed: all calls are fresh.                                          *)
RegisterFails(x) ==
    /\ "redis" \in Faults
    /\ run[x].pc = "register"
    /\ \A c \in run[x].batch : snapshot[run[x].exo][c] < MaxCount
    /\ run' = [run EXCEPT ![x].todo = {}, ![x].fresh = run[x].batch, ![x].pc = "logs"]
    /\ UNCHANGED <<happened, stores, settings, repair>>

(* Variant: a batch without new calls ends nowhere.                         *)
SaveCallLogsReturns(x) ==
    /\ run[x].pc = "logs"
    /\ run' = [run EXCEPT ![x].pc = IF run[x].fresh = {} THEN "returned" ELSE "read"]
    /\ UNCHANGED <<happened, stores, settings, repair>>

(* Variant: the row is only updated by executions that write call logs.     *)
SaveCallLogsOrNothing(x) ==
    LET e == run[x].exo
        skipped == skipAll \/ run[x].skip IN
    /\ run[x].pc = "logs"
    /\ logs' = IF skipped THEN logs ELSE [logs EXCEPT ![e] = @ \cup run[x].fresh]
    /\ run' = [run EXCEPT ![x].pc = IF skipped \/ run[x].fresh = {} THEN "dashboard"
                                                                    ELSE "read"]
    /\ UNCHANGED <<happened, dedup, snapshot, pages, dashboard, settings, repair>>

(* SaveCallLogs (INSERT IGNORE) unless a flag says no.  A batch without    *)
(* new calls leaves the row alone: AccumulateCallMetrics returns at once.  *)
SaveCallLogs(x) ==
    LET e == run[x].exo IN
    /\ run[x].pc = "logs"
    /\ IF skipAll \/ run[x].skip
          THEN UNCHANGED logs
          ELSE \E S \in Stored(run[x].fresh) : logs' = [logs EXCEPT ![e] = @ \cup S]
    /\ run' = [run EXCEPT ![x].pc = IF run[x].fresh = {} THEN "dashboard" ELSE "read"]
    /\ UNCHANGED <<happened, dedup, snapshot, pages, dashboard, settings, repair>>

(* AccumulateCallMetrics, first half: a row that cannot be read is taken   *)
(* for one that does not exist.                                            *)
ReadSnapshot(x) ==
    /\ run[x].pc = "read"
    /\ \E row \in {snapshot[run[x].exo]} \cup {z \in {Empty} : "db" \in Faults} :
          run' = [run EXCEPT ![x].row = row, ![x].pc = "upsert"]
    /\ UNCHANGED <<happened, stores, settings, repair>>

(* Variant: the whole batch is added instead of its new calls.              *)
UpsertBatch(x) ==
    LET e == run[x].exo IN
    /\ run[x].pc = "upsert"
    /\ \/ snapshot' = [snapshot EXCEPT ![e] = Plus(run[x].row, run[x].batch)]
       \/ "db" \in Faults /\ UNCHANGED snapshot
    /\ run' = [run EXCEPT ![x].pc = "dashboard"]
    /\ UNCHANGED <<happened, dedup, logs, pages, dashboard, settings, repair>>

(* Second half: the sums are written back.                                 *)
UpsertSnapshot(x) ==
    LET e == run[x].exo IN
    /\ run[x].pc = "upsert"
    /\ \/ snapshot' = [snapshot EXCEPT ![e] = Plus(run[x].row, run[x].fresh)]
       \/ "db" \in Faults /\ UNCHANGED snapshot
    /\ run' = [run EXCEPT ![x].pc = "dashboard"]
    /\ UNCHANGED <<happened, dedup, logs, pages, dashboard, settings, repair>>

(* Variant: the two ways to compute the dashboard are swapped.              *)
UpdateDashboardSwapped(x) ==
    /\ run[x].pc = "dashboard"
    /\ dashboard' = IF skipAll \/ run[x].skip
                        THEN [e \in Exophones |-> RowOf(logs[e])]
                        ELSE snapshot
    /\ run' = [run EXCEPT ![x] = Idle]
    /\ UNCHANGED <<happened, dedup, snapshot, logs, pages, settings, repair>>

(* AccumulateAccountDashboardFromSnapshots or                              *)
(* RecomputeAccountDashboardSnapshot, as the flags say now.                *)
UpdateDashboard(x) ==
    /\ run[x].pc = "dashboard"
    /\ \/ dashboard' = IF skipAll \/ run[x].skip
                           THEN snapshot
                           ELSE [e \in Exophones |-> RowOf(logs[e])]
       \/ "db" \in Faults /\ UNCHANGED dashboard
    /\ run' = [run EXCEPT ![x] = Idle]
    /\ UNCHANGED <<happened, dedup, snapshot, logs, pages, settings, repair>>

-----------------------------------------------------------------------------
(* Repairs of the day.                                                     *)

(* A second backfill of the same exophone and date is refused. A bulk run  *)
(* has a task for each position of the date in its array, and reprocess    *)
(* requests are never refused.                                             *)
MayRequest(r, e, kind) ==
    /\ repair[r].pc = "idle"
    /\ kind \in Kinds
    /\ kind = "backfill" =>
          \A q \in Repairs : Busy(repair[q], e) => repair[q].kind # kind
    /\ MayRepair(e)

(* BackfillExophoneSnapshot, or a task of BulkBackfill: refetch the day    *)
(* and store its pages under the transaction BACKFILL-<id>-<date>.         *)
Backfill(r, e, kind, skipLogs) ==
    /\ kind # "reprocess"
    /\ MayRequest(r, e, kind)
    /\ \E S \in Stored(happened \cap Own(e)) :
          pages' = pages \cup Pages(e, S, TRUE)
    /\ repair' = [repair EXCEPT ![r] =
                     [pc |-> "logs", exo |-> e, kind |-> kind, skip |-> skipLogs,
                      calls |-> happened \cap Own(e), todo |-> {}]]
    /\ UNCHANGED <<happened, dedup, snapshot, logs, dashboard, settings, run>>

(* ReprocessExophoneSnapshot: the 2xx pages that name this exophone.       *)
Reprocess(r, e) ==
    LET found == {c \in Own(e) : [exo |-> e, call |-> c, ok |-> TRUE] \in pages} IN
    /\ MayRequest(r, e, "reprocess")
    /\ repair' = [repair EXCEPT ![r] =
                     [pc |-> IF found = {} THEN "fallback" ELSE "logs", exo |-> e,
                      kind |-> "reprocess", skip |-> skip[e],
                      calls |-> found, todo |-> {}]]
    /\ UNCHANGED <<happened, stores, settings, run>>

(* Without usable pages the rows of call_logs; without those it is a 404.  *)
ReprocessFromLogs(r) ==
    LET found == logs[repair[r].exo] IN
    /\ repair[r].pc = "fallback"
    /\ repair' = [repair EXCEPT ![r] =
                     IF found = {} THEN Idle
                                   ELSE [repair[r] EXCEPT !.pc = "logs", !.calls = found]]
    /\ UNCHANGED <<happened, stores, settings, run>>

RepairCallLogs(r) ==
    LET e == repair[r].exo IN
    /\ repair[r].pc = "logs"
    /\ IF repair[r].skip
          THEN UNCHANGED logs
          ELSE \E S \in Stored(repair[r].calls) : logs' = [logs EXCEPT ![e] = @ \cup S]
    /\ repair' = [repair EXCEPT ![r].pc = "upsert"]
    /\ UNCHANGED <<happened, dedup, snapshot, pages, dashboard, settings, run>>

(* The row is overwritten.  The breakdown of no calls is an empty text,    *)
(* which the JSON column refuses.  On an error only a bulk task goes on.   *)
OverwriteSnapshot(r) ==
    LET e == repair[r].exo
        next == [repair[r] EXCEPT !.todo = repair[r].calls,
                    !.pc = IF repair[r].calls = {} THEN "dashboard" ELSE "register"] IN
    /\ repair[r].pc = "upsert"
    /\ \/ /\ repair[r].calls # {}
          /\ snapshot' = [snapshot EXCEPT ![e] = RowOf(repair[r].calls)]
          /\ repair' = [repair EXCEPT ![r] = next]
       \/ /\ "db" \in Faults \/ repair[r].calls = {}
          /\ repair' = [repair EXCEPT ![r] = IF repair[r].kind = "bulk" THEN next
                                                                        ELSE Idle]
          /\ UNCHANGED snapshot
    /\ UNCHANGED <<happened, dedup, logs, pages, dashboard, settings, run>>

(* Variant: the SIDs of a repaired day are not registered.                  *)
RepairRegisterForgotten(r, c) ==
    /\ repair[r].pc = "register"
    /\ c \in repair[r].todo
    /\ repair' = [repair EXCEPT ![r].todo = {}, ![r].pc = "dashboard"]
    /\ UNCHANGED <<happened, stores, settings, run>>

(* AddCallSids, with its answer discarded.                                 *)
RepairRegister(r, c) ==
    LET e == repair[r].exo
        rest == repair[r].todo \ {c} IN
    /\ repair[r].pc = "register"
    /\ c \in repair[r].todo
    /\ dedup' = [dedup EXCEPT ![e] = @ \cup {c}]
    /\ repair' = [repair EXCEPT ![r].todo = rest,
                     ![r].pc = IF rest = {} THEN "dashboard" ELSE "register"]
    /\ UNCHANGED <<happened, snapshot, logs, pages, dashboard, settings, run>>

RepairRegisterFails(r) ==
    /\ "redis" \in Faults
    /\ repair[r].pc = "register"
    /\ repair' = [repair EXCEPT ![r].todo = {}, ![r].pc = "dashboard"]
    /\ UNCHANGED <<happened, stores, settings, run>>

RepairDashboard(r) ==
    /\ repair[r].pc = "dashboard"
    /\ \/ dashboard' = snapshot
       \/ "db" \in Faults /\ UNCHANGED dashboard
    /\ repair' = [repair EXCEPT ![r] = Idle]
    /\ UNCHANGED <<happened, dedup, snapshot, logs, pages, settings, run>>

-----------------------------------------------------------------------------
(* UpdateSettings and SetSkipCallLogs.                                     *)
SetSkipCallLogsWrite(v) ==
    /\ "settings" \in Requests
    /\ skipAll' = v
    /\ UNCHANGED <<happened, stores, skip, run, repair>>

SetSkipCallLogs(e, v) ==
    /\ "skip" \in Requests
    /\ skip' = [skip EXCEPT ![e] = v]
    /\ UNCHANGED <<happened, stores, skipAll, run, repair>>

(* The process ends between any two steps; the flag is seeded again.       *)
Crash ==
    /\ "crash" \in Faults
    /\ run' = [x \in Runs |-> Idle]
    /\ repair' = [r \in Repairs |-> Idle]
    /\ skipAll' \in SkipAlls
    /\ UNCHANGED <<happened, stores, skip>>

(* Redis restarts empty or evicts the key under memory pressure.           *)
RedisForgets(e) ==
    /\ "redis" \in Faults
    /\ dedup[e] # {}
    /\ \A c \in Calls : snapshot[e][c] < MaxCount
    /\ dedup' = [dedup EXCEPT ![e] = {}]
    /\ UNCHANGED <<happened, snapshot, logs, pages, dashboard, settings, run, repair>>

-----------------------------------------------------------------------------
RunStep(x) ==
    \/ FetchCalls(x) \/ FetchFails(x)
    \/ \E c \in Calls : Register(x, c)
    \/ RegisterFails(x) \/ SaveCallLogs(x) \/ ReadSnapshot(x)
    \/ UpsertSnapshot(x) \/ UpdateDashboard(x)

RepairStep(r) ==
    \/ ReprocessFromLogs(r) \/ RepairCallLogs(r) \/ OverwriteSnapshot(r)
    \/ \E c \in Calls : RepairRegister(r, c)
    \/ RepairRegisterFails(r) \/ RepairDashboard(r)

Next ==
    \/ \E c \in Calls : CallHappens(c)
    \/ \E x \in Runs : RunStep(x) \/ \E e \in Exophones : ResolveExophone(x, e)
    \/ \E r \in Repairs :
          \/ RepairStep(r)
          \/ \E e \in Exophones :
                \/ Reprocess(r, e)
                \/ \E kind \in Kinds, skipLogs \in BOOLEAN : Backfill(r, e, kind, skipLogs)
    \/ \E v \in BOOLEAN : SetSkipCallLogsWrite(v) \/ \E e \in Exophones : SetSkipCallLogs(e, v)
    \/ Crash
    \/ \E e \in Exophones : RedisForgets(e)

(* Goroutines that have started are scheduled and their calls return, as   *)
(* those of the database and of Redis do while the server or TCP answers.  *)
Fairness ==
    /\ \A x \in Runs : WF_vars(RunStep(x))
    /\ \A r \in Repairs : WF_vars(RepairStep(r))

Spec == Init /\ [][Next]_vars

FairSpec == Spec /\ Fairness

-----------------------------------------------------------------------------
RunState == [pc : {"fetch", "register", "logs", "read", "upsert", "dashboard"},
             exo : Exophones, found : BOOLEAN, skip : BOOLEAN,
             batch : SUBSET Calls, todo : SUBSET Calls, fresh : SUBSET Calls,
             row : [Calls -> Nat]]

RepairState == [pc : {"fallback", "logs", "upsert", "register", "dashboard"},
                exo : Exophones, kind : Kinds, skip : BOOLEAN,
                calls : SUBSET Calls, todo : SUBSET Calls]

TypeOK ==
    /\ happened \subseteq Calls
    /\ dedup \in [Exophones -> SUBSET Calls]
    /\ snapshot \in [Exophones -> [Calls -> Nat]]
    /\ logs \in [Exophones -> SUBSET Calls]
    /\ pages \subseteq [exo : Exophones, call : Calls, ok : BOOLEAN]
    /\ dashboard \in [Exophones -> [Calls -> Nat]]
    /\ skip \in [Exophones -> BOOLEAN]
    /\ skipAll \in BOOLEAN
    /\ run \in [Runs -> {Idle} \cup RunState]
    /\ repair \in [Repairs -> {Idle} \cup RepairState]

-----------------------------------------------------------------------------
(* Safety.                                                                 *)

(* No call is added twice to the row of an exophone, however the windows   *)
(* and the executions overlap, as long as Redis answers and repairs take   *)
(* turns with executions.                                                  *)
CountedAtMostOnce == \A e \in Exophones, c \in Calls : snapshot[e][c] <= 1

(* Why: an execution holds the calls it took until the row is written.     *)
Holds(x, e, c) ==
    /\ run[x].pc \in {"register", "logs", "read", "upsert"}
    /\ run[x].exo = e
    /\ c \in run[x].fresh

Writes(x, e) == run[x].pc = "upsert" /\ run[x].exo = e

(* The set has the SID, or a repair is about to add it.                    *)
Covered(e, c) ==
    \/ c \in dedup[e]
    \/ \E r \in Repairs : /\ repair[r].pc = "register"
                          /\ repair[r].exo = e
                          /\ c \in repair[r].todo

TurnsTaken ==
    \A r \in Repairs, e \in Exophones : Busy(repair[r], e) =>
        /\ NoRun(e)
        /\ \A q \in Repairs : Busy(repair[q], e) => q = r

(* A held call has one holder and is in no row, stored or about to be.     *)
HeldOnce ==
    \A e \in Exophones, c \in Calls, x \in Runs : Holds(x, e, c) =>
        /\ c \in dedup[e]
        /\ snapshot[e][c] = 0
        /\ \A y \in Runs : Holds(y, e, c) => y = x
        /\ \A y \in Runs : Writes(y, e) => run[y].row[c] = 0

(* A row that was read counts registered calls, once.                      *)
RowsReadOnce ==
    \A e \in Exophones, c \in Calls, y \in Runs : Writes(y, e) =>
        run[y].row[c] \in {0, 1} /\ (run[y].row[c] = 1 => c \in dedup[e])

CountInv ==
    /\ TurnsTaken
    /\ \A x \in Runs : run[x].pc = "fetch" => run[x].fresh = {}
    /\ \A e \in Exophones, c \in Calls :
          snapshot[e][c] \in {0, 1} /\ (snapshot[e][c] = 1 => Covered(e, c))
    /\ HeldOnce
    /\ RowsReadOnce

(* Once the executions of an exophone have ended, what a reprocess would   *)
(* rebuild from the stored pages is in the row: failing open on a Redis    *)
(* error loses no call.                                                    *)
NothingLostAtRest ==
    \A e \in Exophones : AtRest(e) =>
        \A c \in Own(e) : [exo |-> e, call |-> c, ok |-> TRUE] \in pages =>
                              snapshot[e][c] >= 1

(* The logs hold every call the row counts, and it counts none twice.      *)
FullyLogged(e) ==
    \A c \in Calls : snapshot[e][c] > 0 => c \in logs[e] /\ snapshot[e][c] = 1

(* Once everything is at rest, the dashboard is computed from what the     *)
(* rows say.  Only an account with an exophone that writes call logs may   *)
(* differ: an execution of that one recomputes the dashboard from          *)
(* call_logs (job_worker.go:500).  Even then no exophone is overcounted,   *)
(* and only those are undercounted whose calls are not all logged, as      *)
(* those of an exophone that skips them are not.                           *)
DashboardAgreesAtRest ==
    (\A e \in Exophones : AtRest(e)) =>
        \/ dashboard = snapshot
        \/ /\ ~skipAll
           /\ \E e \in Exophones : ~skip[e]
           /\ \A e \in Exophones : FullyLogged(e) => dashboard[e] = snapshot[e]
           /\ \A e \in Exophones, c \in Calls : dashboard[e][c] <= snapshot[e][c]

(* How far each call is, for the executions of each exophone.              *)
StageOf(e, c) ==
    IF snapshot[e][c] > 0 THEN "counted"
    ELSE IF \E x \in Runs : Holds(x, e, c) THEN "pending"
    ELSE IF c \in dedup[e] THEN "lost"
    ELSE "unseen"

Ledger == INSTANCE CallLedger
            WITH stage <- [e \in Exophones |-> [c \in Calls |-> StageOf(e, c)]],
                 MayLose <- Faults \cap {"crash", "db"} # {},
                 MayWipe <- "db" \in Faults

(* Executions that take turns implement the ledger: a batch is counted as  *)
(* a whole or lost as a whole, and a lost call is never counted later.     *)
ImplementsLedger == Ledger!Spec

-----------------------------------------------------------------------------
(* Liveness, under FairSpec.                                               *)

(* A call whose SID is registered ends up in the row: registering before   *)
(* counting is not forgotten half way.                                     *)
RegisteredIsCounted ==
    \A e \in Exophones, c \in Calls : (c \in dedup[e]) ~> (snapshot[e][c] > 0)
=============================================================================
