------------------------------ MODULE Backfill ------------------------------
(***************************************************************************)
(* Repairing days in the background (internal/handlers/backfill.go): the   *)
(* single backfill of an exophone and date with its entry in backfillJobs, *)
(* the bulk backfill with its progress record and its workers, and the row *)
(* of call_metrics_snapshot that both overwrite.                           *)
(*                                                                         *)
(* What a repair does to the SID set, the call logs and the dashboard is   *)
(* the subject of CallPipeline.  Here the calls of a day are a version: how *)
(* many of them have ended.  A row holds the version it was computed from. *)
(***************************************************************************)
EXTENDS Integers, FiniteSets, Sequences

CONSTANTS
    Exophones,      \* the monitored exophones, all of one account
    Dates,
    Bodies,         \* bound: the arrays of dates that are posted
    MaxDates,       \* bound: the length of such an array
    Singles,        \* bound: single backfills in flight at once
    Workers,        \* the goroutines that share the channel of a bulk run
    MaxVersion,     \* bound: how often the calls of a day are told apart
    Faults          \* the failures that occur

ASSUME BackfillAssumption ==
    /\ IsFiniteSet(Exophones) /\ Exophones # {}
    /\ MaxDates \in Nat
    /\ Bodies \subseteq UNION {[1 .. n -> Dates] : n \in 1 .. MaxDates}
    /\ MaxVersion \in Nat
    /\ Faults \subseteq {"crash", "db", "api"}

VARIABLES
    vendor,         \* the version the Calls API answers with
    row,            \* call_metrics_snapshot
    job,            \* backfillJobs
    single,         \* the goroutines of single backfills
    bulk,           \* bulkBackfillState
    starter,        \* the request that started the bulk run, and its goroutine
    queue,          \* taskCh
    worker,         \* its readers
    overlapped      \* history: days that two repairs worked on at once

memory == <<job, single, bulk, starter, queue, worker>>
vars   == <<vendor, row, memory, overlapped>>

-----------------------------------------------------------------------------
Days   == Exophones \X Dates
NoRow  == -1
Idle   == [pc |-> "idle"]

(* One task of a bulk run: an exophone and a position in the array.  A date*)
(* that is listed twice makes two tasks of the same day.                   *)
Items(body)  == Exophones \X DOMAIN body
AllItems     == Exophones \X (1 .. MaxDates)
Day(i)       == <<i[1], starter.body[i[2]]>>

NoJob     == [status |-> "none", asof |-> 0]
NoResults == [i \in AllItems |-> "none"]
NoBulk    == [running |-> FALSE, total |-> 0, done |-> 0, failed |-> 0,
              results |-> NoResults]
NoStarter == [pc |-> "idle", body |-> <<>>, keys |-> TRUE]

Busy(s) == s.pc # "idle"

(* The goroutines at work on a day.                                        *)
SinglesOn(d) == {s \in Singles : Busy(single[s]) /\ single[s].day = d}
WorkersOn(d) == {w \in Workers : Busy(worker[w]) /\ Day(worker[w].item) = d}
Alone(d)     == SinglesOn(d) = {} /\ WorkersOn(d) = {}

Init ==
    /\ vendor \in [Days -> 0 .. MaxVersion]
    /\ row = [d \in Days |-> NoRow]
    /\ job = [d \in Days |-> NoJob]
    /\ single = [s \in Singles |-> Idle]
    /\ bulk = NoBulk
    /\ starter = NoStarter
    /\ queue = {}
    /\ worker = [w \in Workers |-> Idle]
    /\ overlapped = [d \in Days |-> FALSE]

(* More calls of the day end.                                              *)
CallsEnd(d) ==
    /\ vendor[d] < MaxVersion
    /\ vendor' = [vendor EXCEPT ![d] = @ + 1]
    /\ UNCHANGED <<row, memory, overlapped>>

-----------------------------------------------------------------------------
(* BackfillExophoneSnapshot.                                               *)

(* Variant: a running backfill of the same day is no reason to refuse.     *)
AcceptAlways(s, d) ==
    /\ single[s].pc = "idle"
    /\ job' = [job EXCEPT ![d] = [status |-> "running", asof |-> vendor[d]]]
    /\ single' = [single EXCEPT ![s] = [pc |-> "fetch", day |-> d, got |-> 0]]
    /\ overlapped' = [overlapped EXCEPT ![d] = WorkersOn(d) # {}]
    /\ UNCHANGED <<vendor, row, bulk, starter, queue, worker>>

(* Refused with 409 while the entry of the day is running; the bulk run is *)
(* not asked.                                                              *)
Accept(s, d) ==
    /\ single[s].pc = "idle"
    /\ job[d].status # "running"
    /\ job' = [job EXCEPT ![d] = [status |-> "running", asof |-> vendor[d]]]
    /\ single' = [single EXCEPT ![s] = [pc |-> "fetch", day |-> d, got |-> 0]]
    /\ overlapped' = [overlapped EXCEPT ![d] = ~Alone(d)]
    /\ UNCHANGED <<vendor, row, bulk, starter, queue, worker>>

(* fail: the goroutine writes the reason down and returns.                 *)
Fail(s) ==
    /\ job' = [job EXCEPT ![single[s].day].status = "error"]
    /\ single' = [single EXCEPT ![s] = Idle]

Fetch(s) ==
    /\ single[s].pc = "fetch"
    /\ \/ /\ single' = [single EXCEPT ![s].got = vendor[single[s].day], ![s].pc = "save"]
          /\ UNCHANGED job
       \/ "api" \in Faults /\ Fail(s)
    /\ UNCHANGED <<vendor, row, bulk, starter, queue, worker, overlapped>>

(* Variant: a day without calls is stored like any other.                  *)
StorableAlways(v) == v >= 0

(* Can a row be written for this version?  The breakdown of a day without  *)
(* calls is an empty text, which the JSON column refuses.                  *)
Storable(v) == v > 0

(* Variant: the error of the upsert is discarded, as a bulk task does.     *)
SaveAnyhow(s) ==
    LET d == single[s].day IN
    /\ single[s].pc = "save"
    /\ \/ Storable(single[s].got) /\ row' = [row EXCEPT ![d] = single[s].got]
       \/ ("db" \in Faults \/ ~Storable(single[s].got)) /\ UNCHANGED row
    /\ single' = [single EXCEPT ![s].pc = "finish"]
    /\ UNCHANGED <<vendor, job, bulk, starter, queue, worker, overlapped>>

(* UpsertCallMetricsSnapshot; its error ends the backfill.                 *)
Save(s) ==
    LET d == single[s].day IN
    /\ single[s].pc = "save"
    /\ \/ /\ Storable(single[s].got)
          /\ row' = [row EXCEPT ![d] = single[s].got]
          /\ single' = [single EXCEPT ![s].pc = "finish"]
          /\ UNCHANGED job
       \/ /\ "db" \in Faults \/ ~Storable(single[s].got)
          /\ Fail(s)
          /\ UNCHANGED row
    /\ UNCHANGED <<vendor, bulk, starter, queue, worker, overlapped>>

Finish(s) ==
    /\ single[s].pc = "finish"
    /\ job' = [job EXCEPT ![single[s].day].status = "done"]
    /\ single' = [single EXCEPT ![s] = Idle]
    /\ UNCHANGED <<vendor, row, bulk, starter, queue, worker, overlapped>>

-----------------------------------------------------------------------------
(* BulkBackfill: the request.                                              *)

(* Variant: the counters of the last run are kept.                         *)
ClaimWithoutReset(body) ==
    /\ ~bulk.running
    /\ bulk' = [bulk EXCEPT !.running = TRUE, !.results = NoResults]
    /\ starter' = [pc |-> "load", body |-> body, keys |-> TRUE]
    /\ UNCHANGED <<vendor, row, job, single, queue, worker, overlapped>>

(* Refused with 409 while a run is on; otherwise the report is emptied,    *)
(* but for the total, before the exophones are known.                      *)
Claim(body) ==
    /\ ~bulk.running
    /\ bulk' = [bulk EXCEPT !.running = TRUE, !.done = 0, !.failed = 0,
                   !.results = NoResults]
    /\ starter' = [pc |-> "load", body |-> body, keys |-> TRUE]
    /\ UNCHANGED <<vendor, row, job, single, queue, worker, overlapped>>

(* GetMonitoredExophones.  When it fails the run is called off, and the    *)
(* report keeps the total of the run before.                               *)
LoadExophones ==
    /\ starter.pc = "load"
    /\ \/ /\ starter' = [starter EXCEPT !.pc = "announce"]
          /\ UNCHANGED bulk
       \/ /\ "db" \in Faults
          /\ bulk' = [bulk EXCEPT !.running = FALSE]
          /\ starter' = NoStarter
    /\ UNCHANGED <<vendor, row, job, single, queue, worker, overlapped>>

Announce ==
    /\ starter.pc = "announce"
    /\ bulk' = [bulk EXCEPT !.total = Cardinality(Items(starter.body))]
    /\ starter' = [starter EXCEPT !.pc = "enqueue"]
    /\ UNCHANGED <<vendor, row, job, single, queue, worker, overlapped>>

(* The goroutine: the credentials of the account, which stay empty when it *)
(* cannot be read, the tasks into a channel that has room for all of them, *)
(* and the workers.                                                        *)
Enqueue ==
    /\ starter.pc = "enqueue"
    /\ \E keys \in {TRUE} \cup {k \in {FALSE} : "db" \in Faults} :
          starter' = [starter EXCEPT !.pc = "wait", !.keys = keys]
    /\ queue' = Items(starter.body)
    /\ UNCHANGED <<vendor, row, job, single, bulk, worker, overlapped>>

(* Variant: the starter does not wait for its workers.                     *)
EndAtOnce ==
    /\ starter.pc = "wait"
    /\ queue = {}
    /\ bulk' = [bulk EXCEPT !.running = FALSE]
    /\ starter' = [starter EXCEPT !.pc = "idle"]
    /\ UNCHANGED <<vendor, row, job, single, queue, worker, overlapped>>

(* wg.Wait has returned: the channel is closed and empty and every worker  *)
(* has left its loop.                                                      *)
EndBulk ==
    /\ starter.pc = "wait"
    /\ queue = {}
    /\ \A w \in Workers : ~Busy(worker[w])
    /\ bulk' = [bulk EXCEPT !.running = FALSE]
    /\ starter' = [starter EXCEPT !.pc = "idle"]
    /\ UNCHANGED <<vendor, row, job, single, queue, worker, overlapped>>

-----------------------------------------------------------------------------
(* BulkBackfill: a worker and its task.                                    *)

Take(w, i) ==
    /\ worker[w].pc = "idle"
    /\ i \in queue
    /\ queue' = queue \ {i}
    /\ worker' = [worker EXCEPT ![w] = [pc |-> "fetch", item |-> i, got |-> 0,
                                        status |-> "done"]]
    /\ overlapped' = [overlapped EXCEPT ![Day(i)] = @ \/ ~Alone(Day(i))]
    /\ UNCHANGED <<vendor, row, job, single, bulk, starter>>

(* Variant: a task the vendor refused goes back to the channel.            *)
BulkFetchRetried(w) ==
    /\ worker[w].pc = "fetch"
    /\ \/ /\ starter.keys
          /\ worker' = [worker EXCEPT ![w].got = vendor[Day(worker[w].item)],
                                      ![w].pc = "save"]
          /\ UNCHANGED queue
       \/ /\ {"api", "db"} \cap Faults # {}
          /\ worker' = [worker EXCEPT ![w] = Idle]
          /\ queue' = queue \cup {worker[w].item}
    /\ UNCHANGED <<vendor, row, job, single, bulk, starter, overlapped>>

(* GetAccountByID and FetchCalls: one missing, rejected or refused makes   *)
(* the task an error.                                                      *)
BulkFetch(w) ==
    /\ worker[w].pc = "fetch"
    /\ \/ /\ starter.keys
          /\ worker' = [worker EXCEPT ![w].got = vendor[Day(worker[w].item)],
                                      ![w].pc = "save"]
       \/ /\ ~starter.keys \/ {"api", "db"} \cap Faults # {}
          /\ worker' = [worker EXCEPT ![w].status = "error", ![w].pc = "report"]
    /\ UNCHANGED <<vendor, row, job, single, bulk, starter, queue, overlapped>>

(* UpsertCallMetricsSnapshot, whose error a task discards.                 *)
BulkSave(w) ==
    LET d == Day(worker[w].item) IN
    /\ worker[w].pc = "save"
    /\ \/ Storable(worker[w].got) /\ row' = [row EXCEPT ![d] = worker[w].got]
       \/ ("db" \in Faults \/ ~Storable(worker[w].got)) /\ UNCHANGED row
    /\ worker' = [worker EXCEPT ![w].pc = "report"]
    /\ UNCHANGED <<vendor, job, single, bulk, starter, queue, overlapped>>

(* Variant: a failed task is counted under failed only.                    *)
ReportFailedApart(w) ==
    /\ worker[w].pc = "report"
    /\ bulk' = [bulk EXCEPT
                   !.done = @ + (IF worker[w].status = "done" THEN 1 ELSE 0),
                   !.failed = @ + (IF worker[w].status = "error" THEN 1 ELSE 0),
                   !.results[worker[w].item] = worker[w].status]
    /\ worker' = [worker EXCEPT ![w] = Idle]
    /\ UNCHANGED <<vendor, row, job, single, starter, queue, overlapped>>

(* Under bulk.mu: a failed task is done too.                               *)
Report(w) ==
    /\ worker[w].pc = "report"
    /\ bulk' = [bulk EXCEPT
                   !.done = @ + 1,
                   !.failed = @ + (IF worker[w].status = "error" THEN 1 ELSE 0),
                   !.results[worker[w].item] = worker[w].status]
    /\ worker' = [worker EXCEPT ![w] = Idle]
    /\ UNCHANGED <<vendor, row, job, single, starter, queue, overlapped>>

-----------------------------------------------------------------------------
(* The process ends and comes back: both records were in its memory.       *)
Crash ==
    /\ "crash" \in Faults
    /\ job' = [d \in Days |-> NoJob]
    /\ single' = [s \in Singles |-> Idle]
    /\ bulk' = NoBulk
    /\ starter' = NoStarter
    /\ queue' = {}
    /\ worker' = [w \in Workers |-> Idle]
    /\ overlapped' = [d \in Days |-> FALSE]
    /\ UNCHANGED <<vendor, row>>

SingleStep(s) == Fetch(s) \/ Save(s) \/ Finish(s)

BulkStep == LoadExophones \/ Announce \/ Enqueue \/ EndBulk

WorkerStep(w) ==
    \/ \E i \in AllItems : Take(w, i)
    \/ BulkFetch(w) \/ BulkSave(w) \/ Report(w)

Next ==
    \/ \E d \in Days : CallsEnd(d) \/ \E s \in Singles : Accept(s, d)
    \/ \E s \in Singles : SingleStep(s)
    \/ \E body \in Bodies : Claim(body)
    \/ BulkStep
    \/ \E w \in Workers : WorkerStep(w)
    \/ Crash

(* A goroutine that has started is scheduled, and its calls return.  The   *)
(* client of the vendor has a timeout.  The DSN of the database sets none  *)
(* (database/mysql.go:21): that a statement returns rests on the server    *)
(* answering, or on TCP giving the connection up.                          *)
Fairness ==
    /\ \A s \in Singles : WF_vars(SingleStep(s))
    /\ WF_vars(BulkStep)
    /\ \A w \in Workers : WF_vars(WorkerStep(w))

Spec == Init /\ [][Next]_vars

FairSpec == Spec /\ Fairness

-----------------------------------------------------------------------------
SingleState == [pc : {"fetch", "save", "finish"}, day : Days, got : 0 .. MaxVersion]

WorkerState == [pc : {"fetch", "save", "report"}, item : AllItems,
                got : 0 .. MaxVersion, status : {"done", "error"}]

TypeOK ==
    /\ vendor \in [Days -> 0 .. MaxVersion]
    /\ row \in [Days -> {NoRow} \cup 1 .. MaxVersion]
    /\ job \in [Days -> [status : {"none", "running", "done", "error"},
                         asof : 0 .. MaxVersion]]
    /\ single \in [Singles -> {Idle} \cup SingleState]
    /\ bulk \in [running : BOOLEAN, total : Nat, done : Nat, failed : Nat,
                 results : [AllItems -> {"none", "done", "error"}]]
    /\ starter \in [pc : {"idle", "load", "announce", "enqueue", "wait"},
                    body : Bodies \cup {<<>>}, keys : BOOLEAN]
    /\ queue \subseteq AllItems
    /\ worker \in [Workers -> {Idle} \cup WorkerState]
    /\ overlapped \in [Days -> BOOLEAN]

-----------------------------------------------------------------------------
(* Safety.                                                                 *)

Reported == {i \in AllItems : bulk.results[i] # "none"}
Failures == {i \in AllItems : bulk.results[i] = "error"}
InHand   == {worker[w].item : w \in {v \in Workers : Busy(worker[v])}}

(* Is there a run whose tasks were handed out, still going or finished?    *)
(* Not before the channel is filled, and not after a run was called off.   *)
HandedOut == starter.pc = "wait" \/ (starter.pc = "idle" /\ starter.body # <<>>)

(* The report of a bulk run tells the truth at any moment: its counters    *)
(* are those of its results, every task is waiting, in one worker's hands  *)
(* or reported, and a run that is over has reported them all.              *)
ReportAddsUp ==
    /\ bulk.done = Cardinality(Reported)
    /\ bulk.failed = Cardinality(Failures)
    /\ HandedOut =>
          /\ queue \cup InHand \cup Reported = Items(starter.body)
          /\ queue \cap InHand = {} /\ (queue \cup InHand) \cap Reported = {}
          /\ bulk.total = Cardinality(Items(starter.body))
          /\ ~bulk.running => bulk.done = bulk.total

(* A single backfill that is reported as done has left a row with at least *)
(* the calls that had ended when it was requested, and no later backfill   *)
(* takes them back, unless a bulk task worked on the same day meanwhile:   *)
(* then the later write may be the older answer.                           *)
DoneIsCurrent ==
    \A d \in Days : job[d].status = "done" /\ ~overlapped[d] =>
                        row[d] >= job[d].asof

(* A run has an array of dates.                                            *)
BodyInv == starter.pc # "idle" => starter.body \in Bodies

(* Why the report adds up: tasks exist only while a run that was announced *)
(* is going, and no two workers have the same one.                         *)
BulkInv ==
    /\ bulk.running <=> starter.pc # "idle"
    /\ starter.pc # "wait" => queue = {} /\ InHand = {}
    /\ starter.pc \in {"load", "announce", "enqueue"} => Reported = {}
    /\ starter.pc \in {"enqueue", "wait"} => bulk.total = Cardinality(Items(starter.body))
    /\ \A v, w \in Workers :
          Busy(worker[v]) /\ Busy(worker[w]) /\ worker[v].item = worker[w].item => v = w

(* Why a row that is done is current: one goroutine has the entry of a day *)
(* and what it and later tasks have fetched is not older than the request. *)
DayInv ==
    /\ \A s \in Singles : Busy(single[s]) => job[single[s].day].status = "running"
    /\ \A s, t \in Singles :
          Busy(single[s]) /\ Busy(single[t]) /\ single[s].day = single[t].day => s = t
    /\ \A d \in Days :
          /\ job[d].asof <= vendor[d]
          /\ ~overlapped[d] => SinglesOn(d) = {} \/ WorkersOn(d) = {}
          /\ job[d].status = "done" /\ ~overlapped[d] =>
                \A w \in WorkersOn(d) : worker[w].pc = "save" => worker[w].got >= job[d].asof
    /\ \A s \in Singles :
          /\ single[s].pc = "save" => single[s].got >= job[single[s].day].asof
          /\ single[s].pc = "finish" /\ ~overlapped[single[s].day] =>
                row[single[s].day] >= job[single[s].day].asof

-----------------------------------------------------------------------------
(* Liveness, under FairSpec.                                               *)

(* Whatever fails, an accepted backfill ends, single or bulk, so that it   *)
(* can be polled to its end and requested again.                           *)
RepairsEnd ==
    /\ bulk.running ~> ~bulk.running
    /\ \A d \in Days : (job[d].status = "running") ~> (job[d].status # "running")
=============================================================================
