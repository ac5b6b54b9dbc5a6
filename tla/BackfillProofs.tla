-------------------------- MODULE BackfillProofs --------------------------
(***************************************************************************)
(* What is proved of Backfill for any number of exophones, dates, requests *)
(* and workers, any arrays of dates, and under every combination of faults.*)
(*                                                                         *)
(* The types alone are not inductive: the day of a task is read from the   *)
(* array of the run, so that a task must belong to it.  That is part of    *)
(* ReportAddsUp, which needs BulkInv; and DoneIsCurrent needs DayInv.      *)
(*                                                                         *)
(* The last section counts the steps a repair can still take: what there is*)
(* of RepairsEnd without fairness.                                         *)
(***************************************************************************)
EXTENDS Backfill, FiniteSetTheorems, TLAPS

-----------------------------------------------------------------------------
(* The tasks of a run.                                                     *)

LEMMA BodyDomain ==
    ASSUME NEW body \in Bodies
    PROVE  /\ \E n \in 1 .. MaxDates : DOMAIN body = 1 .. n
           /\ \A k \in DOMAIN body : body[k] \in Dates
<1>1. body \in UNION {[1 .. n -> Dates] : n \in 1 .. MaxDates}
  BY BackfillAssumption DEF BackfillAssumption
<1>2. PICK n \in 1 .. MaxDates : body \in [1 .. n -> Dates]
  BY <1>1
<1> QED BY <1>2

LEMMA ItemsOfBody ==
    ASSUME NEW body \in Bodies
    PROVE  /\ Items(body) \subseteq AllItems
           /\ body # <<>>
           /\ \A i \in Items(body) : <<i[1], body[i[2]]>> \in Days
<1>1. PICK n \in 1 .. MaxDates : DOMAIN body = 1 .. n
  BY BodyDomain
<1>2. MaxDates \in Nat
  BY BackfillAssumption DEF BackfillAssumption
<1>3. 1 .. n \subseteq 1 .. MaxDates
  BY <1>2
<1>4. Items(body) \subseteq AllItems
  BY <1>1, <1>3 DEF Items, AllItems
<1>5. 1 \in DOMAIN body /\ 1 \notin DOMAIN <<>>
  BY <1>1
<1>6. \A i \in Items(body) : <<i[1], body[i[2]]>> \in Days
  BY BodyDomain DEF Items, Days
<1> QED BY <1>4, <1>5, <1>6

LEMMA AllItemsFinite == IsFiniteSet(AllItems)
<1>1. IsFiniteSet(Exophones) /\ MaxDates \in Int
  BY BackfillAssumption DEF BackfillAssumption
<1>2. IsFiniteSet(1 .. MaxDates)
  BY <1>1, FS_Interval
<1> QED BY <1>1, <1>2, FS_Product DEF AllItems

LEMMA PartOfItems ==
    ASSUME NEW S \in SUBSET AllItems
    PROVE  IsFiniteSet(S) /\ Cardinality(S) \in Nat
<1>1. IsFiniteSet(S)
  BY AllItemsFinite, FS_Subset
<1> QED BY <1>1, FS_CardinalityType

(* The records of goroutines that have started have all their fields.      *)
LEMMA StartedSingle ==
    ASSUME TypeOK, NEW s \in Singles, Busy(single[s])
    PROVE  single[s] \in SingleState
BY DEF TypeOK, Busy, Idle

LEMMA StartedWorker ==
    ASSUME TypeOK, NEW w \in Workers, Busy(worker[w])
    PROVE  worker[w] \in WorkerState
BY DEF TypeOK, Busy, Idle

(* While a run is claimed its array is one that was posted.                *)
LEMMA BodyOfRun ==
    ASSUME TypeOK, BodyInv, starter.pc # "idle"
    PROVE  starter.body \in Bodies
BY DEF TypeOK, BodyInv

(* A task in the channel or in hand belongs to the array of the run.       *)
LEMMA TaskOfBody ==
    ASSUME TypeOK, BodyInv, BulkInv, ReportAddsUp,
           NEW i, i \in queue \cup InHand
    PROVE  /\ starter.pc = "wait" /\ starter.body \in Bodies
           /\ i \in Items(starter.body) /\ i \in AllItems
           /\ Day(i) \in Days
<1>1. starter.pc = "wait"
  BY DEF BulkInv
<1>2. starter.body \in Bodies
  BY <1>1, BodyOfRun
<1>3. i \in Items(starter.body)
  BY <1>1 DEF ReportAddsUp, HandedOut
<1> QED BY <1>1, <1>2, <1>3, ItemsOfBody DEF Day

LEMMA TaskInHand ==
    ASSUME TypeOK, BodyInv, BulkInv, ReportAddsUp, NEW w \in Workers, Busy(worker[w])
    PROVE  /\ starter.pc = "wait" /\ starter.body \in Bodies
           /\ worker[w].item \in Items(starter.body) /\ worker[w].item \in AllItems
           /\ Day(worker[w].item) \in Days
<1>1. worker[w].item \in InHand
  BY DEF InHand
<1> QED BY <1>1, TaskOfBody

-----------------------------------------------------------------------------
(* Types.                                                                  *)

LEMMA BackfillTypeInit == ASSUME Init PROVE TypeOK
<1>1. NoResults \in [AllItems -> {"none", "done", "error"}]
  BY DEF NoResults
<1>2. NoBulk \in [running : BOOLEAN, total : Nat, done : Nat, failed : Nat,
                  results : [AllItems -> {"none", "done", "error"}]]
  BY <1>1 DEF NoBulk
<1>3. 0 \in 0 .. MaxVersion
  BY BackfillAssumption DEF BackfillAssumption
<1>4. job \in [Days -> [status : {"none", "running", "done", "error"},
                        asof : 0 .. MaxVersion]]
  BY <1>3 DEF Init, NoJob
<1>5. starter \in [pc : {"idle", "load", "announce", "enqueue", "wait"},
                   body : Bodies \cup {<<>>}, keys : BOOLEAN]
  BY DEF Init, NoStarter
<1> QED BY <1>2, <1>4, <1>5 DEF Init, TypeOK

LEMMA BackfillTypeSingle ==
    ASSUME TypeOK, NEW s \in Singles, SingleStep(s)
    PROVE  TypeOK'
<1>1. Busy(single[s])
  BY DEF SingleStep, Fetch, Save, Finish, Busy
<1>2. single[s] \in SingleState
  BY <1>1, StartedSingle
<1>3. single[s].day \in Days /\ single[s].got \in 0 .. MaxVersion
  BY <1>2 DEF SingleState
<1>4. vendor[single[s].day] \in 0 .. MaxVersion
  BY <1>3 DEF TypeOK
<1>5. ASSUME Fail(s)
      PROVE  /\ job' \in [Days -> [status : {"none", "running", "done", "error"},
                                   asof : 0 .. MaxVersion]]
             /\ single' \in [Singles -> {Idle} \cup SingleState]
  BY <1>3, <1>5 DEF Fail, TypeOK
<1>6. CASE Fetch(s)
  <2>1. [single[s] EXCEPT !.got = vendor[single[s].day], !.pc = "save"] \in SingleState
    BY <1>2, <1>4 DEF SingleState
  <2>2. \/ /\ single' = [single EXCEPT ![s] = [single[s] EXCEPT
                            !.got = vendor[single[s].day], !.pc = "save"]]
           /\ job' = job
        \/ Fail(s)
    BY <1>6 DEF Fetch
  <2>3. /\ job' \in [Days -> [status : {"none", "running", "done", "error"},
                              asof : 0 .. MaxVersion]]
        /\ single' \in [Singles -> {Idle} \cup SingleState]
    BY <1>5, <2>1, <2>2 DEF TypeOK
  <2> QED BY <1>6, <2>3 DEF Fetch, TypeOK
<1>7. CASE Save(s)
  <2>1. [single[s] EXCEPT !.pc = "finish"] \in SingleState
    BY <1>2 DEF SingleState
  <2>2. \/ /\ single' = [single EXCEPT ![s] = [single[s] EXCEPT !.pc = "finish"]]
           /\ row' = [row EXCEPT ![single[s].day] = single[s].got]
           /\ Storable(single[s].got)
           /\ job' = job
        \/ Fail(s) /\ row' = row
    BY <1>7 DEF Save
  <2>3. Storable(single[s].got) => single[s].got \in 1 .. MaxVersion
    BY <1>3 DEF Storable
  <2>4. row' \in [Days -> {NoRow} \cup 1 .. MaxVersion]
    BY <2>2, <2>3 DEF TypeOK
  <2>5. /\ job' \in [Days -> [status : {"none", "running", "done", "error"},
                              asof : 0 .. MaxVersion]]
        /\ single' \in [Singles -> {Idle} \cup SingleState]
    <3>1. CASE Fail(s)
      BY <1>5, <3>1
    <3>2. CASE single' = [single EXCEPT ![s] = [single[s] EXCEPT !.pc = "finish"]] /\ job' = job
      BY <2>1, <3>2 DEF TypeOK
    <3> QED BY <2>2, <3>1, <3>2
  <2> QED BY <1>7, <2>4, <2>5 DEF Save, TypeOK
<1>8. CASE Finish(s)
  BY ZenonT(60), <1>3, <1>8 DEF Finish, TypeOK
<1> QED BY <1>6, <1>7, <1>8 DEF SingleStep

LEMMA BackfillTypeBulk ==
    ASSUME TypeOK, BodyInv, BulkStep
    PROVE  TypeOK'
<1>0. starter.pc # "idle"
  BY DEF BulkStep, LoadExophones, Announce, Enqueue, EndBulk
<1>1. starter.body \in Bodies
  BY <1>0, BodyOfRun
<1>2. Items(starter.body) \subseteq AllItems
  BY <1>1, ItemsOfBody
<1>3. CASE LoadExophones
  <2>1. [starter EXCEPT !.pc = "announce"]
           \in [pc : {"idle", "load", "announce", "enqueue", "wait"},
               body : Bodies \cup {<<>>}, keys : BOOLEAN]
    BY DEF TypeOK
  <2>2. NoStarter \in [pc : {"idle", "load", "announce", "enqueue", "wait"},
                       body : Bodies \cup {<<>>}, keys : BOOLEAN]
    BY DEF NoStarter
  <2>3. [bulk EXCEPT !.running = FALSE]
           \in [running : BOOLEAN, total : Nat, done : Nat, failed : Nat,
               results : [AllItems -> {"none", "done", "error"}]]
    BY DEF TypeOK
  <2> QED BY <1>3, <2>1, <2>2, <2>3 DEF LoadExophones, TypeOK
<1>4. CASE Announce
  <2>1. Cardinality(Items(starter.body)) \in Nat
    BY <1>2, PartOfItems
  <2> QED BY <1>4, <2>1 DEF Announce, TypeOK
<1>5. CASE Enqueue
  <2>1. starter' \in [pc : {"idle", "load", "announce", "enqueue", "wait"},
                      body : Bodies \cup {<<>>}, keys : BOOLEAN]
    BY <1>5 DEF Enqueue, TypeOK
  <2> QED BY <1>2, <1>5, <2>1 DEF Enqueue, TypeOK
<1>6. CASE EndBulk
  BY <1>6 DEF EndBulk, TypeOK
<1> QED BY <1>3, <1>4, <1>5, <1>6 DEF BulkStep

LEMMA BackfillTypeWorker ==
    ASSUME TypeOK, BodyInv, BulkInv, ReportAddsUp, NEW w \in Workers, WorkerStep(w)
    PROVE  TypeOK'
<1>1. ASSUME NEW i \in AllItems, Take(w, i) PROVE TypeOK'
  <2>1. Day(i) \in Days
    BY <1>1, TaskOfBody DEF Take
  <2>2. 0 \in 0 .. MaxVersion
    BY BackfillAssumption DEF BackfillAssumption
  <2>3. [pc |-> "fetch", item |-> i, got |-> 0, status |-> "done"] \in WorkerState
    BY <2>2 DEF WorkerState
  <2>4. worker' \in [Workers -> {Idle} \cup WorkerState]
    BY <1>1, <2>3 DEF Take, TypeOK
  <2>5. overlapped' \in [Days -> BOOLEAN]
    BY <1>1, <2>1 DEF Take, TypeOK, Alone
  <2> QED BY <1>1, <2>4, <2>5 DEF Take, TypeOK
<1>2. ASSUME Busy(worker[w])
      PROVE  /\ worker[w] \in WorkerState
             /\ Day(worker[w].item) \in Days
             /\ vendor[Day(worker[w].item)] \in 0 .. MaxVersion
  BY <1>2, StartedWorker, TaskInHand DEF TypeOK
<1>3. CASE BulkFetch(w)
  <2>1. Busy(worker[w])
    BY <1>3 DEF BulkFetch, Busy
  <2>2. /\ [worker[w] EXCEPT !.got = vendor[Day(worker[w].item)], !.pc = "save"]
              \in WorkerState
        /\ [worker[w] EXCEPT !.status = "error", !.pc = "report"] \in WorkerState
    BY <1>2, <2>1 DEF WorkerState
  <2>3. \/ worker' = [worker EXCEPT ![w] = [worker[w] EXCEPT
                         !.got = vendor[Day(worker[w].item)], !.pc = "save"]]
        \/ worker' = [worker EXCEPT ![w] = [worker[w] EXCEPT
                         !.status = "error", !.pc = "report"]]
    BY <1>3 DEF BulkFetch
  <2>4. worker' \in [Workers -> {Idle} \cup WorkerState]
    BY <2>2, <2>3 DEF TypeOK
  <2> QED BY <1>3, <2>4 DEF BulkFetch, TypeOK
<1>4. CASE BulkSave(w)
  <2>1. Busy(worker[w])
    BY <1>4 DEF BulkSave, Busy
  <2>2. [worker[w] EXCEPT !.pc = "report"] \in WorkerState
    BY <1>2, <2>1 DEF WorkerState
  <2>3. worker' \in [Workers -> {Idle} \cup WorkerState]
    BY <1>4, <2>2 DEF BulkSave, TypeOK
  <2>4. Storable(worker[w].got) => worker[w].got \in 1 .. MaxVersion
    BY <1>2, <2>1 DEF Storable, WorkerState
  <2>5. row' \in [Days -> {NoRow} \cup 1 .. MaxVersion]
    BY <1>4, <2>4 DEF BulkSave, TypeOK
  <2> QED BY <1>4, <2>3, <2>5 DEF BulkSave, TypeOK
<1>5. CASE Report(w)
  <2>1. Busy(worker[w])
    BY <1>5 DEF Report, Busy
  <2>2. worker[w].status \in {"done", "error"} /\ worker[w].item \in AllItems
    BY <1>2, <2>1 DEF WorkerState
  <2>3. /\ bulk.done + 1 \in Nat
        /\ bulk.failed + (IF worker[w].status = "error" THEN 1 ELSE 0) \in Nat
        /\ [bulk.results EXCEPT ![worker[w].item] = worker[w].status]
              \in [AllItems -> {"none", "done", "error"}]
    BY <2>2 DEF TypeOK
  <2>4. bulk' \in [running : BOOLEAN, total : Nat, done : Nat, failed : Nat,
                   results : [AllItems -> {"none", "done", "error"}]]
    BY <1>5, <2>3 DEF Report, TypeOK
  <2>5. worker' \in [Workers -> {Idle} \cup WorkerState]
    BY <1>5 DEF Report, TypeOK
  <2> QED BY <1>5, <2>4, <2>5 DEF Report, TypeOK
<1> QED BY <1>1, <1>3, <1>4, <1>5 DEF WorkerStep

LEMMA BackfillTypeNext ==
    ASSUME TypeOK, BodyInv, BulkInv, ReportAddsUp, [Next]_vars
    PROVE  TypeOK'
<1>1. ASSUME NEW d \in Days, CallsEnd(d) PROVE TypeOK'
  <2>1. vendor[d] + 1 \in 0 .. MaxVersion
    BY <1>1, BackfillAssumption DEF CallsEnd, TypeOK, BackfillAssumption
  <2> QED BY <1>1, <2>1 DEF CallsEnd, TypeOK, memory
<1>2. ASSUME NEW d \in Days, NEW s \in Singles, Accept(s, d) PROVE TypeOK'
  <2>1. [status |-> "running", asof |-> vendor[d]]
           \in [status : {"none", "running", "done", "error"}, asof : 0 .. MaxVersion]
    BY DEF TypeOK
  <2>2. [pc |-> "fetch", day |-> d, got |-> 0] \in SingleState
    BY BackfillAssumption DEF SingleState, BackfillAssumption
  <2>3. overlapped' \in [Days -> BOOLEAN]
    BY <1>2 DEF Accept, TypeOK, Alone
  <2> QED BY <1>2, <2>1, <2>2, <2>3 DEF Accept, TypeOK
<1>3. ASSUME NEW s \in Singles, SingleStep(s) PROVE TypeOK'
  BY <1>3, BackfillTypeSingle
<1>4. ASSUME NEW body \in Bodies, Claim(body) PROVE TypeOK'
  <2>1. NoResults \in [AllItems -> {"none", "done", "error"}]
    BY DEF NoResults
  <2> QED BY <1>4, <2>1 DEF Claim, TypeOK
<1>5. CASE BulkStep
  BY <1>5, BackfillTypeBulk
<1>6. ASSUME NEW w \in Workers, WorkerStep(w) PROVE TypeOK'
  BY <1>6, BackfillTypeWorker
<1>7. CASE Crash
  <2>1. NoBulk \in [running : BOOLEAN, total : Nat, done : Nat, failed : Nat,
                    results : [AllItems -> {"none", "done", "error"}]]
    BY DEF NoBulk, NoResults
  <2>2. NoJob \in [status : {"none", "running", "done", "error"}, asof : 0 .. MaxVersion]
    BY BackfillAssumption DEF NoJob, BackfillAssumption
  <2>3. NoStarter \in [pc : {"idle", "load", "announce", "enqueue", "wait"},
                       body : Bodies \cup {<<>>}, keys : BOOLEAN]
    BY DEF NoStarter
  <2> QED BY <1>7, <2>1, <2>2, <2>3 DEF Crash, TypeOK
<1>8. CASE UNCHANGED vars
  BY <1>8 DEF vars, memory, TypeOK
<1> QED BY <1>1, <1>2, <1>3, <1>4, <1>5, <1>6, <1>7, <1>8 DEF Next

-----------------------------------------------------------------------------
(* The report of a bulk run.                                               *)

ReportInv == BodyInv /\ BulkInv /\ ReportAddsUp

LEMMA NothingReported ==
    ASSUME NEW results, results = NoResults
    PROVE  \A i \in AllItems : results[i] = "none"
BY DEF NoResults

(* A report without results and a pool without tasks.                      *)
LEMMA EmptyReport ==
    ASSUME bulk = NoBulk, starter = NoStarter, queue = {},
           \A w \in Workers : worker[w] = Idle
    PROVE  ReportInv
<1>1. Reported = {} /\ Failures = {}
  BY NothingReported DEF NoBulk, Reported, Failures
<1>2. \A w \in Workers : ~Busy(worker[w])
  BY DEF Idle, Busy
<1>3. InHand = {}
  BY <1>2 DEF InHand
<1>4. bulk.done = 0 /\ bulk.failed = 0 /\ ~bulk.running
  BY DEF NoBulk
<1>5. starter.pc = "idle" /\ starter.body = <<>>
  BY DEF NoStarter
<1>6. BodyInv
  BY <1>5 DEF BodyInv
<1>7. BulkInv
  BY <1>1, <1>2, <1>3, <1>4, <1>5 DEF BulkInv
<1>8. ReportAddsUp
  BY <1>1, <1>4, <1>5, FS_EmptySet DEF ReportAddsUp, HandedOut
<1> QED BY <1>6, <1>7, <1>8 DEF ReportInv

(* Steps of single backfills and of the vendor.                            *)
LEMMA ReportUntouched ==
    ASSUME ReportInv, UNCHANGED <<bulk, starter, queue, worker>>
    PROVE  ReportInv'
BY DEF ReportInv, BodyInv, BulkInv, ReportAddsUp, Reported, Failures, InHand, HandedOut

(* Steps of a worker between taking a task and reporting it.               *)
LEMMA TasksKept ==
    ASSUME ReportInv, UNCHANGED <<bulk, starter, queue>>,
           \A w \in Workers : Busy(worker'[w]) <=> Busy(worker[w]),
           \A w \in Workers : Busy(worker[w]) => worker'[w].item = worker[w].item
    PROVE  ReportInv'
<1>1. InHand' = InHand
  BY DEF InHand
<1>2. Reported' = Reported /\ Failures' = Failures /\ (HandedOut' <=> HandedOut)
  BY DEF Reported, Failures, HandedOut
<1> QED BY <1>1, <1>2 DEF ReportInv, BodyInv, BulkInv, ReportAddsUp

LEMMA ReportClaim ==
    ASSUME ReportInv, NEW body \in Bodies, Claim(body)
    PROVE  ReportInv'
<1>1. /\ bulk'.running /\ bulk'.done = 0 /\ bulk'.failed = 0
      /\ bulk'.results = NoResults
      /\ starter'.pc = "load" /\ starter'.body = body
      /\ UNCHANGED <<queue, worker>>
      /\ starter.pc = "idle"
  BY DEF Claim, ReportInv, BulkInv
<1>2. Reported' = {} /\ Failures' = {}
  BY <1>1, NothingReported DEF Reported, Failures
<1>3. InHand' = InHand /\ ~HandedOut'
  BY <1>1 DEF InHand, HandedOut
<1>4. BodyInv'
  BY <1>1 DEF BodyInv
<1>5. BulkInv'
  BY <1>1, <1>2, <1>3 DEF ReportInv, BulkInv
<1>6. ReportAddsUp'
  BY <1>1, <1>2, <1>3, FS_EmptySet DEF ReportAddsUp
<1> QED BY <1>4, <1>5, <1>6 DEF ReportInv

LEMMA ReportLoad ==
    ASSUME TypeOK, ReportInv, LoadExophones
    PROVE  ReportInv'
<1>1. Reported' = Reported /\ Failures' = Failures /\ InHand' = InHand /\ ~HandedOut'
  BY DEF LoadExophones, Reported, Failures, InHand, HandedOut, NoStarter, TypeOK
<1>2. BodyInv'
  <2>1. starter.body \in Bodies
    BY DEF LoadExophones, ReportInv, BodyInv
  <2>2. starter'.body = starter.body \/ starter'.pc = "idle"
    BY DEF LoadExophones, NoStarter, TypeOK
  <2> QED BY <2>1, <2>2 DEF BodyInv
<1>3. BulkInv'
  <2>1. \/ bulk'.running = bulk.running /\ starter'.pc = "announce"
        \/ ~bulk'.running /\ starter'.pc = "idle"
    BY DEF LoadExophones, NoStarter, TypeOK
  <2>2. starter.pc = "load" /\ UNCHANGED <<queue, worker>>
    BY DEF LoadExophones
  <2> QED BY <1>1, <2>1, <2>2 DEF ReportInv, BulkInv
<1>4. ReportAddsUp'
  BY <1>1 DEF LoadExophones, ReportInv, ReportAddsUp, TypeOK
<1> QED BY <1>2, <1>3, <1>4 DEF ReportInv

LEMMA ReportAnnounce ==
    ASSUME TypeOK, ReportInv, Announce
    PROVE  ReportInv'
<1>1. Reported' = Reported /\ Failures' = Failures /\ InHand' = InHand /\ ~HandedOut'
  BY DEF Announce, Reported, Failures, InHand, HandedOut, TypeOK
<1>2. starter'.body = starter.body /\ starter'.pc = "enqueue" /\ bulk'.running = bulk.running
  BY DEF Announce, TypeOK
<1>3. BodyInv'
  BY <1>2 DEF Announce, ReportInv, BodyInv
<1>4. BulkInv'
  BY <1>1, <1>2 DEF Announce, ReportInv, BulkInv, Items, TypeOK
<1>5. ReportAddsUp'
  BY <1>1 DEF Announce, ReportInv, ReportAddsUp, TypeOK
<1> QED BY <1>3, <1>4, <1>5 DEF ReportInv

LEMMA ReportEnqueue ==
    ASSUME TypeOK, ReportInv, Enqueue
    PROVE  ReportInv'
<1>1. /\ starter'.body = starter.body /\ starter'.pc = "wait" /\ starter.pc = "enqueue"
      /\ queue' = Items(starter.body) /\ UNCHANGED <<bulk, worker>>
  BY DEF Enqueue, TypeOK
<1>2. /\ Reported' = Reported /\ Failures' = Failures /\ InHand' = InHand
      /\ Items(starter.body)' = Items(starter.body)
  BY <1>1 DEF Reported, Failures, InHand, Items
<1>3. Reported = {} /\ InHand = {} /\ bulk.running
  BY <1>1 DEF ReportInv, BulkInv
<1>4. BodyInv'
  BY <1>1 DEF ReportInv, BodyInv
<1>5. BulkInv'
  BY <1>1, <1>2 DEF ReportInv, BulkInv
<1>6. ReportAddsUp'
  BY <1>1, <1>2, <1>3 DEF ReportInv, BulkInv, ReportAddsUp
<1> QED BY <1>4, <1>5, <1>6 DEF ReportInv

LEMMA ReportEnd ==
    ASSUME TypeOK, ReportInv, EndBulk
    PROVE  ReportInv'
<1>1. /\ starter'.body = starter.body /\ starter'.pc = "idle" /\ starter.pc = "wait"
      /\ ~bulk'.running /\ bulk'.total = bulk.total /\ bulk'.done = bulk.done
      /\ bulk'.failed = bulk.failed /\ bulk'.results = bulk.results
      /\ queue = {} /\ UNCHANGED <<queue, worker>>
      /\ \A w \in Workers : ~Busy(worker[w])
  BY DEF EndBulk, TypeOK
<1>2. /\ Reported' = Reported /\ Failures' = Failures /\ InHand' = {} /\ InHand = {}
      /\ Items(starter.body)' = Items(starter.body)
  BY <1>1 DEF Reported, Failures, InHand, Items
<1>3. Reported = Items(starter.body) /\ bulk.done = bulk.total
  BY <1>1, <1>2 DEF ReportInv, ReportAddsUp, HandedOut
<1>4. BodyInv'
  BY <1>1 DEF BodyInv
<1>5. BulkInv'
  BY <1>1, <1>2 DEF ReportInv, BulkInv
<1>6. ReportAddsUp'
  BY <1>1, <1>2, <1>3 DEF ReportInv, ReportAddsUp, HandedOut
<1> QED BY <1>4, <1>5, <1>6 DEF ReportInv

LEMMA ReportTake ==
    ASSUME TypeOK, ReportInv, NEW w \in Workers, NEW i \in AllItems, Take(w, i)
    PROVE  ReportInv'
<1>1. /\ worker[w].pc = "idle" /\ i \in queue /\ queue' = queue \ {i}
      /\ worker'[w].pc = "fetch" /\ worker'[w].item = i
      /\ \A v \in Workers : v # w => worker'[v] = worker[v]
      /\ UNCHANGED <<bulk, starter>>
  BY DEF Take, TypeOK
<1>2. starter.pc = "wait"
  BY <1>1 DEF ReportInv, BulkInv
<1>3. InHand' = InHand \cup {i}
  BY <1>1 DEF InHand, Busy
<1>4. i \notin InHand /\ i \notin Reported
  BY <1>1, <1>2 DEF ReportInv, ReportAddsUp, HandedOut
<1>5. \A v \in Workers : Busy(worker[v]) => worker[v].item # i
  BY <1>4 DEF InHand
<1>6. Reported' = Reported /\ Failures' = Failures
  BY <1>1 DEF Reported, Failures
<1>7. \A v, u \in Workers : Busy(worker'[v]) /\ Busy(worker'[u])
                              /\ worker'[v].item = worker'[u].item => v = u
  BY <1>1, <1>5 DEF ReportInv, BulkInv
<1>8. BodyInv'
  BY <1>1 DEF ReportInv, BodyInv
<1>9. BulkInv'
  BY <1>1, <1>2, <1>6, <1>7 DEF ReportInv, BulkInv
<1>10. ReportAddsUp'
  BY <1>1, <1>2, <1>3, <1>4, <1>6 DEF ReportInv, BulkInv, ReportAddsUp, HandedOut
<1> QED BY <1>8, <1>9, <1>10 DEF ReportInv

LEMMA ReportReport ==
    ASSUME TypeOK, ReportInv, NEW w \in Workers, Report(w)
    PROVE  ReportInv'
<1> DEFINE i == worker[w].item
           e == worker[w].status
<1>1. Busy(worker[w])
  BY DEF Report, Busy
<1>2. i \in AllItems /\ e \in {"done", "error"}
  BY <1>1, StartedWorker DEF WorkerState
<1>3. /\ bulk'.running = bulk.running /\ bulk'.total = bulk.total
      /\ bulk'.done = bulk.done + 1
      /\ bulk'.failed = bulk.failed + (IF e = "error" THEN 1 ELSE 0)
      /\ \A j \in AllItems : bulk'.results[j] = IF j = i THEN e ELSE bulk.results[j]
      /\ worker'[w] = Idle
      /\ \A v \in Workers : v # w => worker'[v] = worker[v]
      /\ UNCHANGED <<starter, queue>>
  BY <1>2 DEF Report, TypeOK
<1>4. starter.pc = "wait" /\ i \in InHand
  BY <1>1 DEF ReportInv, BulkInv, InHand
<1>5. i \notin Reported /\ i \notin queue /\ i \in Items(starter.body)
  BY <1>4 DEF ReportInv, ReportAddsUp, HandedOut
<1>6. i \notin Failures
  BY <1>5 DEF Reported, Failures
<1>7. InHand' = InHand \ {i}
  BY <1>1, <1>3 DEF ReportInv, BulkInv, InHand, Busy, Idle
<1>8. Reported' = Reported \cup {i}
  BY <1>2, <1>3 DEF Reported
<1>9. Failures' = IF e = "error" THEN Failures \cup {i} ELSE Failures
  BY <1>2, <1>3, <1>6 DEF Failures
<1>10. /\ IsFiniteSet(Reported) /\ Cardinality(Reported) \in Nat
       /\ IsFiniteSet(Failures) /\ Cardinality(Failures) \in Nat
  BY PartOfItems DEF Reported, Failures
<1>11. /\ Cardinality(Reported') = Cardinality(Reported) + 1
       /\ Cardinality(Failures') = Cardinality(Failures) + (IF e = "error" THEN 1 ELSE 0)
  <2>1. Cardinality(Reported \cup {i}) = Cardinality(Reported) + 1
    BY <1>5, <1>10, FS_AddElement
  <2>2. Cardinality(Failures \cup {i}) = Cardinality(Failures) + 1
    BY <1>6, <1>10, FS_AddElement
  <2> QED BY <1>8, <1>9, <1>10, <2>1, <2>2
<1>12. \A v, u \in Workers : Busy(worker'[v]) /\ Busy(worker'[u])
                               /\ worker'[v].item = worker'[u].item => v = u
  BY <1>3 DEF ReportInv, BulkInv, Busy, Idle
<1>13. BodyInv'
  BY <1>3 DEF ReportInv, BodyInv
<1>14. BulkInv'
  BY <1>3, <1>4, <1>12 DEF ReportInv, BulkInv
<1>15. ReportAddsUp'
  <2>1. bulk'.done = Cardinality(Reported') /\ bulk'.failed = Cardinality(Failures')
    BY <1>3, <1>11 DEF ReportInv, ReportAddsUp
  <2>2. queue \cup InHand' \cup Reported' = Items(starter.body)
    BY <1>4, <1>5, <1>7, <1>8 DEF ReportInv, ReportAddsUp, HandedOut
  <2>3. queue \cap InHand' = {} /\ (queue \cup InHand') \cap Reported' = {}
    BY <1>4, <1>5, <1>7, <1>8 DEF ReportInv, ReportAddsUp, HandedOut
  <2>4. bulk'.total = Cardinality(Items(starter.body)) /\ bulk'.running
    BY <1>3, <1>4 DEF ReportInv, BulkInv
  <2>5. Items(starter.body)' = Items(starter.body)
    BY <1>3 DEF Items
  <2> QED BY <1>3, <2>1, <2>2, <2>3, <2>4, <2>5 DEF ReportAddsUp
<1> QED BY <1>13, <1>14, <1>15 DEF ReportInv

LEMMA ReportNext ==
    ASSUME TypeOK, ReportInv, [Next]_vars
    PROVE  ReportInv'
<1>1. ASSUME NEW d \in Days, CallsEnd(d) PROVE ReportInv'
  BY <1>1, ReportUntouched DEF CallsEnd, memory
<1>2. ASSUME NEW d \in Days, NEW s \in Singles, Accept(s, d) PROVE ReportInv'
  BY <1>2, ReportUntouched DEF Accept
<1>3. ASSUME NEW s \in Singles, SingleStep(s) PROVE ReportInv'
  BY <1>3, ReportUntouched DEF SingleStep, Fetch, Save, Finish
<1>4. ASSUME NEW body \in Bodies, Claim(body) PROVE ReportInv'
  BY <1>4, ReportClaim
<1>5. CASE BulkStep
  BY <1>5, ReportLoad, ReportAnnounce, ReportEnqueue, ReportEnd DEF BulkStep
<1>6. ASSUME NEW w \in Workers, BulkFetch(w) \/ BulkSave(w) PROVE ReportInv'
  <2>1. /\ Busy(worker[w]) /\ Busy(worker'[w]) /\ worker'[w].item = worker[w].item
        /\ \A v \in Workers : v # w => worker'[v] = worker[v]
    <3>0. worker[w] \in WorkerState /\ worker[w].pc # "idle"
      BY <1>6, StartedWorker DEF BulkFetch, BulkSave, Busy
    <3>1. CASE BulkFetch(w)
      BY <3>0, <3>1 DEF BulkFetch, Busy, TypeOK, WorkerState
    <3>2. CASE BulkSave(w)
      BY <3>0, <3>2 DEF BulkSave, Busy, TypeOK, WorkerState
    <3> QED BY <1>6, <3>1, <3>2
  <2>2. UNCHANGED <<bulk, starter, queue>>
    BY <1>6 DEF BulkFetch, BulkSave
  <2>3. \A v \in Workers : Busy(worker'[v]) <=> Busy(worker[v])
    BY <2>1
  <2>4. \A v \in Workers : Busy(worker[v]) => worker'[v].item = worker[v].item
    BY <2>1
  <2> QED BY <2>2, <2>3, <2>4, TasksKept
<1>7. ASSUME NEW w \in Workers, WorkerStep(w) PROVE ReportInv'
  BY <1>6, <1>7, ReportTake, ReportReport DEF WorkerStep
<1>8. CASE Crash
  <2>1. bulk' = NoBulk /\ starter' = NoStarter /\ queue' = {}
        /\ \A w \in Workers : worker'[w] = Idle
    BY <1>8 DEF Crash
  <2>2. Reported' = {} /\ Failures' = {}
    BY <2>1, NothingReported DEF NoBulk, Reported, Failures
  <2>3. (\A w \in Workers : ~Busy(worker'[w])) /\ InHand' = {}
    BY <2>1 DEF Idle, Busy, InHand
  <2>4. bulk'.done = 0 /\ bulk'.failed = 0 /\ ~bulk'.running
    BY <2>1 DEF NoBulk
  <2>5. starter'.pc = "idle" /\ starter'.body = <<>>
    BY <2>1 DEF NoStarter
  <2>6. BodyInv' /\ BulkInv'
    BY <2>1, <2>2, <2>3, <2>4, <2>5 DEF BodyInv, BulkInv
  <2>7. ReportAddsUp'
    BY <2>2, <2>4, <2>5, FS_EmptySet DEF ReportAddsUp, HandedOut
  <2> QED BY <2>6, <2>7 DEF ReportInv
<1>9. CASE UNCHANGED vars
  BY <1>9, ReportUntouched DEF vars, memory
<1> QED BY <1>1, <1>2, <1>3, <1>4, <1>5, <1>7, <1>8, <1>9 DEF Next

LEMMA ReportInit == ASSUME Init PROVE ReportInv
BY EmptyReport DEF Init

(* Every variable of the backfills keeps its type, for any number of       *)
(* exophones, dates, requests and workers.                                 *)
THEOREM BackfillTypeCorrect == Spec => []TypeOK
<1>1. Init => TypeOK /\ ReportInv
  BY BackfillTypeInit, ReportInit
<1>2. TypeOK /\ ReportInv /\ [Next]_vars => (TypeOK /\ ReportInv)'
  BY BackfillTypeNext, ReportNext DEF ReportInv
<1> QED BY <1>1, <1>2, PTL DEF Spec

(* The report of a bulk run adds up at any moment, for any number of       *)
(* workers and tasks, and whatever fails.                                  *)
THEOREM ReportAddsUpHolds == Spec => []ReportAddsUp
<1>1. Init => TypeOK /\ ReportInv
  BY BackfillTypeInit, ReportInit
<1>2. TypeOK /\ ReportInv /\ [Next]_vars => (TypeOK /\ ReportInv)'
  BY BackfillTypeNext, ReportNext DEF ReportInv
<1>3. ReportInv => ReportAddsUp
  BY DEF ReportInv
<1> QED BY <1>1, <1>2, <1>3, PTL DEF Spec

-----------------------------------------------------------------------------
(* A backfill that is done has left a current row.                         *)

RowInv == DayInv /\ DoneIsCurrent

LEMMA RowInit == ASSUME Init PROVE RowInv
<1>1. (\A s \in Singles : single[s].pc = "idle") /\ \A w \in Workers : ~Busy(worker[w])
  BY DEF Init, Idle, Busy
<1>2. \A d \in Days : /\ job[d].status = "none" /\ job[d].asof = 0
                      /\ vendor[d] \in 0 .. MaxVersion /\ WorkersOn(d) = {}
  BY <1>1 DEF Init, NoJob, WorkersOn
<1>3. \A d \in Days : job[d].asof <= vendor[d]
  BY <1>2
<1>4. DayInv
  BY <1>1, <1>2, <1>3 DEF DayInv, Busy
<1> QED BY <1>2, <1>4 DEF RowInv, DoneIsCurrent

LEMMA RowCallsEnd ==
    ASSUME TypeOK, RowInv, NEW d \in Days, CallsEnd(d)
    PROVE  RowInv'
<1>1. UNCHANGED <<row, job, single, bulk, starter, queue, worker, overlapped>>
  BY DEF CallsEnd, memory
<1>2. \A c \in Days : vendor[c] <= vendor'[c] /\ vendor[c] \in Int /\ vendor'[c] \in Int
                      /\ job[c].asof \in Int
  BY DEF CallsEnd, TypeOK
<1>3. \A c \in Days : WorkersOn(c)' = WorkersOn(c) /\ SinglesOn(c)' = SinglesOn(c)
  BY <1>1 DEF WorkersOn, SinglesOn, Day
<1>4. \A c \in Days : job[c].asof <= vendor'[c]
  BY <1>2 DEF RowInv, DayInv
<1>5. DayInv'
  BY <1>1, <1>3, <1>4 DEF RowInv, DayInv
<1> QED BY <1>1, <1>5 DEF RowInv, DoneIsCurrent

LEMMA RowAccept ==
    ASSUME TypeOK, RowInv, NEW d \in Days, NEW s \in Singles, Accept(s, d)
    PROVE  RowInv'
<1>1. /\ job'[d].status = "running" /\ job'[d].asof = vendor[d]
      /\ \A c \in Days : c # d => job'[c] = job[c] /\ overlapped'[c] = overlapped[c]
      /\ overlapped'[d] = ~Alone(d)
      /\ single'[s].pc = "fetch" /\ single'[s].day = d /\ single[s].pc = "idle"
      /\ \A t \in Singles : t # s => single'[t] = single[t]
      /\ UNCHANGED <<vendor, row, starter, worker>>
      /\ job[d].status # "running"
  BY DEF Accept, TypeOK
<1>2. \A c \in Days : WorkersOn(c)' = WorkersOn(c)
  BY <1>1 DEF WorkersOn, Day
<1>3. \A t \in Singles : Busy(single[t]) => single[t].day # d /\ single[t].day \in Days
  BY <1>1, StartedSingle DEF RowInv, DayInv, SingleState
<1>4. \A c \in Days : c # d => SinglesOn(c)' = SinglesOn(c)
  BY <1>1 DEF SinglesOn, Busy
<1>5. \A t \in Singles : Busy(single'[t]) => job'[single'[t].day].status = "running"
  BY <1>1, <1>3 DEF RowInv, DayInv
<1>6. \A t, u \in Singles : Busy(single'[t]) /\ Busy(single'[u])
                             /\ single'[t].day = single'[u].day => t = u
  BY <1>1, <1>3 DEF RowInv, DayInv
<1>7. \A c \in Days : /\ job'[c].asof <= vendor'[c]
                      /\ ~overlapped'[c] => SinglesOn(c)' = {} \/ WorkersOn(c)' = {}
                      /\ job'[c].status = "done" /\ ~overlapped'[c] =>
                            \A w \in WorkersOn(c)' :
                                worker'[w].pc = "save" => worker'[w].got >= job'[c].asof
  <2>1. vendor[d] <= vendor[d]
    BY DEF TypeOK
  <2> QED BY <1>1, <1>2, <1>4, <2>1 DEF RowInv, DayInv, Alone
<1>8. \A t \in Singles :
          /\ single'[t].pc = "save" => single'[t].got >= job'[single'[t].day].asof
          /\ single'[t].pc = "finish" /\ ~overlapped'[single'[t].day] =>
                row'[single'[t].day] >= job'[single'[t].day].asof
  BY <1>1, <1>3 DEF RowInv, DayInv, Busy
<1>9. DayInv'
  BY <1>5, <1>6, <1>7, <1>8 DEF DayInv
<1> QED BY <1>1, <1>9 DEF RowInv, DoneIsCurrent

(* Facts about the single backfill that takes a step.                      *)
LEMMA SingleAtWork ==
    ASSUME TypeOK, DayInv, NEW s \in Singles, Busy(single[s])
    PROVE  /\ single[s].day \in Days /\ single[s].got \in Int
           /\ s \in SinglesOn(single[s].day)
           /\ job[single[s].day].status = "running"
           /\ \A t \in Singles : t # s /\ Busy(single[t]) =>
                  single[t].day # single[s].day /\ single[t].day \in Days
BY StartedSingle DEF DayInv, SinglesOn, SingleState

LEMMA RowFail ==
    ASSUME TypeOK, RowInv, NEW s \in Singles, Busy(single[s]), Fail(s),
           UNCHANGED <<vendor, row, bulk, starter, queue, worker, overlapped>>
    PROVE  RowInv'
<1> DEFINE d == single[s].day
<1>1. /\ d \in Days
      /\ \A t \in Singles : t # s /\ Busy(single[t]) => single[t].day # d
  BY SingleAtWork DEF RowInv
<1>2. /\ job'[d].status = "error" /\ job'[d].asof = job[d].asof
      /\ \A c \in Days : c # d => job'[c] = job[c]
      /\ ~Busy(single'[s]) /\ single'[s].pc = "idle"
      /\ \A t \in Singles : t # s => single'[t] = single[t]
  BY <1>1 DEF Fail, TypeOK, Busy, Idle
<1>3. \A c \in Days : WorkersOn(c)' = WorkersOn(c) /\ SinglesOn(c)' \subseteq SinglesOn(c)
  BY <1>2 DEF WorkersOn, SinglesOn, Day
<1>4. \A t \in Singles : Busy(single'[t]) => job'[single'[t].day].status = "running"
  BY <1>1, <1>2, StartedSingle DEF RowInv, DayInv, SingleState
<1>5. \A t, u \in Singles : Busy(single'[t]) /\ Busy(single'[u])
                             /\ single'[t].day = single'[u].day => t = u
  BY <1>2 DEF RowInv, DayInv
<1>6. \A c \in Days : /\ job'[c].asof <= vendor'[c]
                      /\ ~overlapped'[c] => SinglesOn(c)' = {} \/ WorkersOn(c)' = {}
                      /\ job'[c].status = "done" /\ ~overlapped'[c] =>
                            \A w \in WorkersOn(c)' :
                                worker'[w].pc = "save" => worker'[w].got >= job'[c].asof
  BY <1>2, <1>3 DEF RowInv, DayInv
<1>7. \A t \in Singles :
          /\ single'[t].pc = "save" => single'[t].got >= job'[single'[t].day].asof
          /\ single'[t].pc = "finish" /\ ~overlapped'[single'[t].day] =>
                row'[single'[t].day] >= job'[single'[t].day].asof
  BY <1>1, <1>2, StartedSingle DEF RowInv, DayInv, Busy, SingleState
<1>8. DayInv'
  BY <1>4, <1>5, <1>6, <1>7 DEF DayInv
<1> QED BY <1>2, <1>8 DEF RowInv, DoneIsCurrent

(* A backfill that goes on: it has fetched, or it has saved.               *)
LEMMA RowGoesOn ==
    ASSUME TypeOK, RowInv, NEW s \in Singles, Busy(single[s]),
           NEW new \in SingleState, new.day = single[s].day,
           single' = [single EXCEPT ![s] = new],
           new.pc = "save" => new.got >= job[new.day].asof,
           new.pc = "finish" => row'[new.day] >= job[new.day].asof,
           \A c \in Days : c # new.day => row'[c] = row[c],
           UNCHANGED <<vendor, job, bulk, starter, queue, worker, overlapped>>
    PROVE  RowInv'
<1> DEFINE d == single[s].day
<1>1. /\ d \in Days /\ job[d].status = "running"
      /\ \A t \in Singles : t # s /\ Busy(single[t]) =>
             single[t].day # d /\ single[t].day \in Days
  BY SingleAtWork DEF RowInv
<1>2. /\ single'[s] = new /\ Busy(new)
      /\ \A t \in Singles : t # s => single'[t] = single[t]
  BY DEF TypeOK, Busy, SingleState
<1>3. \A c \in Days : WorkersOn(c)' = WorkersOn(c) /\ SinglesOn(c)' = SinglesOn(c)
  BY <1>2 DEF WorkersOn, SinglesOn, Day
<1>4. \A t \in Singles :
          /\ Busy(single'[t]) <=> Busy(single[t])
          /\ Busy(single[t]) => single'[t].day = single[t].day
  BY <1>2
<1>5. \A t \in Singles :
          /\ single'[t].pc = "save" => single'[t].got >= job[single'[t].day].asof
          /\ single'[t].pc = "finish" /\ ~overlapped[single'[t].day] =>
                row'[single'[t].day] >= job[single'[t].day].asof
  BY <1>1, <1>2 DEF RowInv, DayInv, Busy
<1>6. DayInv'
  BY <1>3, <1>4, <1>5 DEF RowInv, DayInv
<1>7. DoneIsCurrent'
  BY <1>1 DEF RowInv, DoneIsCurrent
<1> QED BY <1>6, <1>7 DEF RowInv

LEMMA RowSingle ==
    ASSUME TypeOK, RowInv, NEW s \in Singles, SingleStep(s)
    PROVE  RowInv'
<1> DEFINE d == single[s].day
<1>1. Busy(single[s])
  BY DEF SingleStep, Fetch, Save, Finish, Busy
<1>2. single[s] \in SingleState /\ d \in Days /\ single[s].got \in Int
  BY <1>1, StartedSingle, SingleAtWork DEF RowInv
<1>3. CASE Fetch(s)
  <2> DEFINE new == [single[s] EXCEPT !.got = vendor[d], !.pc = "save"]
  <2>1. CASE Fail(s)
    BY <1>1, <1>3, <2>1, RowFail DEF Fetch
  <2>2. CASE single' = [single EXCEPT ![s] = new] /\ job' = job
    <3>1. vendor[d] \in 0 .. MaxVersion /\ job[d].asof \in 0 .. MaxVersion
      BY <1>2 DEF TypeOK
    <3>2. new \in SingleState /\ new.day = d /\ new.pc = "save" /\ new.got = vendor[d]
      BY <1>2, <3>1 DEF SingleState
    <3>3. new.got >= job[new.day].asof
      BY <1>2, <3>1, <3>2 DEF RowInv, DayInv
    <3>4. UNCHANGED <<vendor, row, job, bulk, starter, queue, worker, overlapped>>
      BY <1>3, <2>2 DEF Fetch
    <3> HIDE DEF new
    <3> QED BY <1>1, <2>2, <3>2, <3>3, <3>4, RowGoesOn
  <2> QED BY <1>3, <2>1, <2>2 DEF Fetch
<1>4. CASE Save(s)
  <2> DEFINE new == [single[s] EXCEPT !.pc = "finish"]
  <2>1. CASE Fail(s) /\ row' = row
    BY <1>1, <1>4, <2>1, RowFail DEF Save
  <2>2. CASE /\ single' = [single EXCEPT ![s] = new] /\ job' = job
             /\ row' = [row EXCEPT ![d] = single[s].got]
    <3>1. new \in SingleState /\ new.day = d /\ new.pc = "finish"
      BY <1>2 DEF SingleState
    <3>2. row'[d] = single[s].got /\ \A c \in Days : c # d => row'[c] = row[c]
      BY <1>2, <2>2 DEF TypeOK
    <3>3. row'[d] >= job[d].asof
      BY <1>4, <3>2 DEF Save, RowInv, DayInv
    <3>4. UNCHANGED <<vendor, job, bulk, starter, queue, worker, overlapped>>
      BY <1>4, <2>2 DEF Save
    <3> HIDE DEF new
    <3> QED BY <1>1, <2>2, <3>1, <3>2, <3>3, <3>4, RowGoesOn
  <2> QED BY <1>4, <2>1, <2>2 DEF Save
<1>5. CASE Finish(s)
  <2>1. /\ job[d].status = "running" /\ s \in SinglesOn(d)
        /\ \A t \in Singles : t # s /\ Busy(single[t]) =>
               single[t].day # d /\ single[t].day \in Days
    BY <1>1, SingleAtWork DEF RowInv
  <2>2. /\ job'[d].status = "done" /\ job'[d].asof = job[d].asof
        /\ \A c \in Days : c # d => job'[c] = job[c]
        /\ ~Busy(single'[s]) /\ single'[s].pc = "idle" /\ single[s].pc = "finish"
        /\ \A t \in Singles : t # s => single'[t] = single[t]
        /\ UNCHANGED <<vendor, row, bulk, starter, queue, worker, overlapped>>
    BY <1>2, <1>5 DEF Finish, TypeOK, Busy, Idle
  <2>3. \A c \in Days : WorkersOn(c)' = WorkersOn(c) /\ SinglesOn(c)' \subseteq SinglesOn(c)
    BY <2>2 DEF WorkersOn, SinglesOn, Day
  <2>4. \A t \in Singles : Busy(single'[t]) => job'[single'[t].day].status = "running"
    BY <2>1, <2>2 DEF RowInv, DayInv
  <2>5. \A t, u \in Singles : Busy(single'[t]) /\ Busy(single'[u])
                               /\ single'[t].day = single'[u].day => t = u
    BY <2>2 DEF RowInv, DayInv
  <2>6. ~overlapped[d] => WorkersOn(d) = {} /\ row[d] >= job[d].asof
    BY <1>2, <2>1, <2>2 DEF RowInv, DayInv
  <2>7. \A c \in Days : /\ job'[c].asof <= vendor'[c]
                        /\ ~overlapped'[c] => SinglesOn(c)' = {} \/ WorkersOn(c)' = {}
                        /\ job'[c].status = "done" /\ ~overlapped'[c] =>
                              \A w \in WorkersOn(c)' :
                                  worker'[w].pc = "save" => worker'[w].got >= job'[c].asof
    BY <2>2, <2>3, <2>6 DEF RowInv, DayInv
  <2>8. \A t \in Singles :
            /\ single'[t].pc = "save" => single'[t].got >= job'[single'[t].day].asof
            /\ single'[t].pc = "finish" /\ ~overlapped'[single'[t].day] =>
                  row'[single'[t].day] >= job'[single'[t].day].asof
    BY <2>1, <2>2 DEF RowInv, DayInv, Busy
  <2>9. DayInv'
    BY <2>4, <2>5, <2>7, <2>8 DEF DayInv
  <2> QED BY <2>2, <2>6, <2>9 DEF RowInv, DoneIsCurrent
<1> QED BY <1>3, <1>4, <1>5 DEF SingleStep

(* The array of a run is only replaced while no worker has a task.         *)
LEMMA RowBulk ==
    ASSUME RowInv, UNCHANGED <<vendor, row, job, single, worker, overlapped>>,
           starter'.body = starter.body \/ InHand = {}
    PROVE  RowInv'
<1>1. InHand = {} => \A w \in Workers : ~Busy(worker[w])
  BY DEF InHand
<1>2. \A c \in Days : WorkersOn(c)' = WorkersOn(c)
  <2>1. CASE starter'.body = starter.body
    BY <2>1 DEF WorkersOn, Day
  <2>2. CASE InHand = {}
    BY <1>1, <2>2 DEF WorkersOn
  <2> QED BY <2>1, <2>2
<1>3. \A c \in Days : SinglesOn(c)' = SinglesOn(c)
  BY DEF SinglesOn
<1>4. DayInv'
  BY <1>2, <1>3 DEF RowInv, DayInv
<1> QED BY <1>4 DEF RowInv, DoneIsCurrent

(* A worker that goes on with its task, or puts it down.                   *)
LEMMA RowTask ==
    ASSUME TypeOK, RowInv, NEW w \in Workers, Busy(worker[w]),
           Day(worker[w].item) \in Days,
           Busy(worker'[w]) => worker'[w].item = worker[w].item,
           worker'[w].pc = "save" => worker'[w].got >= job[Day(worker[w].item)].asof,
           \A v \in Workers : v # w => worker'[v] = worker[v],
           \/ row' = row
           \/ /\ worker[w].pc = "save"
              /\ row' = [row EXCEPT ![Day(worker[w].item)] = worker[w].got],
           UNCHANGED <<vendor, job, single, starter, overlapped>>
    PROVE  RowInv'
<1> DEFINE d == Day(worker[w].item)
<1>1. w \in WorkersOn(d)
  BY DEF WorkersOn
<1>2. \A c \in Days : WorkersOn(c)' \subseteq WorkersOn(c) /\ SinglesOn(c)' = SinglesOn(c)
  BY DEF WorkersOn, SinglesOn, Day
<1>3. \A c \in Days : c # d => w \notin WorkersOn(c)'
  BY DEF WorkersOn, Day
<1>4. \A c \in Days : c # d => row'[c] = row[c]
  BY DEF TypeOK
<1>5. row'[d] = row[d] \/ (row'[d] = worker[w].got /\ worker[w].pc = "save")
  BY DEF TypeOK
<1>6. ~overlapped[d] => SinglesOn(d) = {}
  BY <1>1 DEF RowInv, DayInv
<1>7. \A t \in Singles : single[t].pc = "finish" /\ ~overlapped[single[t].day] =>
                             row'[single[t].day] >= job[single[t].day].asof
  <2> SUFFICES ASSUME NEW t \in Singles, single[t].pc = "finish",
                      ~overlapped[single[t].day]
               PROVE  row'[single[t].day] >= job[single[t].day].asof
    OBVIOUS
  <2>1. t \in SinglesOn(single[t].day) /\ single[t].day \in Days
    BY StartedSingle DEF SinglesOn, Busy, SingleState
  <2>2. single[t].day # d
    BY <1>6, <2>1
  <2> QED BY <1>4, <2>1, <2>2 DEF RowInv, DayInv
<1>8. \A c \in Days : job[c].status = "done" /\ ~overlapped[c] =>
          \A v \in WorkersOn(c)' : worker'[v].pc = "save" => worker'[v].got >= job[c].asof
  BY <1>2, <1>3 DEF RowInv, DayInv, WorkersOn
<1>9. DayInv'
  BY <1>2, <1>7, <1>8 DEF RowInv, DayInv
<1>10. DoneIsCurrent'
  BY <1>1, <1>4, <1>5 DEF RowInv, DayInv, DoneIsCurrent
<1> QED BY <1>9, <1>10 DEF RowInv

LEMMA RowTake ==
    ASSUME TypeOK, RowInv, NEW w \in Workers, NEW i \in AllItems, Take(w, i), Day(i) \in Days
    PROVE  RowInv'
<1> DEFINE d == Day(i)
<1>1. /\ worker[w].pc = "idle" /\ worker'[w].pc = "fetch" /\ worker'[w].item = i
      /\ \A v \in Workers : v # w => worker'[v] = worker[v]
      /\ overlapped'[d] = (overlapped[d] \/ ~Alone(d))
      /\ \A c \in Days : c # d => overlapped'[c] = overlapped[c]
      /\ UNCHANGED <<vendor, row, job, single, starter>>
  BY DEF Take, TypeOK
<1>2. \A c \in Days : /\ SinglesOn(c)' = SinglesOn(c)
                      /\ WorkersOn(c)' \subseteq WorkersOn(c) \cup {w}
                      /\ c # d => WorkersOn(c)' \subseteq WorkersOn(c)
                      /\ \A v \in WorkersOn(c) : v # w
  BY <1>1 DEF WorkersOn, SinglesOn, Day, Busy
<1>3. \A c \in Days : ~overlapped'[c] => ~overlapped[c]
  BY <1>1
<1>4. \A c \in Days : ~overlapped'[c] => SinglesOn(c)' = {} \/ WorkersOn(c)' = {}
  BY <1>1, <1>2, <1>3 DEF RowInv, DayInv, Alone
<1>5. \A c \in Days : job[c].status = "done" /\ ~overlapped'[c] =>
          \A v \in WorkersOn(c)' : worker'[v].pc = "save" => worker'[v].got >= job[c].asof
  <2> SUFFICES ASSUME NEW c \in Days, job[c].status = "done", ~overlapped'[c],
                      NEW v \in WorkersOn(c)', worker'[v].pc = "save"
               PROVE  worker'[v].got >= job[c].asof
    BY Zenon
  <2>1. v \in Workers /\ v # w
    BY <1>1 DEF WorkersOn
  <2>2. v \in WorkersOn(c) /\ worker'[v] = worker[v]
    BY <1>1, <1>2, <2>1
  <2> QED BY <1>3, <2>2 DEF RowInv, DayInv
<1>6. \A t \in Singles : single[t].pc = "finish" => single[t].day \in Days
  BY StartedSingle DEF Busy, SingleState
<1>7. \A t \in Singles : single[t].pc = "finish" /\ ~overlapped'[single[t].day] =>
                             row[single[t].day] >= job[single[t].day].asof
  BY <1>3, <1>6 DEF RowInv, DayInv
<1>8. DayInv'
  BY <1>1, <1>4, <1>5, <1>7 DEF RowInv, DayInv
<1> QED BY <1>1, <1>3, <1>8 DEF RowInv, DoneIsCurrent

LEMMA RowWorker ==
    ASSUME TypeOK, ReportInv, RowInv, NEW w \in Workers, WorkerStep(w)
    PROVE  RowInv'
<1>1. ASSUME NEW i \in AllItems, Take(w, i) PROVE RowInv'
  <2>1. Day(i) \in Days
    BY <1>1, TaskOfBody DEF Take, ReportInv
  <2> QED BY <1>1, <2>1, RowTake
<1>2. ASSUME Busy(worker[w])
      PROVE  /\ worker[w] \in WorkerState /\ Day(worker[w].item) \in Days
             /\ vendor[Day(worker[w].item)] >= job[Day(worker[w].item)].asof
  <2>1. worker[w] \in WorkerState /\ Day(worker[w].item) \in Days
    BY <1>2, StartedWorker, TaskInHand DEF ReportInv
  <2>2. vendor[Day(worker[w].item)] \in Int /\ job[Day(worker[w].item)].asof \in Int
    BY <2>1 DEF TypeOK
  <2> QED BY <2>1, <2>2 DEF RowInv, DayInv
<1>3. CASE BulkFetch(w)
  <2>1. Busy(worker[w])
    BY <1>3 DEF BulkFetch, Busy
  <2>2. \/ worker' = [worker EXCEPT ![w] = [worker[w] EXCEPT
                         !.got = vendor[Day(worker[w].item)], !.pc = "save"]]
        \/ worker' = [worker EXCEPT ![w] = [worker[w] EXCEPT
                         !.status = "error", !.pc = "report"]]
    BY <1>3 DEF BulkFetch
  <2>0. \/ worker'[w] = [worker[w] EXCEPT !.got = vendor[Day(worker[w].item)], !.pc = "save"]
        \/ worker'[w] = [worker[w] EXCEPT !.status = "error", !.pc = "report"]
    BY <2>2 DEF TypeOK
  <2>3. worker'[w].item = worker[w].item
    BY <1>2, <2>1, <2>0 DEF WorkerState
  <2>4. worker'[w].pc = "save" => worker'[w].got = vendor[Day(worker[w].item)]
    BY <1>2, <2>1, <2>0 DEF WorkerState
  <2>5. \A v \in Workers : v # w => worker'[v] = worker[v]
    BY <2>2 DEF TypeOK
  <2>6. UNCHANGED <<vendor, row, job, single, starter, overlapped>>
    BY <1>3 DEF BulkFetch
  <2> QED BY <1>2, <2>1, <2>3, <2>4, <2>5, <2>6, RowTask
<1>4. CASE BulkSave(w)
  <2>1. Busy(worker[w]) /\ worker[w].pc = "save"
    BY <1>4 DEF BulkSave, Busy
  <2>2. worker' = [worker EXCEPT ![w] = [worker[w] EXCEPT !.pc = "report"]]
    BY <1>4 DEF BulkSave
  <2>3. worker'[w].item = worker[w].item /\ worker'[w].pc = "report"
    BY <1>2, <2>1, <2>2 DEF TypeOK, WorkerState
  <2>4. \A v \in Workers : v # w => worker'[v] = worker[v]
    BY <2>2 DEF TypeOK
  <2>5. \/ row' = row
        \/ row' = [row EXCEPT ![Day(worker[w].item)] = worker[w].got]
    BY <1>4 DEF BulkSave
  <2>6. UNCHANGED <<vendor, job, single, starter, overlapped>>
    BY <1>4 DEF BulkSave
  <2> QED BY <1>2, <2>1, <2>3, <2>4, <2>5, <2>6, RowTask
<1>5. CASE Report(w)
  <2>1. Busy(worker[w])
    BY <1>5 DEF Report, Busy
  <2>2. /\ worker'[w] = Idle
        /\ \A v \in Workers : v # w => worker'[v] = worker[v]
        /\ UNCHANGED <<vendor, row, job, single, starter, overlapped>>
    BY <1>5 DEF Report, TypeOK
  <2>3. ~Busy(worker'[w]) /\ worker'[w].pc # "save"
    BY <2>2 DEF Busy, Idle
  <2> QED BY <1>2, <2>1, <2>2, <2>3, RowTask
<1> QED BY <1>1, <1>3, <1>4, <1>5 DEF WorkerStep

LEMMA RowNext ==
    ASSUME TypeOK, ReportInv, RowInv, [Next]_vars
    PROVE  RowInv'
<1>1. ASSUME NEW d \in Days, CallsEnd(d) PROVE RowInv'
  BY <1>1, RowCallsEnd
<1>2. ASSUME NEW d \in Days, NEW s \in Singles, Accept(s, d) PROVE RowInv'
  BY <1>2, RowAccept
<1>3. ASSUME NEW s \in Singles, SingleStep(s) PROVE RowInv'
  BY <1>3, RowSingle
<1>4. ASSUME NEW body \in Bodies, Claim(body) PROVE RowInv'
  <2>1. InHand = {}
    BY <1>4 DEF Claim, ReportInv, BulkInv
  <2> QED BY <1>4, <2>1, RowBulk DEF Claim
<1>5. CASE BulkStep
  <2>1. CASE LoadExophones
    <3>1. InHand = {}
      BY <2>1 DEF LoadExophones, ReportInv, BulkInv
    <3> QED BY <2>1, <3>1, RowBulk DEF LoadExophones
  <2>2. CASE Announce
    <3>1. InHand = {}
      BY <2>2 DEF Announce, ReportInv, BulkInv
    <3> QED BY <2>2, <3>1, RowBulk DEF Announce
  <2>3. CASE Enqueue
    <3>1. InHand = {}
      BY <2>3 DEF Enqueue, ReportInv, BulkInv
    <3> QED BY <2>3, <3>1, RowBulk DEF Enqueue
  <2>4. CASE EndBulk
    <3>1. starter'.body = starter.body
      BY <2>4 DEF EndBulk, TypeOK
    <3> QED BY <2>4, <3>1, RowBulk DEF EndBulk
  <2> QED BY <1>5, <2>1, <2>2, <2>3, <2>4 DEF BulkStep
<1>6. ASSUME NEW w \in Workers, WorkerStep(w) PROVE RowInv'
  BY <1>6, RowWorker
<1>7. CASE Crash
  <2>1. /\ \A s \in Singles : single'[s].pc = "idle"
        /\ \A w \in Workers : ~Busy(worker'[w])
        /\ \A d \in Days : job'[d].status = "none" /\ job'[d].asof = 0
        /\ vendor' = vendor
    BY <1>7 DEF Crash, Idle, NoJob, Busy
  <2>2. \A d \in Days : WorkersOn(d)' = {} /\ job'[d].asof <= vendor'[d]
    BY <2>1 DEF WorkersOn, TypeOK
  <2>3. DayInv'
    BY <2>1, <2>2 DEF DayInv, Busy
  <2> QED BY <2>1, <2>3 DEF RowInv, DoneIsCurrent
<1>8. CASE UNCHANGED vars
  BY <1>8, RowBulk DEF vars, memory
<1> QED BY <1>1, <1>2, <1>3, <1>4, <1>5, <1>6, <1>7, <1>8 DEF Next

(* A backfill that is done has left a row with the calls that had ended    *)
(* when it was requested, for any number of requests, workers and days,    *)
(* unless a bulk task was at work on the same day.                         *)
THEOREM DoneIsCurrentHolds == Spec => []DoneIsCurrent
<1>1. Init => TypeOK /\ ReportInv /\ RowInv
  BY BackfillTypeInit, ReportInit, RowInit
<1>2. TypeOK /\ ReportInv /\ RowInv /\ [Next]_vars => (TypeOK /\ ReportInv /\ RowInv)'
  BY BackfillTypeNext, ReportNext, RowNext DEF ReportInv
<1>3. RowInv => DoneIsCurrent
  BY DEF RowInv
<1> QED BY <1>1, <1>2, <1>3, PTL DEF Spec

-----------------------------------------------------------------------------
(* Repairs end.                                                            *)

(* Whoever refuses a request waits for something that is going on: the     *)
(* entry of a day says running only while a goroutine has that day, and    *)
(* the bulk record only while there is a run, whose tasks nobody keeps     *)
(* after it.                                                               *)
RefusalsHaveCause ==
    /\ \A d \in Days : job[d].status = "running" =>
          \E s \in Singles : Busy(single[s]) /\ single[s].day = d
    /\ bulk.running <=> Busy(starter)
    /\ queue # {} \/ InHand # {} => bulk.running

EntryInv ==
    \A d \in Days : job[d].status = "running" =>
        \E s \in Singles : Busy(single[s]) /\ single[s].day = d

LEMMA EntryInit == ASSUME Init PROVE EntryInv
BY DEF Init, EntryInv, NoJob

LEMMA EntryNext ==
    ASSUME TypeOK, DayInv, EntryInv, [Next]_vars
    PROVE  EntryInv'
<1>1. ASSUME UNCHANGED <<job, single>> PROVE EntryInv'
  BY <1>1 DEF EntryInv
<1>2. ASSUME NEW d \in Days, NEW s \in Singles, Accept(s, d) PROVE EntryInv'
  <2>1. /\ \A c \in Days : c # d => job'[c] = job[c]
        /\ Busy(single'[s]) /\ single'[s].day = d /\ ~Busy(single[s])
        /\ \A t \in Singles : t # s => single'[t] = single[t]
    BY <1>2 DEF Accept, TypeOK, Busy
  <2> QED BY <2>1 DEF EntryInv
<1>3. ASSUME NEW s \in Singles, SingleStep(s) PROVE EntryInv'
  <2>1. Busy(single[s])
    BY <1>3 DEF SingleStep, Fetch, Save, Finish, Busy
  <2>2. single[s] \in SingleState /\ single[s].day \in Days
    BY <2>1, StartedSingle DEF SingleState
  <2>3. \A t \in Singles : t # s => single'[t] = single[t]
    BY <1>3 DEF SingleStep, Fetch, Save, Finish, Fail, TypeOK
  <2>4. CASE job' = job /\ Busy(single'[s]) /\ single'[s].day = single[s].day
    BY <2>1, <2>3, <2>4 DEF EntryInv
  <2>5. CASE /\ job'[single[s].day].status # "running"
             /\ \A c \in Days : c # single[s].day => job'[c] = job[c]
    <3>1. ASSUME NEW c \in Days, job'[c].status = "running"
          PROVE  \E t \in Singles : Busy(single'[t]) /\ single'[t].day = c
      <4>1. c # single[s].day /\ job[c].status = "running"
        BY <2>5, <3>1
      <4> QED BY <2>3, <4>1 DEF EntryInv
    <3> QED BY <3>1 DEF EntryInv
  <2>6. CASE Fetch(s)
    <3>1. CASE Fail(s)
      BY <2>2, <2>5, <3>1 DEF Fail, TypeOK
    <3>2. CASE single' = [single EXCEPT ![s].got = vendor[single[s].day], ![s].pc = "save"]
               /\ job' = job
      BY <2>2, <2>4, <3>2 DEF TypeOK, SingleState, Busy
    <3> QED BY <2>6, <3>1, <3>2 DEF Fetch
  <2>7. CASE Save(s)
    <3>1. CASE Fail(s)
      BY <2>2, <2>5, <3>1 DEF Fail, TypeOK
    <3>2. CASE single' = [single EXCEPT ![s].pc = "finish"] /\ job' = job
      BY <2>2, <2>4, <3>2 DEF TypeOK, SingleState, Busy
    <3> QED BY <2>7, <3>1, <3>2 DEF Save
  <2>8. CASE Finish(s)
    BY <2>2, <2>5, <2>8 DEF Finish, TypeOK
  <2> QED BY <1>3, <2>6, <2>7, <2>8 DEF SingleStep
<1>4. CASE Crash
  BY <1>4 DEF Crash, EntryInv, NoJob
<1> QED
  BY <1>1, <1>2, <1>3, <1>4
  DEF Next, CallsEnd, Claim, BulkStep, LoadExophones, Announce, Enqueue, EndBulk, WorkerStep,
      Take, BulkFetch, BulkSave, Report, vars, memory

(* No entry is left running by a goroutine that has ended, however it      *)
(* ended, and no bulk record by a run that was called off: a request that  *)
(* is refused will not be refused for ever.                                *)
THEOREM RefusalsHaveCauseHolds == Spec => []RefusalsHaveCause
<1>1. Init => TypeOK /\ ReportInv /\ RowInv /\ EntryInv
  BY BackfillTypeInit, ReportInit, RowInit, EntryInit
<1>2. TypeOK /\ ReportInv /\ RowInv /\ EntryInv /\ [Next]_vars
      => (TypeOK /\ ReportInv /\ RowInv /\ EntryInv)'
  BY BackfillTypeNext, ReportNext, RowNext, EntryNext DEF ReportInv, RowInv
<1>3. ReportInv /\ EntryInv => RefusalsHaveCause
  BY DEF ReportInv, BulkInv, EntryInv, RefusalsHaveCause, Busy
<1> QED BY <1>1, <1>2, <1>3, PTL DEF Spec

(* What a single backfill has still to do ...                              *)
SingleRank(s) ==
    CASE s.pc = "idle" -> 0 [] s.pc = "finish" -> 1 [] s.pc = "save" -> 2 [] s.pc = "fetch" -> 3

(* ... a worker with its task ...                                          *)
Steps(s) ==
    CASE s.pc = "idle" -> 0 [] s.pc = "report" -> 1 [] s.pc = "save" -> 2 [] s.pc = "fetch" -> 3

(* ... and a bulk run: its tasks take four steps each, the first of which  *)
(* is to take it.                                                          *)
Slots == AllItems \X (1 .. 4)

ToDo == {p \in Slots :
            \/ p[1] \in queue
            \/ \E w \in Workers : /\ Busy(worker[w]) /\ worker[w].item = p[1]
                                  /\ p[2] <= Steps(worker[w])}

BulkRank ==
    CASE starter.pc = "idle"     -> 0
      [] starter.pc = "wait"     -> 1 + Cardinality(ToDo)
      [] starter.pc = "enqueue"  -> 2 + Cardinality(Slots)
      [] starter.pc = "announce" -> 3 + Cardinality(Slots)
      [] starter.pc = "load"     -> 4 + Cardinality(Slots)

(* Every step of a repair brings it nearer to its end, and no step of      *)
(* anybody else takes it further away.                                     *)
RepairsNearer ==
    /\ \A s \in Singles :
          /\ SingleStep(s) => SingleRank(single'[s]) < SingleRank(single[s])
          /\ Busy(single[s]) => SingleRank(single'[s]) <= SingleRank(single[s])
    /\ BulkStep \/ (\E w \in Workers : WorkerStep(w)) => BulkRank' < BulkRank
    /\ bulk.running => BulkRank' <= BulkRank

LEMMA SlotsFinite ==
    /\ IsFiniteSet(Slots)
    /\ \A S \in SUBSET Slots : Cardinality(S) \in Nat /\ Cardinality(S) <= Cardinality(Slots)
    /\ \A S \in SUBSET Slots, T \in SUBSET Slots :
          T \subseteq S /\ T # S => Cardinality(T) < Cardinality(S)
<1>1. IsFiniteSet(Slots)
  <2>1. 1 \in Int /\ 4 \in Int
    OBVIOUS
  <2>2. IsFiniteSet(1 .. 4)
    BY <2>1, FS_Interval
  <2> QED BY <2>2, AllItemsFinite, FS_Product DEF Slots
<1>2. \A S \in SUBSET Slots : IsFiniteSet(S) /\ Cardinality(S) <= Cardinality(Slots)
  BY <1>1, FS_Subset
<1>3. \A S \in SUBSET Slots : Cardinality(S) \in Nat
  BY <1>2, FS_CardinalityType
<1>4. ASSUME NEW S \in SUBSET Slots, NEW T \in SUBSET Slots, T \subseteq S, T # S
      PROVE  Cardinality(T) < Cardinality(S)
  <2>1. Cardinality(T) <= Cardinality(S) /\ Cardinality(T) # Cardinality(S)
    BY <1>2, <1>4, FS_Subset
  <2> QED BY <1>3, <2>1
<1> QED BY <1>1, <1>2, <1>3, <1>4

LEMMA ToDoType == ToDo \in SUBSET Slots
BY DEF ToDo

LEMMA StepsType ==
    ASSUME TypeOK, NEW w \in Workers
    PROVE  Steps(worker[w]) \in 0 .. 3 /\ (Busy(worker[w]) => Steps(worker[w]) \in 1 .. 3)
<1>1. CASE Busy(worker[w])
  BY <1>1, StartedWorker DEF Steps, Busy, WorkerState
<1>2. CASE ~Busy(worker[w])
  BY <1>2 DEF Steps, Busy
<1> QED BY <1>1, <1>2

(* A worker that goes on with its task, or has reported it.                *)
LEMMA TaskShrinks ==
    ASSUME TypeOK, ReportInv, NEW w \in Workers, Busy(worker[w]),
           queue' = queue, \A v \in Workers : v # w => worker'[v] = worker[v],
           Busy(worker'[w]) => worker'[w].item = worker[w].item,
           Steps(worker'[w]) \in 0 .. 2, Steps(worker'[w]) < Steps(worker[w])
    PROVE  ToDo' \subseteq ToDo /\ ToDo' # ToDo
<1> DEFINE i == worker[w].item
           n == Steps(worker[w])
<1>1. /\ i \in AllItems /\ n \in 1 .. 3
      /\ \A v \in Workers : v # w /\ Busy(worker[v]) => worker[v].item # i
  BY StartedWorker, StepsType DEF WorkerState, ReportInv, BulkInv
<1>2. i \notin queue
  BY DEF ReportInv, BulkInv, ReportAddsUp, HandedOut, InHand
<1>3. <<i, n>> \in Slots /\ <<i, n>>[1] = i /\ <<i, n>>[2] = n
  BY <1>1 DEF Slots
<1>4. <<i, n>> \in ToDo
  <2>1. n <= n
    BY <1>1
  <2> QED BY <1>3, <2>1 DEF ToDo
<1>5. ~(n <= Steps(worker'[w]))
  BY <1>1
<1>6. <<i, n>> \notin ToDo'
  <2> HIDE DEF i, n
  <2>1. ASSUME NEW v \in Workers, Busy(worker'[v]), worker'[v].item = i,
               n <= Steps(worker'[v])
        PROVE  FALSE
    <3>1. CASE v = w
      BY <1>5, <2>1, <3>1
    <3>2. CASE v # w
      <4>1. worker'[v] = worker[v]
        BY <3>2
      <4> QED BY <1>1, <2>1, <3>2, <4>1
    <3> QED BY <3>1, <3>2
  <2> QED BY <1>2, <1>3, <2>1 DEF ToDo
<1>7. ASSUME NEW p \in ToDo' PROVE p \in ToDo
  <2>0. p \in Slots /\ p[2] \in Int
    BY <1>7 DEF ToDo, Slots
  <2>1. CASE p[1] \in queue'
    BY <2>0, <2>1 DEF ToDo
  <2>2. ASSUME NEW v \in Workers, Busy(worker'[v]), worker'[v].item = p[1],
               p[2] <= Steps(worker'[v])
        PROVE  p \in ToDo
    <3>1. CASE v = w
      <4>1. p[2] <= Steps(worker[w])
        BY <1>1, <2>0, <2>2, <3>1
      <4> QED BY <2>0, <2>2, <3>1, <4>1 DEF ToDo
    <3>2. CASE v # w
      BY <2>0, <2>2, <3>2 DEF ToDo
    <3> QED BY <3>1, <3>2
  <2> QED BY <1>7, <2>1, <2>2 DEF ToDo
<1> QED BY <1>4, <1>6, <1>7

(* A task that is taken.                                                   *)
LEMMA TakeShrinks ==
    ASSUME TypeOK, ReportInv, NEW w \in Workers, NEW i \in AllItems, Take(w, i)
    PROVE  ToDo' \subseteq ToDo /\ ToDo' # ToDo
<1>1. /\ ~Busy(worker[w]) /\ i \in queue /\ queue' = queue \ {i}
      /\ worker'[w].pc = "fetch" /\ worker'[w].item = i
      /\ \A v \in Workers : v # w => worker'[v] = worker[v]
  BY DEF Take, TypeOK, Busy
<1>2. \A v \in Workers : Busy(worker[v]) => worker[v].item # i
  BY <1>1 DEF ReportInv, BulkInv, ReportAddsUp, HandedOut, InHand
<1>3. Steps(worker'[w]) = 3
  BY <1>1 DEF Steps
<1>4. <<i, 4>> \in Slots /\ <<i, 4>>[1] = i /\ <<i, 4>>[2] = 4
  BY DEF Slots
<1>5. <<i, 4>> \in ToDo
  BY <1>1, <1>4 DEF ToDo
<1>6. <<i, 4>> \notin ToDo'
  <2>1. ASSUME NEW v \in Workers, Busy(worker'[v]), worker'[v].item = i,
               4 <= Steps(worker'[v])
        PROVE  FALSE
    <3>1. CASE v = w
      BY <1>3, <2>1, <3>1
    <3>2. CASE v # w
      <4>1. worker'[v] = worker[v]
        BY <1>1, <3>2
      <4> QED BY <1>2, <2>1, <4>1
    <3> QED BY <3>1, <3>2
  <2> QED BY <1>1, <1>4, <2>1 DEF ToDo
<1>7. ASSUME NEW p \in ToDo' PROVE p \in ToDo
  <2>0. p \in Slots
    BY <1>7 DEF ToDo
  <2>1. CASE p[1] \in queue'
    BY <1>1, <2>0, <2>1 DEF ToDo
  <2>2. ASSUME NEW v \in Workers, Busy(worker'[v]), worker'[v].item = p[1],
               p[2] <= Steps(worker'[v])
        PROVE  p \in ToDo
    BY <1>1, <2>0, <2>2 DEF ToDo
  <2> QED BY <1>7, <2>1, <2>2 DEF ToDo
<1> QED BY <1>5, <1>6, <1>7

LEMMA WorkerShrinks ==
    ASSUME TypeOK, ReportInv, NEW w \in Workers, WorkerStep(w)
    PROVE  /\ ToDo' \subseteq ToDo /\ ToDo' # ToDo
           /\ starter.pc = "wait" /\ starter' = starter
<1>1. ASSUME NEW i \in AllItems, Take(w, i)
      PROVE  ToDo' \subseteq ToDo /\ ToDo' # ToDo /\ starter.pc = "wait"
  BY <1>1, TakeShrinks DEF Take, ReportInv, BulkInv
<1>2. starter' = starter
  BY DEF WorkerStep, Take, BulkFetch, BulkSave, Report
<1>3. CASE BulkFetch(w) \/ BulkSave(w) \/ Report(w)
  <2>1. Busy(worker[w])
    BY <1>3 DEF BulkFetch, BulkSave, Report, Busy
  <2>2. worker[w] \in WorkerState /\ starter.pc = "wait"
    BY <2>1, StartedWorker DEF ReportInv, BulkInv, InHand
  <2>3. queue' = queue /\ \A v \in Workers : v # w => worker'[v] = worker[v]
    BY <1>3 DEF BulkFetch, BulkSave, Report, TypeOK
  <2>4. /\ Busy(worker'[w]) => worker'[w].item = worker[w].item
        /\ \/ worker[w].pc = "fetch" /\ worker'[w].pc \in {"save", "report"}
           \/ worker[w].pc = "save" /\ worker'[w].pc = "report"
           \/ worker[w].pc = "report" /\ worker'[w].pc = "idle"
    <3>1. CASE BulkFetch(w)
      BY <2>2, <3>1 DEF BulkFetch, TypeOK, WorkerState
    <3>2. CASE BulkSave(w)
      BY <2>2, <3>2 DEF BulkSave, TypeOK, WorkerState
    <3>3. CASE Report(w)
      BY <3>3 DEF Report, TypeOK, Idle, Busy
    <3> QED BY <1>3, <3>1, <3>2, <3>3
  <2>5. Steps(worker'[w]) \in 0 .. 2 /\ Steps(worker'[w]) < Steps(worker[w])
    BY <2>4 DEF Steps
  <2>6. ToDo' \subseteq ToDo /\ ToDo' # ToDo
    BY <2>1, <2>3, <2>4, <2>5, TaskShrinks
  <2> QED BY <1>2, <2>2, <2>6
<1> QED BY <1>1, <1>2, <1>3 DEF WorkerStep

(* The rank of a bulk run.                                                 *)
LEMMA BulkNearer ==
    ASSUME TypeOK, ReportInv, [Next]_vars
    PROVE  /\ BulkStep \/ (\E w \in Workers : WorkerStep(w)) => BulkRank' < BulkRank
           /\ bulk.running => BulkRank' <= BulkRank
<1>0. Cardinality(Slots) \in Nat /\ Cardinality(ToDo) \in Nat
  BY SlotsFinite, ToDoType
<1>1. BulkRank \in Nat
  BY <1>0 DEF BulkRank, TypeOK
<1>2. ASSUME NEW w \in Workers, WorkerStep(w) PROVE BulkRank' < BulkRank
  <2>1. /\ ToDo' \subseteq ToDo /\ ToDo' # ToDo
        /\ starter.pc = "wait" /\ starter' = starter
    BY <1>2, WorkerShrinks
  <2>2. Cardinality(ToDo') < Cardinality(ToDo) /\ Cardinality(ToDo') \in Nat
    <3>1. ToDo' \in SUBSET Slots
      BY <2>1, ToDoType
    <3> QED BY <2>1, <3>1, ToDoType, SlotsFinite
  <2>3. PICK m \in Nat : m = Cardinality(ToDo')
    BY <2>2
  <2>4. BulkRank = 1 + Cardinality(ToDo) /\ BulkRank' = 1 + m /\ m < Cardinality(ToDo)
    BY <2>1, <2>2, <2>3 DEF BulkRank
  <2> QED BY <1>0, <2>4
<1>3. CASE LoadExophones
  <2>1. starter.pc = "load" /\ starter'.pc \in {"announce", "idle"}
    BY <1>3 DEF LoadExophones, TypeOK, NoStarter
  <2>2. BulkRank = 4 + Cardinality(Slots)
        /\ (BulkRank' = 3 + Cardinality(Slots) \/ BulkRank' = 0)
    BY <2>1 DEF BulkRank
  <2> QED BY <1>0, <2>2
<1>4. CASE Announce
  <2>1. starter.pc = "announce" /\ starter'.pc = "enqueue"
    BY <1>4 DEF Announce, TypeOK
  <2>2. BulkRank = 3 + Cardinality(Slots) /\ BulkRank' = 2 + Cardinality(Slots)
    BY <2>1 DEF BulkRank
  <2> QED BY <1>0, <2>2
<1>5. CASE Enqueue
  <2>1. starter.pc = "enqueue" /\ starter'.pc = "wait"
    BY <1>5 DEF Enqueue, TypeOK
  <2>2. ToDo' \in SUBSET Slots
    BY DEF ToDo
  <2>3. Cardinality(ToDo') \in Nat /\ Cardinality(ToDo') <= Cardinality(Slots)
    BY <2>2, SlotsFinite
  <2>4. PICK m \in Nat : m = Cardinality(ToDo')
    BY <2>3
  <2>5. /\ BulkRank = 2 + Cardinality(Slots) /\ BulkRank' = 1 + m
        /\ m <= Cardinality(Slots)
    BY <2>1, <2>3, <2>4 DEF BulkRank
  <2> QED BY <1>0, <2>5
<1>6. CASE EndBulk
  <2>1. starter.pc = "wait" /\ starter'.pc = "idle"
    BY <1>6 DEF EndBulk, TypeOK
  <2>2. BulkRank = 1 + Cardinality(ToDo) /\ BulkRank' = 0
    BY <2>1 DEF BulkRank
  <2> QED BY <1>0, <2>2
<1>7. BulkStep \/ (\E w \in Workers : WorkerStep(w)) => BulkRank' < BulkRank
  BY <1>2, <1>3, <1>4, <1>5, <1>6 DEF BulkStep
<1>8. ASSUME UNCHANGED <<starter, queue, worker>> PROVE BulkRank' = BulkRank
  BY <1>8 DEF BulkRank, ToDo
<1>9. CASE Crash
  <2>1. starter'.pc = "idle"
    BY <1>9 DEF Crash, NoStarter
  <2>2. BulkRank' = 0
    BY <2>1 DEF BulkRank
  <2> QED BY <1>1, <1>7, <2>2
<1>10. ASSUME NEW body \in Bodies, Claim(body) PROVE ~bulk.running
  BY <1>10 DEF Claim
<1>11. BulkRank' = BulkRank => BulkRank' <= BulkRank
  BY <1>1
<1>12. BulkRank' \in Nat
  <2>1. starter'.pc \in {"idle", "load", "announce", "enqueue", "wait"}
    BY BackfillTypeNext DEF TypeOK, ReportInv
  <2>2. ToDo' \in SUBSET Slots
    BY DEF ToDo
  <2>3. Cardinality(ToDo') \in Nat
    BY <2>2, SlotsFinite
  <2> QED BY <1>0, <2>1, <2>3 DEF BulkRank
<1>13. BulkRank' < BulkRank => BulkRank' <= BulkRank
  BY <1>1, <1>12
<1> QED
  BY <1>7, <1>8, <1>9, <1>10, <1>11, <1>13
  DEF Next, CallsEnd, Accept, SingleStep, Fetch, Save, Finish, vars, memory

LEMMA SinglesNearer ==
    ASSUME TypeOK, [Next]_vars, NEW s \in Singles
    PROVE  /\ SingleStep(s) => SingleRank(single'[s]) < SingleRank(single[s])
           /\ Busy(single[s]) => SingleRank(single'[s]) <= SingleRank(single[s])
<1>0. SingleRank(single[s]) \in Nat
  <2>1. single[s].pc \in {"idle", "fetch", "save", "finish"}
    BY StartedSingle DEF Busy, SingleState
  <2> QED BY <2>1 DEF SingleRank
<1>1. ASSUME SingleStep(s)
      PROVE  SingleRank(single'[s]) < SingleRank(single[s]) /\ SingleRank(single'[s]) \in Nat
  <2>1. single[s] \in SingleState
    BY <1>1, StartedSingle DEF SingleStep, Fetch, Save, Finish, Busy
  <2>2. \/ single[s].pc = "fetch" /\ single'[s].pc \in {"save", "idle"}
        \/ single[s].pc = "save" /\ single'[s].pc \in {"finish", "idle"}
        \/ single[s].pc = "finish" /\ single'[s].pc = "idle"
    <3>1. CASE Fetch(s)
      BY <2>1, <3>1 DEF Fetch, Fail, Idle, TypeOK, SingleState
    <3>2. CASE Save(s)
      BY <2>1, <3>2 DEF Save, Fail, Idle, TypeOK, SingleState
    <3>3. CASE Finish(s)
      BY <3>3 DEF Finish, Idle, TypeOK
    <3> QED BY <1>1, <3>1, <3>2, <3>3 DEF SingleStep
  <2> QED BY <2>2 DEF SingleRank
<1>2. ASSUME ~SingleStep(s), Busy(single[s])
      PROVE  single'[s] = single[s] \/ single'[s] = Idle
  <2>1. ASSUME NEW t \in Singles, SingleStep(t) PROVE single'[s] = single[s]
    BY <1>2, <2>1 DEF SingleStep, Fetch, Save, Finish, Fail, TypeOK
  <2>2. ASSUME NEW d \in Days, NEW t \in Singles, Accept(t, d) PROVE single'[s] = single[s]
    BY <1>2, <2>2 DEF Accept, TypeOK, Busy
  <2>3. CASE Crash
    BY <2>3 DEF Crash
  <2> QED
    BY <2>1, <2>2, <2>3
    DEF Next, CallsEnd, Claim, BulkStep, LoadExophones, Announce, Enqueue, EndBulk,
        WorkerStep, Take, BulkFetch, BulkSave, Report, vars, memory
<1>3. SingleRank(Idle) = 0
  BY DEF SingleRank, Idle
<1> QED BY <1>0, <1>1, <1>2, <1>3

(* RepairsEnd needs no more than that started goroutines are scheduled:    *)
(* whatever fails, a single backfill takes at most three steps, and a bulk *)
(* run four for each task besides the four of its own; nothing puts a task *)
(* back.                                                                   *)
THEOREM RepairsRunOut == Spec => [][RepairsNearer]_vars
<1>1. Init => TypeOK /\ ReportInv
  BY BackfillTypeInit, ReportInit
<1>2. TypeOK /\ ReportInv /\ [Next]_vars => (TypeOK /\ ReportInv)'
  BY BackfillTypeNext, ReportNext DEF ReportInv
<1>3. TypeOK /\ ReportInv /\ [Next]_vars => RepairsNearer
  BY SinglesNearer, BulkNearer DEF RepairsNearer
<1> QED BY <1>1, <1>2, <1>3, PTL DEF Spec
=============================================================================
