----------------------------- MODULE Onboarding -----------------------------
(***************************************************************************)
(* How the exophones of an account and their monitoring jobs come to be:   *)
(* CreateAccount, AddExophone and SyncExophones (handlers/accounts.go), a  *)
(* change of priority meanwhile (handlers/exophones.go), and the number of *)
(* exophones on the account's dashboard, which the hourly refresh writes   *)
(* (scheduler/scheduler.go).                                               *)
(*                                                                         *)
(* The first two handlers write in one transaction, after checks outside   *)
(* of it; SyncExophones writes row by row and discards the errors.         *)
(* Requests are in flight together.  A request that is refused, or whose   *)
(* transaction is rolled back at once, changes nothing and is no step.     *)
(* Credentials, frequencies and last_synced_at are left out.               *)
(***************************************************************************)
EXTENDS Integers, FiniteSets, Sequences

CONSTANTS
    Numbers,        \* telephone numbers, in their canonical form
    Forms,          \* the ways to write them, the canonical ones included
    NormalizePhone, \* the canonical form of each
    Priorities,
    Requests,       \* bound: requests in flight at once
    Faults          \* the failures that occur

ASSUME OnboardingAssumption ==
    /\ IsFiniteSet(Numbers) /\ Numbers \subseteq Forms
    /\ NormalizePhone \in [Forms -> Numbers]
    /\ \A n \in Numbers : NormalizePhone[n] = n
    /\ "P1" \in Priorities /\ "none" \notin Priorities
    /\ Faults \subseteq {"crash", "db"}

VARIABLES
    listed,         \* the vendor: the numbers of the account, in its form
    account,        \* does the row of accounts exist
    exophone,       \* exophones: the priority of each row
    job,            \* monitoring_jobs: the rows of each exophone, oldest first
    request,        \* the handlers in flight
    totals,         \* account_dashboard_snapshot.total_exophones
    refresh,        \* runHourlySnapshotRefresh
    maimed,         \* history: exophones that a sync left with jobs missing
    moved           \* history: their priority changed while jobs were made

rows    == <<account, exophone, job>>
history == <<maimed, moved>>
vars    == <<listed, rows, request, totals, refresh, history>>

-----------------------------------------------------------------------------
Idle     == [pc |-> "idle"]
NoRow    == "none"
NoNumber == "none"

NoRefresh == [pc |-> "idle", read |-> FALSE, count |-> 0]

JobTypes == <<"HEARTBEAT", "CALLS", "STREAMS">>

(* The rows one transaction inserts for an exophone.                       *)
AllJobs(p) == [k \in 1 .. 3 |-> [type |-> JobTypes[k], priority |-> p]]

Known        == {n \in Numbers : exophone[n] # NoRow}
Making(r, n) == request[r].pc = "jobs" /\ request[r].number = n
InMaking     == {n \in Numbers : \E r \in Requests : Making(r, n)}

(* A request that has passed its first checks.                             *)
Started(at, n, forms) ==
    [pc |-> at, number |-> n, forms |-> forms, next |-> 1]

Init ==
    /\ listed = {}
    /\ account = FALSE
    /\ exophone = [n \in Numbers |-> NoRow]
    /\ job = [n \in Numbers |-> <<>>]
    /\ request = [r \in Requests |-> Idle]
    /\ totals = 0
    /\ refresh = NoRefresh
    /\ maimed = {}
    /\ moved = {}

(* The account buys a number, which the vendor writes in one form.         *)
NumberBought(f) ==
    /\ \A g \in listed : NormalizePhone[f] # NormalizePhone[g]
    /\ listed' = listed \cup {f}
    /\ UNCHANGED <<rows, request, totals, refresh, history>>

-----------------------------------------------------------------------------
(* What the vendor is asked.  The list has the forms it writes, which      *)
(* nothing normalises; a single number is looked for in every form it may  *)
(* have, and a failing call counts as one that does not know it.           *)
ListIncomingPhoneNumbers == listed

ValidateExophoneOnAccount(n) == \E f \in listed : NormalizePhone[f] = n

-----------------------------------------------------------------------------
(* CreateAccount.  The canonical form of every number must be listed, as   *)
(* it is.  Then, in one transaction: the account, whose SID is unique,     *)
(* each exophone, whose number is unique in it, and three jobs each.  The  *)
(* list is read before that, but only grows.                               *)
CreateAccount(forms, p) ==
    LET adding == {NormalizePhone[f] : f \in forms} IN
    /\ forms # {}
    /\ adding \subseteq ListIncomingPhoneNumbers
    /\ ~account
    /\ \A f, g \in forms : NormalizePhone[f] = NormalizePhone[g] => f = g
    /\ account' = TRUE
    /\ exophone' = [n \in Numbers |->
                        IF n \in adding THEN p ELSE exophone[n]]
    /\ job' = [n \in Numbers |->
                   IF n \in adding THEN AllJobs(p) ELSE job[n]]
    /\ UNCHANGED <<listed, request, totals, refresh, history>>

-----------------------------------------------------------------------------
(* AddExophone.                                                            *)

(* The number is looked up at the vendor.                                  *)
AddExophone(r, f) ==
    LET n == NormalizePhone[f] IN
    /\ request[r].pc = "idle"
    /\ account
    /\ ValidateExophoneOnAccount(n)
    /\ request' = [request EXCEPT ![r] = Started("check", n, {})]
    /\ UNCHANGED <<listed, rows, totals, refresh, history>>

(* GetExophonesByNumber, whose error is discarded: a number that is known  *)
(* is refused with 409.                                                    *)
CheckDuplicate(r) ==
    /\ request[r].pc = "check"
    /\ \/ /\ exophone[request[r].number] # NoRow
          /\ request' = [request EXCEPT ![r] = Idle]
       \/ /\ exophone[request[r].number] = NoRow \/ "db" \in Faults
          /\ request' = [request EXCEPT ![r].pc = "add"]
    /\ UNCHANGED <<listed, rows, totals, refresh, history>>

(* Variant: the check before the transaction is trusted.                   *)
AddRowsUnchecked(r, p) ==
    LET n == request[r].number IN
    /\ request[r].pc = "add"
    /\ exophone' = [exophone EXCEPT ![n] = p]
    /\ job' = [job EXCEPT ![n] = @ \o AllJobs(p)]
    /\ request' = [request EXCEPT ![r] = Idle]
    /\ UNCHANGED <<listed, account, totals, refresh, history>>

(* The transaction: the exophone, unless another request was faster, and   *)
(* its three jobs.                                                         *)
AddRows(r, p) ==
    LET n == request[r].number IN
    /\ request[r].pc = "add"
    /\ \/ /\ exophone[n] = NoRow
          /\ exophone' = [exophone EXCEPT ![n] = p]
          /\ job' = [job EXCEPT ![n] = AllJobs(p)]
       \/ /\ exophone[n] # NoRow \/ "db" \in Faults
          /\ UNCHANGED <<exophone, job>>
    /\ request' = [request EXCEPT ![r] = Idle]
    /\ UNCHANGED <<listed, account, totals, refresh, history>>

-----------------------------------------------------------------------------
(* SyncExophones.                                                          *)

(* All numbers of the vendor.                                              *)
SyncExophones(r) ==
    /\ request[r].pc = "idle"
    /\ account
    /\ request' = [request EXCEPT ![r] =
            Started("existing", NoNumber, ListIncomingPhoneNumbers)]
    /\ UNCHANGED <<listed, rows, totals, refresh, history>>

(* The numbers that are tracked are left out; without an answer of the     *)
(* database all are taken for new, and so are those that the vendor does   *)
(* not write in canonical form.                                            *)
LoadExisting(r) ==
    /\ request[r].pc = "existing"
    /\ \E known \in {Known} \cup {S \in {{}} : "db" \in Faults} :
          request' = [request EXCEPT ![r] =
                         Started("sync", NoNumber, @.forms \ known)]
    /\ UNCHANGED <<listed, rows, totals, refresh, history>>

(* Variant: a row that exists is updated, and gets jobs.                   *)
UpsertExophoneAnyhow(r, f) ==
    LET n == NormalizePhone[f] IN
    /\ request[r].pc = "sync"
    /\ f \in request[r].forms
    /\ exophone' = [exophone EXCEPT ![n] = "P1"]
    /\ request' = [request EXCEPT ![r] = Started("jobs", n, @.forms \ {f})]
    /\ UNCHANGED <<listed, account, job, totals, refresh, history>>

(* UpsertExophone of a record without an id is an INSERT, which the unique *)
(* key refuses for a number that is there by now.                          *)
UpsertExophone(r, f) ==
    LET n == NormalizePhone[f] IN
    /\ request[r].pc = "sync"
    /\ f \in request[r].forms
    /\ \/ /\ exophone[n] = NoRow
          /\ exophone' = [exophone EXCEPT ![n] = "P1"]
          /\ request' = [request EXCEPT ![r] =
                            Started("jobs", n, @.forms \ {f})]
       \/ /\ exophone[n] # NoRow \/ "db" \in Faults
          /\ request' = [request EXCEPT ![r].forms = @ \ {f}]
          /\ UNCHANGED exophone
    /\ UNCHANGED <<listed, account, job, totals, refresh, history>>

(* Variant: the loop does not see its end.                                 *)
InsertJobPastTheEnd(r) ==
    LET n == request[r].number
        k == request[r].next IN
    /\ request[r].pc = "jobs"
    /\ job' = [job EXCEPT ![n] =
                   Append(@, [type |-> JobTypes[k], priority |-> "P1"])]
    /\ request' = [request EXCEPT ![r] =
            IF k > 3 THEN Started("sync", NoNumber, @.forms)
                     ELSE [@ EXCEPT !.next = k + 1]]
    /\ UNCHANGED <<listed, account, exophone, totals, refresh, history>>

(* One of the three INSERTs, whose errors are discarded, each in P1; after *)
(* the last one the loop goes on.                                          *)
InsertJob(r) ==
    LET n == request[r].number
        k == request[r].next IN
    /\ request[r].pc = "jobs"
    /\ \/ /\ job' = [job EXCEPT ![n] =
                        Append(@, [type |-> JobTypes[k], priority |-> "P1"])]
          /\ UNCHANGED maimed
       \/ /\ "db" \in Faults
          /\ maimed' = maimed \cup {n}
          /\ UNCHANGED job
    /\ request' = [request EXCEPT ![r] =
            IF k = 3 THEN Started("sync", NoNumber, @.forms)
                     ELSE [@ EXCEPT !.next = k + 1]]
    /\ UNCHANGED <<listed, account, exophone, totals, refresh, moved>>

SyncDone(r) ==
    /\ request[r].pc = "sync"
    /\ request[r].forms = {}
    /\ request' = [request EXCEPT ![r] = Idle]
    /\ UNCHANGED <<listed, rows, totals, refresh, history>>

-----------------------------------------------------------------------------
(* Variant: the rows of the jobs keep their priority.                      *)
UpdatePriorityOfExophone(n, p) ==
    /\ exophone[n] # NoRow
    /\ exophone' = [exophone EXCEPT ![n] = p]
    /\ moved' = IF n \in InMaking THEN moved \cup {n} ELSE moved \ {n}
    /\ UNCHANGED <<listed, account, job, request, totals, refresh, maimed>>

(* UpdatePriority: the exophone and the jobs it has so far.                *)
UpdatePriority(n, p) ==
    /\ exophone[n] # NoRow
    /\ exophone' = [exophone EXCEPT ![n] = p]
    /\ job' = [job EXCEPT ![n] =
                  [k \in DOMAIN @ |-> [type |-> @[k].type, priority |-> p]]]
    /\ moved' = IF n \in InMaking THEN moved \cup {n} ELSE moved \ {n}
    /\ UNCHANGED <<listed, account, request, totals, refresh, maimed>>

-----------------------------------------------------------------------------
(* The number of exophones on the dashboard.                               *)

(* runHourlySnapshotRefresh of an account.                                 *)
CountExophones ==
    /\ refresh.pc = "idle"
    /\ account
    /\ refresh' = [pc |-> "write", read |-> TRUE, count |-> Cardinality(Known)]
    /\ UNCHANGED <<listed, rows, request, totals, history>>

(* The error of the query is discarded: no exophones.                      *)
CountFails ==
    /\ "db" \in Faults
    /\ refresh.pc = "idle"
    /\ account
    /\ refresh' = [pc |-> "write", read |-> FALSE, count |-> 0]
    /\ UNCHANGED <<listed, rows, request, totals, history>>

(* Variant: the update of an existing row leaves the counts out.           *)
WriteTotalsOfNewRow ==
    /\ refresh.pc = "write"
    /\ refresh' = NoRefresh
    /\ UNCHANGED <<listed, rows, request, totals, history>>

(* UpsertAccountDashboardSnapshot: of an existing row, only the counts of  *)
(* exophones, and not those of calls.                                      *)
WriteTotals ==
    /\ refresh.pc = "write"
    /\ totals' = refresh.count
    /\ refresh' = NoRefresh
    /\ UNCHANGED <<listed, rows, request, history>>

WriteFails ==
    /\ "db" \in Faults
    /\ refresh.pc = "write"
    /\ refresh' = NoRefresh
    /\ UNCHANGED <<listed, rows, request, totals, history>>

(* The statement that an execution or a repair ends with counts and writes *)
(* at once.                                                                *)
AccumulateAccountDashboardFromSnapshots ==
    /\ account
    /\ totals' = Cardinality(Known)
    /\ UNCHANGED <<listed, rows, request, refresh, history>>

-----------------------------------------------------------------------------
(* The process ends and comes back.                                        *)
Crash ==
    /\ "crash" \in Faults
    /\ request' = [r \in Requests |-> Idle]
    /\ refresh' = NoRefresh
    /\ maimed' = maimed \cup InMaking
    /\ UNCHANGED <<listed, rows, totals, moved>>

RequestStep(r) ==
    \/ CheckDuplicate(r) \/ \E p \in Priorities : AddRows(r, p)
    \/ LoadExisting(r) \/ InsertJob(r) \/ SyncDone(r)
    \/ \E f \in Forms : UpsertExophone(r, f)

Request(r) ==
    \/ \E f \in Forms : AddExophone(r, f)
    \/ SyncExophones(r)

Next ==
    \/ \E p \in Priorities, forms \in SUBSET Forms : CreateAccount(forms, p)
    \/ \E f \in Forms : NumberBought(f)
    \/ \E r \in Requests : Request(r) \/ RequestStep(r)
    \/ \E n \in Numbers, p \in Priorities : UpdatePriority(n, p)
    \/ CountExophones \/ CountFails \/ WriteTotals \/ WriteFails
    \/ AccumulateAccountDashboardFromSnapshots
    \/ Crash

(* Cron fires every hour, goroutines are scheduled, statements return (the *)
(* DSN has no timeouts: the server or TCP answers), and there is always a  *)
(* later refresh whose query and statement both succeed.                   *)
Fairness ==
    /\ \A r \in Requests : WF_vars(RequestStep(r))
    /\ SF_vars(CountExophones)
    /\ WF_vars(WriteTotals \/ WriteFails)
    /\ SF_vars(refresh.read /\ WriteTotals)

Spec == Init /\ [][Next]_vars

FairSpec == Spec /\ Fairness

-----------------------------------------------------------------------------
RequestState ==
    [pc : {"check", "add", "jobs"}, number : Numbers,
     forms : SUBSET Forms, next : 1 .. 3]
    \cup [pc : {"existing", "sync"}, number : {NoNumber},
          forms : SUBSET Forms, next : 1 .. 3]

JobRow == [type : {"HEARTBEAT", "CALLS", "STREAMS"}, priority : Priorities]

TypeOK ==
    /\ listed \subseteq Forms
    /\ account \in BOOLEAN
    /\ exophone \in [Numbers -> Priorities \cup {NoRow}]
    /\ job \in [Numbers -> Seq(JobRow)]
    /\ request \in [Requests -> {Idle} \cup RequestState]
    /\ totals \in Nat
    /\ refresh \in [pc : {"idle", "write"}, read : BOOLEAN, count : Nat]
    /\ maimed \subseteq Numbers
    /\ moved \subseteq Numbers

-----------------------------------------------------------------------------
(* Safety.                                                                 *)

(* One job of each kind.                                                   *)
OnceEach(n) ==
    /\ Len(job[n]) = 3
    /\ \A k \in 1 .. 3 : job[n][k].type = JobTypes[k]

FollowsExophone(n) ==
    \A k \in DOMAIN job[n] : job[n][k].priority = exophone[n]

MonitoredNumber(n) ==
    /\ n \in Known \ (InMaking \cup maimed) => OnceEach(n)
    /\ n \in Known \ moved => FollowsExophone(n)
    /\ n \notin Known => job[n] = <<>>

(* However requests race, an exophone that no sync is at work on has each  *)
(* of its three jobs once, unless a statement of its sync failed or the    *)
(* process ended during it; its jobs have its priority, unless that was    *)
(* changed while they were made; and no job is without an exophone.        *)
Monitored == \A n \in Numbers : MonitoredNumber(n)

(* Why: one request makes the jobs of an exophone, in order, in P1.        *)
MadeInOrder(r, n) ==
    /\ n \in Known
    /\ \A q \in Requests : Making(q, n) => q = r
    /\ n \notin moved => exophone[n] = "P1"
    /\ n \notin maimed =>
          /\ Len(job[n]) = request[r].next - 1
          /\ \A k \in 1 .. Len(job[n]) : job[n][k].type = JobTypes[k]

MakingNumber(n) ==
    /\ \A r \in Requests : Making(r, n) => MadeInOrder(r, n)
    /\ n \in maimed \cup moved => n \in Known

MakingInv == \A n \in Numbers : MakingNumber(n)

(* Nothing is done for an account that does not exist.                     *)
AccountInv == ~account => Known = {} /\ \A r \in Requests : request[r] = Idle

-----------------------------------------------------------------------------
(* Liveness, under FairSpec.                                               *)

(* The number of exophones on the dashboard recovers from every refresh    *)
(* that could not read them and from every count that was outdated when it *)
(* was written.                                                            *)
TotalsCatchUp == []<>(totals = Cardinality(Known))
=============================================================================
