------------------------- MODULE OnboardingProofs -------------------------
(***************************************************************************)
(* What is proved of Onboarding for any set of numbers, however they are   *)
(* written, any number of requests, and under every combination of faults. *)
(*                                                                         *)
(* Monitored is about exophones that no sync is at work on; the argument   *)
(* is about one that is: a single request makes its jobs (MakingInv), as   *)
(* the INSERT that made it the maker succeeds only on a number without a   *)
(* row.  Both are proved number by number, a step changing one of them.    *)
(***************************************************************************)
EXTENDS Onboarding, FiniteSetTheorems, TLAPS

-----------------------------------------------------------------------------
(* Types.                                                                  *)

LEMMA CountOfKnown == Cardinality(Known) \in Nat
<1>1. IsFiniteSet(Numbers) /\ Known \subseteq Numbers
  BY OnboardingAssumption DEF OnboardingAssumption, Known
<1>2. IsFiniteSet(Known)
  BY <1>1, FS_Subset
<1> QED BY <1>2, FS_CardinalityType

LEMMA TypesOfJobs ==
    /\ JobTypes[1] = "HEARTBEAT" /\ JobTypes[2] = "CALLS" /\ JobTypes[3] = "STREAMS"
    /\ \A k \in 1 .. 3 : JobTypes[k] \in {"HEARTBEAT", "CALLS", "STREAMS"}
BY DEF JobTypes

LEMMA RowsOf ==
    ASSUME NEW S, NEW n \in Nat, NEW f \in [1 .. n -> S]
    PROVE  f \in Seq(S) /\ Len(f) = n /\ DOMAIN f = 1 .. n
<1>1. DOMAIN f = 1 .. n /\ \A k \in 1 .. n : f[k] \in S
  OBVIOUS
<1>2. f \in Seq(S)
  OBVIOUS
<1> QED BY <1>1, <1>2

LEMMA RowAppended ==
    ASSUME NEW S, NEW s \in Seq(S), NEW e \in S
    PROVE  Append(s, e) \in Seq(S) /\ Len(Append(s, e)) = Len(s) + 1
OBVIOUS

LEMMA AllJobsType ==
    ASSUME NEW p \in Priorities
    PROVE  /\ AllJobs(p) \in Seq(JobRow) /\ Len(AllJobs(p)) = 3
           /\ \A k \in 1 .. 3 : /\ AllJobs(p)[k].type = JobTypes[k]
                                /\ AllJobs(p)[k].priority = p
<1>1. AllJobs(p) \in [1 .. 3 -> JobRow]
  BY TypesOfJobs DEF AllJobs, JobRow
<1>2. AllJobs(p) \in Seq(JobRow) /\ Len(AllJobs(p)) = 3
  BY <1>1, RowsOf
<1> QED BY <1>2 DEF AllJobs

(* A request in flight has all its fields.                                 *)
LEMMA InFlight ==
    ASSUME TypeOK, NEW r \in Requests, request[r].pc # "idle"
    PROVE  /\ request[r] \in RequestState
           /\ request[r].forms \subseteq Forms /\ request[r].next \in 1 .. 3
           /\ request[r].pc \in {"check", "add", "jobs"} =>
                 request[r].number \in Numbers
BY DEF TypeOK, Idle, RequestState

(* Its record after each of its steps.                                     *)
LEMMA StartedType ==
    ASSUME NEW forms \in SUBSET Forms
    PROVE  /\ \A at \in {"existing", "sync"} :
                 Started(at, NoNumber, forms) \in RequestState
           /\ \A at \in {"check", "jobs"}, n \in Numbers :
                 Started(at, n, forms) \in RequestState
BY DEF Started, RequestState

LEMMA RequestMoves ==
    ASSUME NEW q \in RequestState
    PROVE  /\ q.pc = "check" => [q EXCEPT !.pc = "add"] \in RequestState
           /\ q.pc = "sync" => \A S :
                 [q EXCEPT !.forms = @ \ S] \in RequestState
           /\ q.pc = "jobs" => \A k \in 1 .. 3 :
                 [q EXCEPT !.next = k] \in RequestState
<1>1. CASE q \in [pc : {"check", "add", "jobs"}, number : Numbers,
                  forms : SUBSET Forms, next : 1 .. 3]
  BY <1>1 DEF RequestState
<1>2. CASE q \in [pc : {"existing", "sync"}, number : {NoNumber},
                  forms : SUBSET Forms, next : 1 .. 3]
  BY <1>2 DEF RequestState
<1> QED BY <1>1, <1>2 DEF RequestState

(* The rows of the jobs of n after UpdatePriority(n, p).                   *)
Reprioritised(n, p) ==
    [k \in DOMAIN job[n] |-> [type |-> job[n][k].type, priority |-> p]]

LEMMA ReprioritisedType ==
    ASSUME TypeOK, NEW n \in Numbers, NEW p \in Priorities
    PROVE  /\ Reprioritised(n, p) \in Seq(JobRow)
           /\ Len(Reprioritised(n, p)) = Len(job[n])
           /\ DOMAIN Reprioritised(n, p) = 1 .. Len(job[n])
           /\ \A k \in 1 .. Len(job[n]) :
                 /\ Reprioritised(n, p)[k].type = job[n][k].type
                 /\ Reprioritised(n, p)[k].priority = p
<1>1. job[n] \in Seq(JobRow) /\ Len(job[n]) \in Nat /\ DOMAIN job[n] = 1 .. Len(job[n])
  BY DEF TypeOK
<1>2. \A k \in 1 .. Len(job[n]) : job[n][k] \in JobRow
  BY <1>1
<1>3. Reprioritised(n, p) \in [1 .. Len(job[n]) -> JobRow]
  BY <1>1, <1>2 DEF Reprioritised, JobRow
<1>4. Reprioritised(n, p) \in Seq(JobRow)
  BY <1>1, <1>3
<1>5. Len(Reprioritised(n, p)) = Len(job[n])
  BY <1>1, <1>3, <1>4
<1> QED BY <1>1, <1>3, <1>4, <1>5 DEF Reprioritised

LEMMA TypeInit == ASSUME Init PROVE TypeOK
<1>1. <<>> \in Seq(JobRow)
  OBVIOUS
<1> QED BY <1>1 DEF Init, TypeOK, NoRefresh

LEMMA TypeRequest ==
    ASSUME TypeOK, NEW r \in Requests, Request(r) \/ RequestStep(r)
    PROVE  TypeOK'
<1> USE OnboardingAssumption DEF OnboardingAssumption
<1>1. CASE \E f \in Forms : AddExophone(r, f)
  <2>1. PICK f \in Forms : AddExophone(r, f)
    BY <1>1
  <2>2. Started("check", NormalizePhone[f], {}) \in RequestState
    BY StartedType
  <2> QED BY <2>1, <2>2 DEF AddExophone, TypeOK, rows, history
<1>2. CASE SyncExophones(r)
  <2>1. Started("existing", NoNumber, listed) \in RequestState
    BY StartedType DEF TypeOK
  <2> QED BY <1>2, <2>1 DEF SyncExophones, ListIncomingPhoneNumbers, TypeOK, rows, history
<1>3. CASE CheckDuplicate(r)
  <2>1. request[r] \in RequestState
    BY <1>3, InFlight DEF CheckDuplicate
  <2>2. [request[r] EXCEPT !.pc = "add"] \in RequestState
    BY ZenonT(60), <1>3, <2>1, RequestMoves DEF CheckDuplicate
  <2> QED BY <1>3, <2>2 DEF CheckDuplicate, TypeOK, rows, history
<1>4. CASE \E p \in Priorities : AddRows(r, p)
  <2>1. PICK p \in Priorities : AddRows(r, p)
    BY <1>4
  <2>2. request[r].number \in Numbers
    BY <2>1, InFlight DEF AddRows
  <2> DEFINE n == request[r].number
  <2>3. /\ exophone' \in [Numbers -> Priorities \cup {NoRow}]
        /\ job' \in [Numbers -> Seq(JobRow)]
    <3>1. CASE /\ exophone' = [exophone EXCEPT ![n] = p]
               /\ job' = [job EXCEPT ![n] = AllJobs(p)]
      BY <3>1, <2>2, AllJobsType DEF TypeOK
    <3>2. CASE UNCHANGED <<exophone, job>>
      BY <3>2 DEF TypeOK
    <3> QED BY <2>1, <3>1, <3>2 DEF AddRows
  <2>4. request' \in [Requests -> {Idle} \cup RequestState]
    BY <2>1 DEF AddRows, TypeOK
  <2> QED BY <2>1, <2>3, <2>4 DEF AddRows, TypeOK, history
<1>5. CASE LoadExisting(r)
  <2>1. request[r].forms \subseteq Forms
    BY <1>5, InFlight DEF LoadExisting
  <2>2. PICK known : request' = [request EXCEPT ![r] =
                                    Started("sync", NoNumber, @.forms \ known)]
    BY <1>5 DEF LoadExisting
  <2>3. Started("sync", NoNumber, request[r].forms \ known) \in RequestState
    BY <2>1, StartedType
  <2>4. request' \in [Requests -> {Idle} \cup RequestState]
    BY <2>2, <2>3 DEF TypeOK
  <2> QED BY <1>5, <2>4 DEF LoadExisting, TypeOK, rows, history
<1>6. CASE InsertJob(r)
  <2> DEFINE n == request[r].number  k == request[r].next
             row == [type |-> JobTypes[k], priority |-> "P1"]
  <2>1. request[r] \in RequestState /\ n \in Numbers
    BY <1>6, InFlight DEF InsertJob
  <2>2. k \in 1 .. 3
    BY <2>1 DEF RequestState
  <2>3. row \in JobRow
    BY <2>2, TypesOfJobs DEF JobRow
  <2>4. job[n] \in Seq(JobRow)
    BY <2>1 DEF TypeOK
  <2>5. Append(job[n], row) \in Seq(JobRow)
    BY <2>3, <2>4, RowAppended
  <2>6. job' \in [Numbers -> Seq(JobRow)]
    BY <1>6, <2>5 DEF InsertJob, TypeOK
  <2>7. Started("sync", NoNumber, request[r].forms) \in RequestState
    BY <1>6, InFlight, StartedType DEF InsertJob
  <2>8. k # 3 => [request[r] EXCEPT !.next = k + 1] \in RequestState
    <3>1. k # 3 => k + 1 \in 1 .. 3
      BY <2>2
    <3> QED BY <1>6, <2>1, <3>1, RequestMoves DEF InsertJob
  <2>9. request' \in [Requests -> {Idle} \cup RequestState]
    BY <1>6, <2>7, <2>8 DEF InsertJob, TypeOK
  <2>10. maimed' \subseteq Numbers
    BY <1>6, <2>1 DEF InsertJob, TypeOK
  <2> QED BY <1>6, <2>6, <2>9, <2>10 DEF InsertJob, TypeOK
<1>7. CASE SyncDone(r)
  BY <1>7 DEF SyncDone, TypeOK, rows, history
<1>8. CASE \E f \in Forms : UpsertExophone(r, f)
  <2>1. PICK f \in Forms : UpsertExophone(r, f)
    BY <1>8
  <2>2. request[r] \in RequestState
    BY <2>1, InFlight DEF UpsertExophone
  <2>3. /\ [request[r] EXCEPT !.forms = @ \ {f}] \in RequestState
        /\ Started("jobs", NormalizePhone[f], request[r].forms \ {f}) \in RequestState
    BY <2>1, <2>2, InFlight, RequestMoves, StartedType DEF UpsertExophone
  <2>4. request' \in [Requests -> {Idle} \cup RequestState]
    BY <2>1, <2>3 DEF UpsertExophone, TypeOK
  <2>5. exophone' \in [Numbers -> Priorities \cup {NoRow}]
    BY <2>1 DEF UpsertExophone, TypeOK
  <2> QED BY <2>1, <2>4, <2>5 DEF UpsertExophone, TypeOK, history
<1> QED BY <1>1, <1>2, <1>3, <1>4, <1>5, <1>6, <1>7, <1>8 DEF Request, RequestStep

LEMMA TypeOther ==
    ASSUME TypeOK,
           \/ \E p \in Priorities, forms \in SUBSET Forms : CreateAccount(forms, p)
           \/ \E f \in Forms : NumberBought(f)
           \/ \E n \in Numbers, p \in Priorities : UpdatePriority(n, p)
           \/ CountExophones \/ CountFails \/ WriteTotals \/ WriteFails
           \/ AccumulateAccountDashboardFromSnapshots \/ Crash
    PROVE  TypeOK'
<1> USE OnboardingAssumption DEF OnboardingAssumption
<1>1. CASE \E p \in Priorities, forms \in SUBSET Forms : CreateAccount(forms, p)
  <2>1. PICK p \in Priorities, forms \in SUBSET Forms : CreateAccount(forms, p)
    BY <1>1
  <2>2. /\ exophone' \in [Numbers -> Priorities \cup {NoRow}]
        /\ job' \in [Numbers -> Seq(JobRow)]
    BY <2>1, AllJobsType DEF CreateAccount, TypeOK
  <2> QED BY <2>1, <2>2 DEF CreateAccount, TypeOK, history
<1>2. CASE \E f \in Forms : NumberBought(f)
  BY <1>2 DEF NumberBought, TypeOK, rows, history
<1>3. CASE \E n \in Numbers, p \in Priorities : UpdatePriority(n, p)
  <2>1. PICK n \in Numbers, p \in Priorities : UpdatePriority(n, p)
    BY <1>3
  <2>2. job' = [job EXCEPT ![n] = Reprioritised(n, p)]
    BY <2>1 DEF UpdatePriority, Reprioritised, TypeOK
  <2>3. job' \in [Numbers -> Seq(JobRow)]
    BY <2>2, ReprioritisedType DEF TypeOK
  <2>4. exophone' \in [Numbers -> Priorities \cup {NoRow}]
    BY <2>1 DEF UpdatePriority, TypeOK
  <2>5. moved' \subseteq Numbers
    BY <2>1 DEF UpdatePriority, TypeOK
  <2> QED BY <2>1, <2>3, <2>4, <2>5 DEF UpdatePriority, TypeOK
<1>4. CASE CountExophones
  BY <1>4, CountOfKnown DEF CountExophones, TypeOK, rows, history
<1>5. CASE CountFails
  BY <1>5 DEF CountFails, TypeOK, rows, history
<1>6. CASE WriteTotals
  BY <1>6 DEF WriteTotals, NoRefresh, TypeOK, rows, history
<1>7. CASE WriteFails
  BY <1>7 DEF WriteFails, NoRefresh, TypeOK, rows, history
<1>8. CASE AccumulateAccountDashboardFromSnapshots
  BY <1>8, CountOfKnown
     DEF AccumulateAccountDashboardFromSnapshots, TypeOK, rows, history
<1>9. CASE Crash
  BY <1>9 DEF Crash, NoRefresh, InMaking, TypeOK, rows
<1> QED BY <1>1, <1>2, <1>3, <1>4, <1>5, <1>6, <1>7, <1>8, <1>9

-----------------------------------------------------------------------------
(* The invariant.                                                          *)

NumberInv(n) == MakingNumber(n) /\ MonitoredNumber(n)

IInv ==
    /\ TypeOK
    /\ AccountInv
    /\ \A n \in Numbers : NumberInv(n)

LEMMA InvInit == ASSUME Init PROVE IInv
<1>1. TypeOK
  BY TypeInit
<1>2. AccountInv
  BY DEF Init, AccountInv, Known
<1>3. \A n \in Numbers : NumberInv(n)
  BY DEF Init, NumberInv, MakingNumber, MonitoredNumber, Making, Known, Idle
<1> QED BY <1>1, <1>2, <1>3 DEF IInv

(* What a step leaves alone.                                               *)
SameMaking(q, n) ==
    /\ Making(q, n)' <=> Making(q, n)
    /\ Making(q, n) => request[q].next' = request[q].next

Apart(n) ==
    /\ UNCHANGED <<exophone[n], job[n]>>
    /\ n \in maimed' <=> n \in maimed
    /\ n \in moved' <=> n \in moved
    /\ \A q \in Requests : SameMaking(q, n)

LEMMA NumberApart ==
    ASSUME NEW n \in Numbers, NumberInv(n), Apart(n)
    PROVE  NumberInv(n)'
<1>1. /\ (n \in Known)' <=> n \in Known
      /\ (n \in InMaking)' <=> n \in InMaking
  BY DEF Apart, SameMaking, Known, InMaking
<1>2. \A r \in Requests : Making(r, n)' => MadeInOrder(r, n)'
  <2> SUFFICES ASSUME NEW r \in Requests, Making(r, n)'
               PROVE  MadeInOrder(r, n)'
    OBVIOUS
  <2>1. Making(r, n) /\ MadeInOrder(r, n)
    BY DEF Apart, SameMaking, NumberInv, MakingNumber
  <2>2. request[r].next' = request[r].next
    BY <2>1 DEF Apart, SameMaking
  <2> QED BY <1>1, <2>1, <2>2 DEF Apart, SameMaking, MadeInOrder
<1>3. MakingNumber(n)'
  BY <1>1, <1>2 DEF Apart, NumberInv, MakingNumber
<1>4. MonitoredNumber(n)'
  BY <1>1 DEF Apart, NumberInv, MonitoredNumber, OnceEach, FollowsExophone
<1> QED BY <1>3, <1>4 DEF NumberInv

(* The step neither starts nor ends the making of jobs, nor advances it.   *)
MakingKept ==
    \A q \in Requests : request[q].pc = "jobs" \/ request'[q].pc = "jobs" =>
        request'[q] = request[q]

LEMMA MakingSame ==
    ASSUME MakingKept, NEW n \in Numbers
    PROVE  \A q \in Requests : SameMaking(q, n)
<1> SUFFICES ASSUME NEW q \in Requests
             PROVE  SameMaking(q, n)
  OBVIOUS
<1>1. CASE request'[q] = request[q]
  BY <1>1 DEF Making, SameMaking
<1>2. CASE request[q].pc # "jobs" /\ request'[q].pc # "jobs"
  BY <1>2 DEF Making, SameMaking
<1> QED BY <1>1, <1>2 DEF MakingKept

(* A step that makes no job and writes no row.                             *)
LEMMA RowsUntouched ==
    ASSUME IInv, UNCHANGED <<exophone, job, maimed, moved>>, MakingKept
    PROVE  \A n \in Numbers : NumberInv(n)'
<1>1. \A n \in Numbers : Apart(n)
  BY MakingSame DEF Apart
<1> QED BY <1>1, NumberApart DEF IInv

(* A number that gets its row and all its jobs in one transaction.         *)
LEMMA RowsAdded ==
    ASSUME IInv, NEW n \in Numbers, NEW p \in Priorities, exophone[n] = NoRow,
           exophone'[n] = p, job'[n] = AllJobs(p), UNCHANGED <<maimed, moved>>,
           \A q \in Requests : Making(q, n)' => Making(q, n)
    PROVE  NumberInv(n)'
<1>1. n \notin Known /\ NumberInv(n)
  BY DEF IInv, Known
<1>2. \A q \in Requests : ~Making(q, n)'
  BY <1>1 DEF NumberInv, MakingNumber, MadeInOrder
<1>3. n \in Known'
  BY OnboardingAssumption DEF OnboardingAssumption, Known, NoRow
<1>4. n \notin maimed \cup moved
  BY <1>1 DEF NumberInv, MakingNumber
<1>5. MakingNumber(n)'
  BY <1>2, <1>3 DEF MakingNumber
<1>6. OnceEach(n)' /\ FollowsExophone(n)'
  <2>1. DOMAIN AllJobs(p) = 1 .. 3
    BY DEF AllJobs
  <2> QED BY <2>1, AllJobsType DEF OnceEach, FollowsExophone
<1>7. MonitoredNumber(n)'
  BY <1>3, <1>6 DEF MonitoredNumber
<1> QED BY <1>5, <1>7 DEF NumberInv

-----------------------------------------------------------------------------
(* The steps that write.                                                   *)

LEMMA InvCreateAccount ==
    ASSUME IInv, NEW p \in Priorities, NEW forms \in SUBSET Forms,
           CreateAccount(forms, p)
    PROVE  \A n \in Numbers : NumberInv(n)'
<1> DEFINE adding == {NormalizePhone[f] : f \in forms}
<1>1. \A n \in Numbers : exophone[n] = NoRow
  BY DEF CreateAccount, IInv, AccountInv, Known
<1>2. \A n \in Numbers : \A q \in Requests : SameMaking(q, n)
  BY MakingSame DEF CreateAccount, MakingKept
<1>3. ASSUME NEW n \in Numbers, n \in adding PROVE NumberInv(n)'
  <2>1. exophone'[n] = p /\ job'[n] = AllJobs(p)
    BY <1>3 DEF CreateAccount
  <2>2. \A q \in Requests : Making(q, n)' => Making(q, n)
    BY <1>2, <1>3 DEF SameMaking
  <2> QED BY <1>1, <1>3, <2>1, <2>2, RowsAdded DEF CreateAccount, history
<1>4. ASSUME NEW n \in Numbers, n \notin adding PROVE NumberInv(n)'
  <2>1. Apart(n)
    BY <1>2, <1>4 DEF CreateAccount, Apart, history
  <2> QED BY <2>1, NumberApart DEF IInv
<1> QED BY <1>3, <1>4

LEMMA InvAddRows ==
    ASSUME IInv, NEW r \in Requests, NEW p \in Priorities, AddRows(r, p)
    PROVE  \A n \in Numbers : NumberInv(n)'
<1>1. PICK m \in Numbers : m = request[r].number
  BY InFlight DEF AddRows, IInv
<1>2. MakingKept
  BY DEF AddRows, Idle, IInv, TypeOK, MakingKept
<1>3. CASE /\ exophone[m] = NoRow
           /\ exophone' = [exophone EXCEPT ![m] = p]
           /\ job' = [job EXCEPT ![m] = AllJobs(p)]
  <2>1. NumberInv(m)'
    <3>1. exophone'[m] = p /\ job'[m] = AllJobs(p)
      BY <1>1, <1>3 DEF IInv, TypeOK
    <3>2. \A q \in Requests : Making(q, m)' => Making(q, m)
      BY <1>1, <1>2, MakingSame DEF SameMaking
    <3> QED BY <1>1, <1>3, <3>1, <3>2, RowsAdded DEF AddRows, history
  <2>2. ASSUME NEW n \in Numbers, n # m PROVE NumberInv(n)'
    <3>1. Apart(n)
      BY <1>2, <1>3, <2>2, MakingSame DEF AddRows, Apart, IInv, TypeOK, history
    <3> QED BY <3>1, NumberApart DEF IInv
  <2> QED BY <2>1, <2>2
<1>4. CASE UNCHANGED <<exophone, job>>
  BY <1>2, <1>4, RowsUntouched DEF AddRows, history
<1> QED BY <1>1, <1>3, <1>4 DEF AddRows


LEMMA InvUpsertExophone ==
    ASSUME IInv, NEW r \in Requests, NEW f \in Forms, UpsertExophone(r, f)
    PROVE  \A n \in Numbers : NumberInv(n)'
<1>1. PICK m \in Numbers : m = NormalizePhone[f]
  BY OnboardingAssumption DEF OnboardingAssumption
<1>2. "P1" \in Priorities /\ "P1" # NoRow
  BY OnboardingAssumption DEF OnboardingAssumption, NoRow
<1>3. request[r].pc = "sync"
  BY DEF UpsertExophone
<1>4. CASE /\ exophone[m] = NoRow
           /\ exophone' = [exophone EXCEPT ![m] = "P1"]
           /\ request' = [request EXCEPT ![r] = Started("jobs", m, @.forms \ {f})]
  <2>1. /\ request'[r].pc = "jobs" /\ request'[r].number = m /\ request'[r].next = 1
        /\ \A q \in Requests : q # r => request'[q] = request[q]
    BY <1>4 DEF IInv, TypeOK, Started
  <2>2. UNCHANGED <<job, maimed, moved>>
    BY DEF UpsertExophone, history
  <2>3. ASSUME NEW n \in Numbers, n # m PROVE NumberInv(n)'
    <3>1. \A q \in Requests : SameMaking(q, n)
      <4> SUFFICES ASSUME NEW q \in Requests
                   PROVE  SameMaking(q, n)
        OBVIOUS
      <4>1. CASE q = r
        BY <1>3, <2>1, <2>3, <4>1 DEF Making, SameMaking
      <4>2. CASE q # r
        BY <2>1, <4>2 DEF Making, SameMaking
      <4> QED BY <4>1, <4>2
    <3>2. exophone'[n] = exophone[n]
      BY <1>4, <2>3 DEF IInv, TypeOK
    <3>3. Apart(n)
      BY <2>2, <3>1, <3>2 DEF Apart
    <3> QED BY <3>3, NumberApart DEF IInv
  <2>4. NumberInv(m)'
    <3>1. m \notin Known /\ NumberInv(m)
      BY <1>4 DEF IInv, Known
    <3>2. job[m] = <<>> /\ m \notin maimed \cup moved /\ \A q \in Requests : ~Making(q, m)
      BY <3>1 DEF NumberInv, MakingNumber, MonitoredNumber, MadeInOrder
    <3>3. exophone'[m] = "P1" /\ m \in Known'
      BY <1>2, <1>4 DEF IInv, TypeOK, Known
    <3>4. \A q \in Requests : Making(q, m)' => q = r
      BY <2>1, <3>2 DEF Making
    <3>5. MadeInOrder(r, m)'
      BY <2>1, <2>2, <3>2, <3>3, <3>4 DEF MadeInOrder
    <3>6. MakingNumber(m)'
      BY <3>3, <3>4, <3>5 DEF MakingNumber
    <3>7. m \in InMaking'
      BY <2>1 DEF InMaking, Making
    <3>8. MonitoredNumber(m)'
      BY <2>2, <3>2, <3>3, <3>7 DEF MonitoredNumber, FollowsExophone
    <3> QED BY <3>6, <3>8 DEF NumberInv
  <2> QED BY <2>3, <2>4
<1>5. CASE /\ request' = [request EXCEPT ![r].forms = @ \ {f}]
           /\ UNCHANGED exophone
  <2>1. MakingKept
    BY <1>3, <1>5 DEF MakingKept, IInv, TypeOK
  <2> QED BY <1>5, <2>1, RowsUntouched DEF UpsertExophone, history
<1> QED BY <1>1, <1>4, <1>5 DEF UpsertExophone

LEMMA InvInsertJob ==
    ASSUME IInv, NEW r \in Requests, InsertJob(r)
    PROVE  \A n \in Numbers : NumberInv(n)'
<1>1. PICK m \in Numbers : m = request[r].number
  BY InFlight DEF InsertJob, IInv
<1>2. PICK k \in 1 .. 3 : k = request[r].next
  BY InFlight DEF InsertJob, IInv
<1> DEFINE row == [type |-> JobTypes[k], priority |-> "P1"]
<1>3. Making(r, m) /\ NumberInv(m) /\ MadeInOrder(r, m)
  BY <1>1 DEF InsertJob, Making, IInv, NumberInv, MakingNumber
<1>4. /\ \A q \in Requests : q # r => request'[q] = request[q]
      /\ k = 3 => request'[r].pc = "sync"
      /\ k # 3 => /\ request'[r].pc = "jobs" /\ request'[r].number = m
                  /\ request'[r].next = k + 1
  <2>1. request[r] \in RequestState /\ request[r].pc = "jobs"
    BY InFlight DEF InsertJob, IInv
  <2>2. /\ [request[r] EXCEPT !.next = k + 1].pc = "jobs"
        /\ [request[r] EXCEPT !.next = k + 1].number = m
        /\ [request[r] EXCEPT !.next = k + 1].next = k + 1
    BY <1>1, <2>1 DEF RequestState
  <2> QED BY <1>2, <2>2 DEF InsertJob, IInv, TypeOK, Started
<1>5. /\ UNCHANGED <<exophone, moved>>
      /\ \/ job' = [job EXCEPT ![m] = Append(@, row)] /\ UNCHANGED maimed
         \/ maimed' = maimed \cup {m} /\ UNCHANGED job
  BY <1>1, <1>2 DEF InsertJob
<1>6. ASSUME NEW n \in Numbers, n # m PROVE NumberInv(n)'
  <2>1. \A q \in Requests : SameMaking(q, n)
    <3> SUFFICES ASSUME NEW q \in Requests
                 PROVE  SameMaking(q, n)
      OBVIOUS
    <3>1. CASE q = r
      BY <1>1, <1>4, <1>6, <3>1 DEF Making, SameMaking
    <3>2. CASE q # r
      BY <1>4, <3>2 DEF Making, SameMaking
    <3> QED BY <3>1, <3>2
  <2>2. job'[n] = job[n] /\ (n \in maimed' <=> n \in maimed)
    BY <1>5, <1>6 DEF IInv, TypeOK
  <2>3. Apart(n)
    BY <1>5, <2>1, <2>2 DEF Apart
  <2> QED BY <2>3, NumberApart DEF IInv
<1>7. NumberInv(m)'
  <2>1. m \in Known /\ m \in Known'
    BY <1>3, <1>5 DEF MadeInOrder, Known
  <2>2. \A q \in Requests : Making(q, m)' => q = r /\ k # 3
    BY <1>3, <1>4 DEF Making, MadeInOrder
  <2>3. job[m] \in Seq(JobRow) /\ Len(job[m]) \in Nat /\ JobTypes[k] = row.type
        /\ row.priority = "P1"
    BY DEF IInv, TypeOK
  <2>4. m \notin maimed' =>
           /\ m \notin maimed /\ job'[m] = Append(job[m], row)
    BY <1>5 DEF IInv, TypeOK
  <2>5. m \notin maimed' =>
           /\ Len(job'[m]) = k
           /\ \A i \in 1 .. k : job'[m][i].type = JobTypes[i]
    <3> SUFFICES ASSUME m \notin maimed'
                 PROVE  /\ Len(job'[m]) = k
                        /\ \A i \in 1 .. k : job'[m][i].type = JobTypes[i]
      OBVIOUS
    <3>1. /\ Len(job[m]) = k - 1
          /\ \A i \in 1 .. k - 1 : job[m][i].type = JobTypes[i]
      BY <1>2, <1>3, <2>4 DEF MadeInOrder
    <3>2. /\ Len(job'[m]) = k
          /\ \A i \in 1 .. k - 1 : job'[m][i] = job[m][i]
          /\ job'[m][k] = row
      BY <2>3, <2>4, <3>1
    <3>3. \A i \in 1 .. k : i \in 1 .. k - 1 \/ i = k
      OBVIOUS
    <3> QED BY <2>3, <3>1, <3>2, <3>3
  <2>6. MakingNumber(m)'
    <3>1. \A q \in Requests : Making(q, m)' => MadeInOrder(q, m)'
      <4> SUFFICES ASSUME NEW q \in Requests, Making(q, m)'
                   PROVE  MadeInOrder(q, m)'
        OBVIOUS
      <4>1. q = r /\ k # 3 /\ request'[q].next = k + 1
        BY <1>4, <2>2
      <4>2. m \notin moved' => exophone'[m] = "P1"
        BY <1>3, <1>5 DEF MadeInOrder
      <4>3. m \notin maimed' =>
               /\ Len(job'[m]) = request'[q].next - 1
               /\ \A i \in 1 .. Len(job'[m]) : job'[m][i].type = JobTypes[i]
        BY <2>5, <4>1
      <4> QED BY <2>1, <2>2, <4>1, <4>2, <4>3 DEF MadeInOrder
    <3> QED BY <2>1, <3>1 DEF MakingNumber
  <2>7. m \in (Known \ (InMaking \cup maimed))' => OnceEach(m)'
    <3>1. m \notin InMaking' => k = 3
      BY <1>4 DEF InMaking, Making
    <3> QED BY <2>5, <3>1 DEF OnceEach
  <2>8. m \in (Known \ moved)' => FollowsExophone(m)'
    <3> SUFFICES ASSUME m \notin moved
                 PROVE  FollowsExophone(m)'
      BY <1>5
    <3>1. FollowsExophone(m) /\ exophone'[m] = "P1" /\ exophone[m] = "P1"
      BY <1>3, <1>5, <2>1 DEF NumberInv, MonitoredNumber, MadeInOrder
    <3>2. CASE job'[m] = Append(job[m], row)
      <4>1. \A i \in 1 .. Len(job[m]) : job[m][i].priority = "P1"
        BY <2>3, <3>1 DEF FollowsExophone
      <4>2. /\ DOMAIN job'[m] = 1 .. Len(job[m]) + 1
            /\ \A i \in 1 .. Len(job[m]) : job'[m][i] = job[m][i]
            /\ job'[m][Len(job[m]) + 1] = row
        BY <2>3, <3>2
      <4>3. \A i \in 1 .. Len(job[m]) + 1 : i \in 1 .. Len(job[m]) \/ i = Len(job[m]) + 1
        BY <2>3
      <4>4. \A i \in DOMAIN job'[m] : job'[m][i].priority = exophone'[m]
        BY <2>3, <3>1, <4>1, <4>2, <4>3
      <4> QED BY <4>4 DEF FollowsExophone
    <3>3. CASE job'[m] = job[m]
      BY <1>5, <3>1, <3>3 DEF FollowsExophone
    <3>4. job'[m] = Append(job[m], row) \/ job'[m] = job[m]
      BY <1>5 DEF IInv, TypeOK
    <3> QED BY <3>2, <3>3, <3>4
  <2> QED BY <2>1, <2>6, <2>7, <2>8 DEF NumberInv, MonitoredNumber
<1> QED BY <1>6, <1>7

LEMMA InvUpdatePriority ==
    ASSUME IInv, NEW m \in Numbers, NEW p \in Priorities, UpdatePriority(m, p)
    PROVE  \A n \in Numbers : NumberInv(n)'
<1>1. \A n \in Numbers : \A q \in Requests : SameMaking(q, n)
  BY MakingSame DEF UpdatePriority, MakingKept
<1>2. ASSUME NEW n \in Numbers, n # m PROVE NumberInv(n)'
  <2>1. exophone'[n] = exophone[n] /\ job'[n] = job[n]
    BY <1>2 DEF UpdatePriority, IInv, TypeOK
  <2>2. (n \in moved' <=> n \in moved) /\ UNCHANGED maimed
    BY <1>2 DEF UpdatePriority
  <2>3. Apart(n)
    BY <1>1, <2>1, <2>2 DEF Apart
  <2> QED BY <2>3, NumberApart DEF IInv
<1>3. NumberInv(m)'
  <2>1. /\ job'[m] = Reprioritised(m, p) /\ exophone'[m] = p
        /\ UNCHANGED maimed
        /\ m \in moved' <=> m \in InMaking
    BY DEF UpdatePriority, Reprioritised, IInv, TypeOK
  <2>2. m \in Known /\ m \in Known' /\ NumberInv(m)
    BY <2>1, OnboardingAssumption
       DEF OnboardingAssumption, UpdatePriority, Known, NoRow, IInv
  <2>3. /\ m \in InMaking' <=> m \in InMaking
        /\ \A q \in Requests : Making(q, m)' <=> Making(q, m)
    BY <1>1 DEF SameMaking, InMaking
  <2>4. /\ Len(job'[m]) = Len(job[m]) /\ DOMAIN job'[m] = 1 .. Len(job[m])
        /\ \A k \in 1 .. Len(job[m]) : /\ job'[m][k].type = job[m][k].type
                                      /\ job'[m][k].priority = p
    BY <2>1, ReprioritisedType DEF IInv
  <2>5. \A r \in Requests : Making(r, m)' => MadeInOrder(r, m)'
    <3> SUFFICES ASSUME NEW r \in Requests, Making(r, m)'
                 PROVE  MadeInOrder(r, m)'
      OBVIOUS
    <3>1. Making(r, m) /\ MadeInOrder(r, m) /\ request[r].next' = request[r].next
      BY <1>1, <2>2 DEF SameMaking, NumberInv, MakingNumber
    <3>2. m \in moved'
      BY <2>1, <3>1 DEF InMaking
    <3>3. m \notin maimed' =>
             /\ Len(job'[m]) = request'[r].next - 1
             /\ \A k \in 1 .. Len(job'[m]) : job'[m][k].type = JobTypes[k]
      BY <2>1, <2>4, <3>1 DEF MadeInOrder
    <3> QED BY <2>2, <2>3, <3>1, <3>2, <3>3 DEF MadeInOrder
  <2>6. m \in (Known \ (InMaking \cup maimed))' => OnceEach(m)'
    BY <2>1, <2>2, <2>3, <2>4 DEF NumberInv, MonitoredNumber, OnceEach
  <2>7. FollowsExophone(m)'
    BY <2>1, <2>4 DEF FollowsExophone
  <2> QED BY <2>2, <2>5, <2>6, <2>7 DEF NumberInv, MakingNumber, MonitoredNumber
<1> QED BY <1>2, <1>3

LEMMA InvCrash ==
    ASSUME IInv, Crash
    PROVE  \A n \in Numbers : NumberInv(n)'
<1> SUFFICES ASSUME NEW n \in Numbers
             PROVE  NumberInv(n)'
  OBVIOUS
<1>1. \A q \in Requests : ~Making(q, n)'
  BY DEF Crash, Making, Idle
<1>2. /\ UNCHANGED <<exophone, job, moved>>
      /\ maimed' = maimed \cup InMaking
      /\ n \in Known' <=> n \in Known
  BY DEF Crash, rows, Known
<1>3. NumberInv(n)
  BY DEF IInv
<1>4. n \in InMaking => n \in Known
  BY <1>3 DEF InMaking, NumberInv, MakingNumber, MadeInOrder
<1>5. MakingNumber(n)'
  BY <1>1, <1>2, <1>3, <1>4 DEF NumberInv, MakingNumber
<1>6. n \in (Known \ (InMaking \cup maimed))' => OnceEach(n)'
  BY <1>2, <1>3 DEF NumberInv, MonitoredNumber, OnceEach
<1>7. MonitoredNumber(n)'
  BY <1>2, <1>3, <1>6 DEF NumberInv, MonitoredNumber, FollowsExophone
<1> QED BY <1>5, <1>7 DEF NumberInv

(* The other steps write no row.                                           *)
LEMMA InvRest ==
    ASSUME IInv,
           \/ \E f \in Forms : NumberBought(f)
           \/ \E r \in Requests : \/ Request(r) \/ CheckDuplicate(r)
                                  \/ LoadExisting(r) \/ SyncDone(r)
           \/ CountExophones \/ CountFails \/ WriteTotals \/ WriteFails
           \/ AccumulateAccountDashboardFromSnapshots
           \/ UNCHANGED vars
    PROVE  \A n \in Numbers : NumberInv(n)'
<1>1. CASE UNCHANGED <<rows, request, history>>
  <2>1. MakingKept
    BY <1>1 DEF MakingKept
  <2> QED BY <1>1, <2>1, RowsUntouched DEF rows, history
<1>2. ASSUME NEW r \in Requests,
             \/ Request(r) \/ CheckDuplicate(r) \/ LoadExisting(r) \/ SyncDone(r)
      PROVE  \A n \in Numbers : NumberInv(n)'
  <2>1. request[r].pc # "jobs" /\ request'[r].pc # "jobs"
    <3>1. CASE Request(r) \/ LoadExisting(r) \/ SyncDone(r)
      BY <3>1 DEF Request, AddExophone, SyncExophones, LoadExisting, SyncDone,
                  Started, Idle, IInv, TypeOK
    <3>2. CASE CheckDuplicate(r)
      <4>1. request[r].pc = "check" /\ request[r] \in RequestState
        BY <3>2, InFlight DEF CheckDuplicate, IInv
      <4>2. [request[r] EXCEPT !.pc = "add"].pc = "add"
        BY <4>1 DEF RequestState
      <4>3. \/ request' = [request EXCEPT ![r] = Idle]
            \/ request' = [request EXCEPT ![r] = [@ EXCEPT !.pc = "add"]]
        BY <3>2 DEF CheckDuplicate
      <4>4. request'[r] \in {Idle, [request[r] EXCEPT !.pc = "add"]}
        BY <4>3 DEF IInv, TypeOK
      <4>5. Idle.pc = "idle"
        BY DEF Idle
      <4>6. request'[r].pc \in {"idle", "add"}
        BY <4>2, <4>4, <4>5
      <4> QED BY <4>1, <4>6
    <3> QED BY <1>2, <3>1, <3>2
  <2>2. \A q \in Requests : q # r => request'[q] = request[q]
    BY <1>2 DEF Request, AddExophone, SyncExophones, CheckDuplicate, LoadExisting,
                SyncDone, IInv, TypeOK
  <2>3. MakingKept
    BY <2>1, <2>2 DEF MakingKept
  <2>4. UNCHANGED <<rows, history>>
    BY <1>2 DEF Request, AddExophone, SyncExophones, CheckDuplicate, LoadExisting,
                SyncDone
  <2> QED BY <2>3, <2>4, RowsUntouched DEF rows, history
<1>3. ASSUME \/ \E f \in Forms : NumberBought(f)
             \/ CountExophones \/ CountFails \/ WriteTotals \/ WriteFails
             \/ AccumulateAccountDashboardFromSnapshots
             \/ UNCHANGED vars
      PROVE  UNCHANGED <<rows, request, history>>
  BY <1>3 DEF NumberBought, CountExophones, CountFails, WriteTotals, WriteFails,
              AccumulateAccountDashboardFromSnapshots, vars
<1> QED BY <1>1, <1>2, <1>3

LEMMA InvAccount ==
    ASSUME IInv, Next \/ UNCHANGED vars
    PROVE  AccountInv'
<1>1. CASE account
  <2>1. account'
    BY <1>1 DEF Next, Request, RequestStep, CreateAccount, NumberBought, AddExophone,
       SyncExophones, CheckDuplicate, AddRows, LoadExisting, UpsertExophone, InsertJob,
       SyncDone, UpdatePriority, CountExophones, CountFails, WriteTotals, WriteFails,
       AccumulateAccountDashboardFromSnapshots, Crash, vars, rows
  <2> QED BY <2>1 DEF AccountInv
<1>2. CASE ~account
  <2>1. Known = {} /\ \A r \in Requests : request[r] = Idle
    BY <1>2 DEF IInv, AccountInv
  <2>2. \A r \in Requests : ~(Request(r) \/ RequestStep(r))
    <3> SUFFICES ASSUME NEW r \in Requests
                 PROVE  ~Request(r) /\ ~RequestStep(r)
      OBVIOUS
    <3>1. request[r].pc = "idle"
      BY <2>1 DEF Idle
    <3>2. ~Request(r)
      BY <1>2 DEF Request, AddExophone, SyncExophones
    <3>3. ~RequestStep(r)
      BY <3>1 DEF RequestStep, CheckDuplicate, AddRows, LoadExisting, UpsertExophone,
                  InsertJob, SyncDone
    <3> QED BY <3>2, <3>3
  <2>3. \A n \in Numbers, p \in Priorities : ~UpdatePriority(n, p)
    BY <2>1 DEF UpdatePriority, Known
  <2>4. \/ account'
        \/ UNCHANGED <<exophone, request>>
        \/ UNCHANGED exophone /\ request' = [r \in Requests |-> Idle]
    BY <2>2, <2>3 DEF Next, CreateAccount, NumberBought, CountExophones, CountFails,
       WriteTotals, WriteFails, AccumulateAccountDashboardFromSnapshots, Crash, vars, rows
  <2> QED BY <2>1, <2>4 DEF AccountInv, Known
<1> QED BY <1>1, <1>2 DEF IInv, TypeOK

LEMMA InvNext ==
    ASSUME IInv, [Next]_vars
    PROVE  IInv'
<1>1. TypeOK'
  <2>1. CASE UNCHANGED vars
    BY <2>1 DEF IInv, TypeOK, vars, rows, history
  <2> QED BY <2>1, TypeRequest, TypeOther DEF IInv, Next
<1>2. AccountInv'
  BY InvAccount
<1>3. \A n \in Numbers : NumberInv(n)'
  BY InvCreateAccount, InvAddRows, InvUpsertExophone, InvInsertJob,
     InvUpdatePriority, InvCrash, InvRest DEF Next, RequestStep
<1> QED BY <1>1, <1>2, <1>3 DEF IInv

THEOREM OnboardingInvariant == Spec => []IInv
BY InvInit, InvNext, PTL DEF Spec

-----------------------------------------------------------------------------
(* The types of the rows, the requests in flight and the dashboard.        *)
THEOREM OnboardingTypeCorrect == Spec => []TypeOK
<1>1. IInv => TypeOK
  BY DEF IInv
<1> QED BY <1>1, OnboardingInvariant, PTL

(* However adding, creating and synchronising race with each other and     *)
(* with changes of priority, an exophone has each of its jobs once and in  *)
(* its own priority, unless a statement of its sync failed, the process    *)
(* ended, or the priority changed while its jobs were made.                *)
THEOREM MonitoredHolds == Spec => []Monitored
<1>1. IInv => Monitored
  BY DEF IInv, NumberInv, Monitored
<1> QED BY <1>1, OnboardingInvariant, PTL
=============================================================================
