-------------------------- MODULE JobAttemptProofs --------------------------
(* Proofs about JobAttempt, for every retry policy: the retry loop, what an *)
(* execution has stored and raised when its row is final, and that it ends. *)
EXTENDS JobAttempt, Integers, TLAPS

(* The loop goes on only after answers that are retried, at most MaxRetries *)
(* of them; once a call has been made after the deadline it does not.       *)
RetryInv ==
    /\ answers \in Seq(Answer)
    /\ late \in Nat
    /\ Len(answers) <= MaxRetries + 1
    /\ \A i \in 1 .. Len(answers) - 1 : Retryable(answers[i])
    /\ pc \in {"lookup", "attempt", "backoff", "waiting"} =>
          /\ Len(answers) <= MaxRetries
          /\ \A i \in 1 .. Len(answers) : Retryable(answers[i])
    /\ late <= 1
    /\ late = 1 => expired /\ pc \notin {"lookup", "attempt", "waiting"}

LEMMA RetryInit == ASSUME Init PROVE RetryInv
  BY AttemptAssumption DEF Init, RetryInv, AttemptAssumption

(* A step that makes no call keeps the invariant if it does not go back     *)
(* into the loop.                                                           *)
LEMMA NoCallMade ==
    ASSUME RetryInv, UNCHANGED <<type, calls>>,
           expired => expired',
           pc' \in {"lookup", "attempt", "backoff", "waiting"} =>
               pc \in {"lookup", "attempt", "backoff", "waiting"},
           late = 1 => pc' \notin {"lookup", "attempt", "waiting"}
    PROVE  RetryInv'
  BY DEF RetryInv, Retryable, calls

LEMMA RetryAttempt == ASSUME RetryInv, Attempt PROVE RetryInv'
<1>1. PICK a \in Answer :
         /\ answers' = Append(answers, a)
         /\ pc' = IF Retryable(a) /\ Len(answers) < MaxRetries THEN "backoff" ELSE "report"
  BY DEF Attempt, Possible
<1>2. /\ pc = "attempt" /\ type' = type /\ expired' = expired
      /\ late' = IF expired THEN late + 1 ELSE late
  BY DEF Attempt
<1>3. /\ answers' \in Seq(Answer) /\ Len(answers') = Len(answers) + 1
      /\ answers'[Len(answers) + 1] = a
      /\ \A i \in 1 .. Len(answers) : answers'[i] = answers[i]
  BY <1>1 DEF RetryInv
<1>4. \A b \in Answer : Retryable(b)' <=> Retryable(b)
  BY <1>2 DEF Retryable
<1>5. \A i \in 1 .. Len(answers) : Retryable(answers[i])'
  BY <1>2, <1>3 DEF RetryInv, Retryable
<1>6. Len(answers) \in Nat /\ MaxRetries \in Nat /\ Len(answers) <= MaxRetries
  BY <1>2, AttemptAssumption DEF RetryInv, AttemptAssumption
<1>7. pc' = "backoff" => Len(answers') <= MaxRetries /\ Retryable(a)'
  BY <1>1, <1>3, <1>4, <1>6
<1>8. Retryable(a)' => \A i \in 1 .. Len(answers') : Retryable(answers[i])'
  BY <1>3, <1>5, <1>6 DEF Retryable
<1>9. late' \in Nat /\ late' <= 1 /\ (late' = 1 => expired')
  BY <1>2 DEF RetryInv
<1>10. pc' \in {"backoff", "report"}
  BY <1>1
<1>11. \A i \in 1 .. Len(answers') - 1 : Retryable(answers[i])'
  BY <1>3, <1>5, <1>6
<1>12. Len(answers') <= MaxRetries + 1
  BY <1>3, <1>6
<1>13. pc' \in {"lookup", "attempt", "backoff", "waiting"} =>
          /\ Len(answers') <= MaxRetries
          /\ \A i \in 1 .. Len(answers') : Retryable(answers[i])'
  BY <1>7, <1>8, <1>10
<1> QED
  BY <1>3, <1>9, <1>10, <1>11, <1>12, <1>13 DEF RetryInv

LEMMA RetryNext == ASSUME RetryInv, [Next]_vars PROVE RetryInv'
<1>1. CASE Lookup
  BY <1>1, NoCallMade DEF Lookup, RetryInv
<1>2. CASE Attempt
  BY <1>2, RetryAttempt
<1>3. CASE BackOff
  BY <1>3, NoCallMade DEF BackOff, RetryInv
<1>4. CASE Wake
  BY <1>4, NoCallMade DEF Wake, RetryInv
<1>5. CASE Report
  BY <1>5, NoCallMade DEF Report
<1>6. CASE Save
  BY <1>6, NoCallMade DEF Save
<1>7. ASSUME NEW k \in Kinds, CreateAlert(k) \/ SendSlackAlert(k) \/ LogDispatch(k)
      PROVE  RetryInv'
  BY <1>7, NoCallMade DEF CreateAlert, SendSlackAlert, LogDispatch, Raising
<1>8. CASE UpdateTransaction
  BY <1>8, NoCallMade DEF UpdateTransaction
<1>9. CASE Deadline
  BY <1>9, NoCallMade DEF Deadline, RetryInv
<1>10. CASE Crash
  BY <1>10, NoCallMade DEF Crash, rows
<1>11. CASE UNCHANGED vars
  BY <1>11, NoCallMade DEF vars, RetryInv
<1> QED
  BY <1>1, <1>2, <1>3, <1>4, <1>5, <1>6, <1>7, <1>8, <1>9, <1>10, <1>11 DEF Next, Step

(* Whatever the vendor answers and whenever the deadline passes, an answer  *)
(* that is not retried is the last one and MaxRetries is respected.         *)
THEOREM NoFutileCallHolds == Spec => []NoFutileCall
<1>1. RetryInv => NoFutileCall
  BY DEF RetryInv, NoFutileCall
<1> QED
  BY <1>1, RetryInit, RetryNext, PTL DEF Spec

(* The deadline lets at most one more call through.                         *)
THEOREM OneLateCallHolds == Spec => []OneLateCall
<1>1. RetryInv => OneLateCall
  BY DEF RetryInv, OneLateCall
<1> QED
  BY <1>1, RetryInit, RetryNext, PTL DEF Spec

-----------------------------------------------------------------------------
(* The alert about a failure.                                               *)

Looping == {"lookup", "attempt", "backoff", "waiting"}

(* What may be stored or raised, given how the loop went.                   *)
Fitting == {k \in Kinds \cup Saves :
               /\ k = "RETRY_EXHAUSTED" => Len(answers) > MaxRetries \/ expired
               /\ k = "API_FAILURE" => Len(answers) <= MaxRetries}

(* In the loop retryCount counts every answer; when it has ended all but    *)
(* possibly the last, and a full count means that no retry was left or that *)
(* the deadline has passed.                                                 *)
AlertInv ==
    /\ retryCount \in Nat
    /\ pc \in Looping =>
          /\ retryCount = Len(answers)
          /\ plan = <<>>
          /\ \A k \in Kinds : alert[k] = "none"
    /\ pc \in {"backoff", "waiting"} => answers # <<>>
    /\ pc = "report" =>
          /\ answers # <<>>
          /\ retryCount \in {Len(answers), Len(answers) - 1}
          /\ retryCount >= MaxRetries => Len(answers) > MaxRetries \/ expired
          /\ plan = <<>>
          /\ \A k \in Kinds : alert[k] = "none"
    /\ plan \in Seq(Fitting)
    /\ DOMAIN alert = Kinds
    /\ \A k \in Kinds : alert[k] # "none" => k \in Fitting

LEMMA WhenType == ASSUME NEW S, NEW b, NEW s, b => s \in S PROVE When(b, s) \in Seq(S)
  BY DEF When

LEMMA ConcatType ==
    ASSUME NEW S, NEW s \in Seq(S), NEW t \in Seq(S) PROVE s \o t \in Seq(S)
  OBVIOUS

LEMMA TailType == ASSUME NEW S, NEW s \in Seq(S), s # <<>>
                  PROVE  Head(s) \in S /\ Tail(s) \in Seq(S)
  OBVIOUS

(* A failed execution raises the one of the two alerts its count names.     *)
LEMMA FailurePlanType ==
    ASSUME NEW a,
           retryCount >= MaxRetries => "RETRY_EXHAUSTED" \in Fitting,
           ~(retryCount >= MaxRetries) => "API_FAILURE" \in Fitting
    PROVE  FailurePlan(a) \in Seq(Fitting)
<1>1. {"VENDOR_THROTTLING", "response"} \subseteq Fitting
  BY DEF Fitting, Kinds, Saves
<1> DEFINE verdict == IF retryCount >= MaxRetries THEN "RETRY_EXHAUSTED" ELSE "API_FAILURE"
<1>2. verdict \in Fitting
  OBVIOUS
<1> HIDE DEF verdict
<1>3. <<"response", verdict>> \in Seq(Fitting)
  BY <1>1, <1>2
<1>4. When(type = "HEARTBEAT" /\ a.http = 429, "VENDOR_THROTTLING") \in Seq(Fitting)
  BY <1>1, WhenType
<1> QED
  BY <1>3, <1>4, ConcatType DEF FailurePlan, verdict

(* A successful one raises neither.                                         *)
LEMMA SuccessPlanType == ASSUME NEW a, NEW slow PROVE SuccessPlan(a, slow) \in Seq(Fitting)
<1>1. {"response", "metrics", "HIGH_LATENCY", "HEARTBEAT_FAILURE", "INCOMING_DOWN",
       "OUTGOING_DOWN", "THRESHOLD"} \subseteq Fitting
  BY DEF Fitting, Kinds, Saves
<1> DEFINE latency == When(slow /\ type # "STREAMS", "HIGH_LATENCY")
           failure == When(numbered /\ Reading(a) # "OK", "HEARTBEAT_FAILURE")
           inc == When(numbered /\ "INCOMING_DOWN" \in Down(a), "INCOMING_DOWN")
           out == When(numbered /\ "OUTGOING_DOWN" \in Down(a), "OUTGOING_DOWN")
           data == When(HasData(a), "metrics")
           rate == When(HasData(a) /\ a.body = "down", "THRESHOLD")
           rest == IF type = "HEARTBEAT" THEN failure \o inc \o out \o <<"metrics">>
                                         ELSE data \o rate
<1>2. /\ latency \in Seq(Fitting) /\ failure \in Seq(Fitting) /\ inc \in Seq(Fitting)
      /\ out \in Seq(Fitting) /\ data \in Seq(Fitting) /\ rate \in Seq(Fitting)
  BY <1>1, WhenType
<1>3. <<"response">> \in Seq(Fitting) /\ <<"metrics">> \in Seq(Fitting)
  BY <1>1
<1>4. SuccessPlan(a, slow) = <<"response">> \o latency \o rest
  BY DEF SuccessPlan
<1> HIDE DEF latency, failure, inc, out, data, rate
<1>5. rest \in Seq(Fitting)
  BY <1>2, <1>3, ConcatType
<1> HIDE DEF rest
<1> QED
  BY <1>2, <1>3, <1>4, <1>5, ConcatType

LEMMA AlertInit == ASSUME Init PROVE AlertInv
  BY DEF Init, AlertInv, Looping

(* The loop: nothing is planned or raised yet.                              *)
LEMMA AlertLoop ==
    ASSUME RetryInv, AlertInv, Lookup \/ Deadline \/ Attempt \/ BackOff \/ Wake
    PROVE  AlertInv'
<1>0. MaxRetries \in Nat /\ Len(answers) \in Nat
  BY AttemptAssumption DEF AttemptAssumption, RetryInv
<1>1. plan = <<>> /\ plan' = <<>> /\ alert' = alert /\ \A k \in Kinds : alert[k] = "none"
  BY DEF AlertInv, Looping, Lookup, Deadline, Attempt, BackOff, Wake, rows
<1>2. /\ plan' \in Seq(Fitting') /\ DOMAIN alert' = Kinds
      /\ \A k \in Kinds : alert'[k] # "none" => k \in Fitting'
  BY <1>1 DEF AlertInv
<1>3. CASE Lookup \/ Deadline
  <2>1. UNCHANGED <<answers, retryCount>>
    BY <1>3 DEF Lookup, Deadline, calls
  <2>2. retryCount = Len(answers) /\ (pc' = "attempt" \/ pc' = "effects" \/ UNCHANGED pc)
    BY <1>3 DEF AlertInv, Looping, Lookup, Deadline
  <2>3. pc = "report" => FALSE
    BY <1>3 DEF Lookup, Deadline
  <2>4. pc' = "backoff" => answers # <<>>
    BY <1>3 DEF AlertInv, Looping, Lookup, Deadline
  <2> QED
    BY <1>1, <1>2, <2>1, <2>2, <2>3, <2>4 DEF AlertInv, Looping
<1>4. CASE BackOff \/ Wake
  <2>1. UNCHANGED calls /\ expired' = expired /\ retryCount = Len(answers) /\ answers # <<>>
    BY <1>4 DEF BackOff, Wake, AlertInv, Looping
  <2>2. pc' = "report" => expired
    BY <1>4 DEF BackOff, Wake
  <2>3. pc' \in {"report", "waiting", "attempt"}
    BY <1>4 DEF BackOff, Wake
  <2> QED
    BY <1>1, <1>2, <2>1, <2>2, <2>3 DEF AlertInv, Looping, calls
<1>5. CASE Attempt
  <2>1. PICK a \in Answer :
           /\ answers' = Append(answers, a)
           /\ retryCount' = IF Retryable(a) THEN retryCount + 1 ELSE retryCount
           /\ pc' = IF Retryable(a) /\ Len(answers) < MaxRetries THEN "backoff" ELSE "report"
    BY <1>5 DEF Attempt, Possible
  <2>2. Len(answers') = Len(answers) + 1 /\ answers' # <<>>
    BY <2>1 DEF RetryInv
  <2>3. retryCount = Len(answers)
    BY <1>5 DEF Attempt, AlertInv, Looping
  <2>4. CASE Retryable(a) /\ Len(answers) < MaxRetries
    BY <1>0, <1>1, <1>2, <2>1, <2>2, <2>3, <2>4 DEF AlertInv, Looping
  <2>5. CASE ~(Retryable(a) /\ Len(answers) < MaxRetries)
    <3>1. retryCount' \in {Len(answers'), Len(answers') - 1}
      BY <1>0, <2>1, <2>2, <2>3
    <3>2. retryCount' >= MaxRetries => Len(answers') > MaxRetries
      BY <1>0, <2>1, <2>2, <2>3, <2>5
    <3>3. retryCount' \in Nat /\ pc' = "report"
      BY <1>0, <2>1, <2>3, <2>5
    <3> QED
      BY <1>1, <1>2, <2>2, <3>1, <3>2, <3>3 DEF AlertInv, Looping
  <2> QED
    BY <2>4, <2>5
<1> QED
  BY <1>3, <1>4, <1>5

LEMMA AlertNext == ASSUME RetryInv, AlertInv, [Next]_vars PROVE AlertInv'
<1>0. MaxRetries \in Nat /\ Len(answers) \in Nat
  BY AttemptAssumption DEF AttemptAssumption, RetryInv
(* Steps after the loop, and those that change nothing here.                *)
<1>1. ASSUME UNCHANGED <<answers, retryCount, expired>>,
             pc' = "effects" \/ pc' = "done" \/ pc' = "dead",
             plan' \in Seq(Fitting), DOMAIN alert' = Kinds,
             \A k \in Kinds : alert'[k] # "none" => k \in Fitting
      PROVE  AlertInv'
  <2>1. Fitting' = Fitting
    BY <1>1 DEF Fitting
  <2> QED
    BY <1>1, <2>1 DEF AlertInv, Looping
<1>2. CASE Lookup \/ Deadline \/ Attempt \/ BackOff \/ Wake
  BY <1>2, AlertLoop
<1>3. CASE Report
  <2>1. plan' \in Seq(Fitting)
    <3>1. CASE Fails(Last)
      <4>1. Len(answers) # 0 /\ retryCount \in Nat
        BY <1>3 DEF Report, AlertInv, RetryInv
      <4>2. retryCount >= MaxRetries => "RETRY_EXHAUSTED" \in Fitting
        BY <1>3 DEF Report, AlertInv, Fitting, Kinds
      <4>3. ~(retryCount >= MaxRetries) => "API_FAILURE" \in Fitting
        <5>1. ~(retryCount >= MaxRetries) => Len(answers) <= MaxRetries
          BY <1>0, <1>3, <4>1 DEF Report, AlertInv
        <5> QED
          BY <5>1 DEF Fitting, Kinds
      <4> QED
        BY <1>3, <3>1, <4>2, <4>3, FailurePlanType DEF Report
    <3>2. CASE ~Fails(Last)
      BY <1>3, <3>2, SuccessPlanType DEF Report
    <3> QED
      BY <3>1, <3>2
  <2> QED
    BY <1>1, <1>3, <2>1 DEF Report, AlertInv, calls, rows
<1>4. CASE Save
  BY <1>1, <1>4, TailType DEF Save, AlertInv, calls
<1>5. ASSUME NEW k \in Kinds, CreateAlert(k) \/ SendSlackAlert(k) \/ LogDispatch(k)
      PROVE  AlertInv'
  <2>1. /\ UNCHANGED <<answers, retryCount, expired>> /\ pc' = "effects"
        /\ plan # <<>> /\ Head(plan) = k
        /\ plan' = plan \/ plan' = Tail(plan)
        /\ DOMAIN alert' = DOMAIN alert
        /\ \A l \in DOMAIN alert \ {k} : alert'[l] = alert[l]
    BY <1>5 DEF CreateAlert, SendSlackAlert, LogDispatch, Raising, calls
  <2>2. k \in Fitting /\ plan' \in Seq(Fitting)
    BY <2>1, TailType DEF AlertInv
  <2> QED
    BY <1>1, <2>1, <2>2 DEF AlertInv
<1>6. CASE UpdateTransaction
  BY <1>1, <1>6 DEF UpdateTransaction, AlertInv, calls
<1>7. CASE Crash
  BY <1>1, <1>7 DEF Crash, AlertInv, calls, rows
<1>8. CASE UNCHANGED vars
  BY <1>8 DEF vars, AlertInv, Fitting, Looping, calls, rows
<1> QED
  BY <1>2, <1>3, <1>4, <1>5, <1>6, <1>7, <1>8 DEF Next, Step

(* RETRY_EXHAUSTED is never raised while a retry was left in time, and      *)
(* API_FAILURE never when none was left, for every mixture of answers.      *)
THEOREM AlertNamesTheFailureHolds == Spec => []AlertNamesTheFailure
<1>1. AlertInv => AlertNamesTheFailure
  BY DEF AlertInv, AlertNamesTheFailure, Fitting, Kinds
<1> QED
  BY <1>1, RetryInit, RetryNext, AlertInit, AlertNext, PTL DEF Spec

-----------------------------------------------------------------------------
(* What is planned is carried out.                                          *)

Contains(s, k) == \E i \in 1 .. Len(s) : s[i] = k

OnlyLast(s, k) == \A i \in 1 .. Len(s) : s[i] = k => i = Len(s)

LEMMA WhenContains == ASSUME NEW b, NEW s, NEW k PROVE Contains(When(b, s), k) <=> b /\ s = k
  BY DEF Contains, When

LEMMA ConcatContains ==
    ASSUME NEW S, NEW s \in Seq(S), NEW t \in Seq(S), NEW k
    PROVE  Contains(s \o t, k) <=> Contains(s, k) \/ Contains(t, k)
<1>1. /\ Len(s) \in Nat /\ Len(t) \in Nat /\ Len(s \o t) = Len(s) + Len(t)
      /\ \A i \in 1 .. Len(s) : (s \o t)[i] = s[i]
      /\ \A i \in 1 .. Len(t) : (s \o t)[Len(s) + i] = t[i]
  OBVIOUS
<1>2. ASSUME NEW i \in 1 .. Len(s \o t), (s \o t)[i] = k PROVE Contains(s, k) \/ Contains(t, k)
  <2>1. CASE i <= Len(s)
    BY <1>1, <1>2, <2>1 DEF Contains
  <2>2. CASE i > Len(s)
    <3>1. i - Len(s) \in 1 .. Len(t) /\ Len(s) + (i - Len(s)) = i
      BY <1>1, <2>2
    <3> QED
      BY <1>1, <1>2, <3>1 DEF Contains
  <2> QED
    BY <1>1, <2>1, <2>2
<1>3. ASSUME NEW i \in 1 .. Len(s), s[i] = k PROVE Contains(s \o t, k)
  BY <1>1, <1>3 DEF Contains
<1>4. ASSUME NEW i \in 1 .. Len(t), t[i] = k PROVE Contains(s \o t, k)
  <2>1. Len(s) + i \in 1 .. Len(s \o t)
    BY <1>1
  <2> QED
    BY <1>1, <1>4, <2>1 DEF Contains
<1> QED
  BY <1>2, <1>3, <1>4 DEF Contains

LEMMA ConcatOnlyLast ==
    ASSUME NEW S, NEW s \in Seq(S), NEW t \in Seq(S), NEW k, ~Contains(s, k), OnlyLast(t, k)
    PROVE  OnlyLast(s \o t, k)
<1>1. /\ Len(s) \in Nat /\ Len(t) \in Nat /\ Len(s \o t) = Len(s) + Len(t)
      /\ \A i \in 1 .. Len(s) : (s \o t)[i] = s[i]
      /\ \A i \in 1 .. Len(t) : (s \o t)[Len(s) + i] = t[i]
  OBVIOUS
<1>2. ASSUME NEW i \in 1 .. Len(s \o t), (s \o t)[i] = k PROVE i = Len(s \o t)
  <2>1. i > Len(s)
    BY <1>1, <1>2 DEF Contains
  <2>2. i - Len(s) \in 1 .. Len(t) /\ Len(s) + (i - Len(s)) = i
    BY <1>1, <2>1
  <2>3. t[i - Len(s)] = k
    BY <1>1, <1>2, <2>2
  <2>4. i - Len(s) = Len(t)
    BY <2>2, <2>3 DEF OnlyLast
  <2> QED
    BY <1>1, <2>2, <2>4
<1> QED
  BY <1>2 DEF OnlyLast

(* The rest of a plan: its head is gone, the others and the end stay.       *)
LEMMA TailPlan ==
    ASSUME NEW S, NEW s \in Seq(S), s # <<>>, NEW k
    PROVE  /\ Contains(s, k) <=> Head(s) = k \/ Contains(Tail(s), k)
           /\ OnlyLast(s, k) => OnlyLast(Tail(s), k)
           /\ OnlyLast(s, k) /\ Head(s) = k => Tail(s) = <<>>
<1> DEFINE t == Tail(s)
<1>1. /\ Len(s) \in Nat \ {0} /\ Len(t) = Len(s) - 1 /\ Head(s) = s[1]
      /\ \A i \in 1 .. Len(s) - 1 : t[i] = s[i + 1]
  OBVIOUS
<1>2. t \in Seq(S)
  OBVIOUS
<1> HIDE DEF t
<1>3. ASSUME NEW i \in 1 .. Len(s), s[i] = k PROVE Head(s) = k \/ Contains(t, k)
  <2>1. i = 1 \/ (i - 1 \in 1 .. Len(t) /\ t[i - 1] = s[i])
    BY <1>1
  <2> QED
    BY <1>1, <1>3, <2>1 DEF Contains
<1>4. ASSUME NEW i \in 1 .. Len(t), t[i] = k
      PROVE  i + 1 \in 1 .. Len(s) /\ s[i + 1] = k
  BY <1>1, <1>4
<1>5. Head(s) = k => Contains(s, k)
  BY <1>1 DEF Contains
<1>6. Contains(s, k) <=> Head(s) = k \/ Contains(t, k)
  BY <1>3, <1>4, <1>5 DEF Contains
<1>7. ASSUME OnlyLast(s, k), NEW i \in 1 .. Len(t), t[i] = k PROVE i = Len(t)
  <2>1. i + 1 = Len(s)
    BY <1>4, <1>7 DEF OnlyLast
  <2> QED
    BY <1>1, <2>1
<1>8. ASSUME OnlyLast(s, k), Head(s) = k PROVE t = <<>>
  <2>1. 1 \in 1 .. Len(s) /\ s[1] = k
    BY <1>1, <1>8
  <2>2. 1 = Len(s)
    BY <1>8, <2>1 DEF OnlyLast
  <2> QED
    BY <1>1, <1>2, <2>2
<1>9. OnlyLast(s, k) => OnlyLast(t, k)
  BY <1>7 DEF OnlyLast
<1> QED
  BY <1>6, <1>8, <1>9 DEF t

(* Raised, or planned to be.                                                *)
Due(k) == alert[k] # "none" \/ Contains(plan, k)

(* What a reading has to raise.                                             *)
Owed == {"HEARTBEAT_FAILURE"} \cup Down(Last)

(* A failure is owed one of its two alerts, a reading that is not OK those  *)
(* of Owed, and it is stored when everything else of the plan has been done.*)
DebtInv ==
    /\ pc = "lookup" => answers = <<>>
    /\ pc \in Looping \cup {"report"} => status = "SUCCESS" /\ recorded = "none"
    /\ plan # <<>> => pc \in {"effects", "dead"} /\ answers # <<>>
    /\ txn = "FAILED" => pc = "done" /\ status = "FAILED"
    /\ status = "FAILED" /\ answers # <<>> => Due("RETRY_EXHAUSTED") \/ Due("API_FAILURE")
    /\ type = "HEARTBEAT" => OnlyLast(plan, "metrics")
    /\ Contains(plan, "metrics") /\ type = "HEARTBEAT" /\ numbered /\ Reading(Last) # "OK" =>
          \A k \in Owed : Due(k)
    /\ recorded \in {"DEGRADED", "OUTAGE"} /\ numbered => \A k \in Owed : alert[k] # "none"

LEMMA DebtInit == ASSUME Init PROVE DebtInv
  BY DEF Init, DebtInv, Looping, OnlyLast, Contains

LEMMA FailureIsPlanned ==
    ASSUME NEW a
    PROVE  /\ Contains(FailurePlan(a), "RETRY_EXHAUSTED") \/ Contains(FailurePlan(a), "API_FAILURE")
           /\ ~Contains(FailurePlan(a), "metrics")
<1> DEFINE verdict == IF retryCount >= MaxRetries THEN "RETRY_EXHAUSTED" ELSE "API_FAILURE"
           first   == When(type = "HEARTBEAT" /\ a.http = 429, "VENDOR_THROTTLING")
           rest    == <<"response", verdict>>
           S == {"VENDOR_THROTTLING", "response", "RETRY_EXHAUSTED", "API_FAILURE"}
<1>1. verdict \in {"RETRY_EXHAUSTED", "API_FAILURE"}
  OBVIOUS
<1> HIDE DEF verdict
<1>2. first \in Seq(S) /\ rest \in Seq(S)
  BY <1>1, WhenType
<1>3. Contains(rest, verdict) /\ ~Contains(rest, "metrics")
  BY <1>1 DEF Contains
<1>4. ~Contains(first, "metrics")
  BY WhenContains
<1>5. FailurePlan(a) = first \o rest
  BY DEF FailurePlan, verdict
<1> HIDE DEF first, rest, S
<1>6. Contains(FailurePlan(a), verdict)
  BY <1>2, <1>3, <1>5, ConcatContains
<1>7. ~Contains(FailurePlan(a), "metrics")
  BY <1>2, <1>3, <1>4, <1>5, ConcatContains
<1> QED
  BY <1>1, <1>6, <1>7

(* A heartbeat stores its reading last.                                     *)
LEMMA OutageIsPlanned ==
    ASSUME NEW a, NEW slow, type = "HEARTBEAT"
    PROVE  /\ OnlyLast(SuccessPlan(a, slow), "metrics")
           /\ numbered /\ Reading(a) # "OK" =>
                 \A k \in {"HEARTBEAT_FAILURE"} \cup Down(a) : Contains(SuccessPlan(a, slow), k)
<1> DEFINE latency == When(slow /\ type # "STREAMS", "HIGH_LATENCY")
           failure == When(numbered /\ Reading(a) # "OK", "HEARTBEAT_FAILURE")
           inc == When(numbered /\ "INCOMING_DOWN" \in Down(a), "INCOMING_DOWN")
           out == When(numbered /\ "OUTGOING_DOWN" \in Down(a), "OUTGOING_DOWN")
           S == Kinds \cup Saves
           head == <<"response">> \o latency
           raised == failure \o inc \o out
           last == <<"metrics">>
<1>1. \A k \in {"response", "metrics", "HIGH_LATENCY", "HEARTBEAT_FAILURE", "INCOMING_DOWN",
                "OUTGOING_DOWN"} : k \in S
  BY DEF Kinds, Saves
<1>2. /\ latency \in Seq(S) /\ failure \in Seq(S) /\ inc \in Seq(S) /\ out \in Seq(S)
      /\ <<"response">> \in Seq(S) /\ last \in Seq(S)
  BY <1>1, WhenType
<1>3. SuccessPlan(a, slow) = head \o (raised \o last)
  BY DEF SuccessPlan
<1>4. ~Contains(<<"response">>, "metrics") /\ OnlyLast(last, "metrics")
  BY DEF Contains, OnlyLast
<1>5. ~Contains(latency, "metrics")
  BY WhenContains
<1>6. ~Contains(failure, "metrics") /\ ~Contains(inc, "metrics") /\ ~Contains(out, "metrics")
  BY WhenContains
<1>7. numbered /\ Reading(a) # "OK" => Contains(failure, "HEARTBEAT_FAILURE")
  BY WhenContains
<1>8. numbered /\ "INCOMING_DOWN" \in Down(a) => Contains(inc, "INCOMING_DOWN")
  BY WhenContains
<1>9. numbered /\ "OUTGOING_DOWN" \in Down(a) => Contains(out, "OUTGOING_DOWN")
  BY WhenContains
<1> HIDE DEF latency, failure, inc, out, S
<1>10. failure \o inc \in Seq(S) /\ raised \in Seq(S) /\ head \in Seq(S)
  BY <1>2, ConcatType
<1>11. \A k : Contains(raised, k) <=> Contains(failure, k) \/ Contains(inc, k) \/ Contains(out, k)
  BY ZenonT(60), <1>2, <1>10, ConcatContains
<1>12. ~Contains(head, "metrics") /\ ~Contains(raised, "metrics")
  BY <1>2, <1>4, <1>5, <1>6, <1>11, ConcatContains
<1> HIDE DEF head, raised, last
<1>13. raised \o last \in Seq(S)
  BY <1>2, <1>10, ConcatType
<1>14. OnlyLast(raised \o last, "metrics")
  BY <1>2, <1>4, <1>10, <1>12, ConcatOnlyLast
<1>15. OnlyLast(SuccessPlan(a, slow), "metrics")
  BY <1>3, <1>10, <1>12, <1>13, <1>14, ConcatOnlyLast
<1>16. ASSUME NEW k, Contains(raised, k) PROVE Contains(SuccessPlan(a, slow), k)
  <2>1. Contains(raised \o last, k)
    BY <1>2, <1>10, <1>16, ConcatContains
  <2>2. Contains(head \o (raised \o last), k) <=> Contains(head, k) \/ Contains(raised \o last, k)
    BY ZenonT(60), <1>10, <1>13, ConcatContains
  <2> QED
    BY <2>1, <2>2, <1>3
<1>17. Down(a) \subseteq {"INCOMING_DOWN", "OUTGOING_DOWN"}
  BY DEF Down
<1> QED
  BY <1>7, <1>8, <1>9, <1>11, <1>15, <1>16, <1>17

(* While the loop runs nothing is owed.                                     *)
LEMMA DebtFree ==
    ASSUME plan' = <<>>, recorded' = "none", txn' # "FAILED",
           pc' = "lookup" => answers' = <<>>,
           pc' \in Looping \cup {"report"} => status' = "SUCCESS",
           status' = "SUCCESS" \/ answers' = <<>>
    PROVE  DebtInv'
<1>1. OnlyLast(plan, "metrics")' /\ ~Contains(plan, "metrics")'
  BY DEF OnlyLast, Contains
<1> QED
  BY <1>1 DEF DebtInv

(* A debt stays until it is paid.                                           *)
LEMMA DueKept ==
    ASSUME plan \in Seq(Kinds \cup Saves), NEW k, Due(k),
           plan' = plan \/ (plan # <<>> /\ plan' = Tail(plan)),
           alert[k] # "none" => alert'[k] # "none",
           plan' # plan /\ Head(plan) = k => alert'[k] # "none"
    PROVE  Due(k)'
<1>1. CASE alert[k] # "none"
  BY <1>1 DEF Due
<1>2. CASE plan' = plan
  BY <1>1, <1>2 DEF Due, Contains
<1>3. CASE plan' # plan /\ Contains(plan, k)
  <2>1. Head(plan) = k \/ Contains(Tail(plan), k)
    BY <1>3, TailPlan
  <2> QED
    BY <1>3, <2>1 DEF Due, Contains
<1> QED
  BY <1>1, <1>2, <1>3 DEF Due

(* A step after the loop that stores no reading.                            *)
LEMMA DebtStep ==
    ASSUME DebtInv, plan \in Seq(Kinds \cup Saves),
           UNCHANGED <<type, answers, numbered, status>>,
           pc' = "lookup" => pc = "lookup",
           pc' \in Looping \cup {"report"} => pc \in Looping \cup {"report"},
           plan' # <<>> => plan # <<>> /\ pc' \in {"effects", "dead"},
           txn' = "FAILED" => pc' = "done" /\ status = "FAILED",
           plan' = plan \/ (plan # <<>> /\ plan' = Tail(plan)),
           recorded' = recorded,
           \A k \in Kinds : alert[k] # "none" => alert'[k] # "none",
           \A k \in Kinds : plan' # plan /\ Head(plan) = k => alert'[k] # "none"
    PROVE  DebtInv'
<1>1. /\ Last' = Last /\ Reading(Last)' = Reading(Last) /\ Owed' = Owed
  BY DEF Last, Owed, Down, BothDown, Reading
<1>2. Owed \subseteq Kinds
  BY DEF Owed, Down, Kinds
<1>3. \A k \in Kinds : Due(k) => Due(k)'
  BY DueKept
<1>4. OnlyLast(plan, "metrics") => OnlyLast(plan, "metrics")'
  BY TailPlan DEF OnlyLast
<1>5. Contains(plan, "metrics")' => Contains(plan, "metrics")
  BY TailPlan DEF Contains
<1>6. status' = "FAILED" /\ answers' # <<>> => Due("RETRY_EXHAUSTED")' \/ Due("API_FAILURE")'
  BY <1>3 DEF DebtInv, Kinds
<1>7. Contains(plan, "metrics")' /\ type' = "HEARTBEAT" /\ numbered' /\ Reading(Last)' # "OK" =>
         \A k \in Owed' : Due(k)'
  BY <1>1, <1>2, <1>3, <1>5 DEF DebtInv
<1>8. recorded' \in {"DEGRADED", "OUTAGE"} /\ numbered' => \A k \in Owed' : alert'[k] # "none"
  BY <1>1, <1>2 DEF DebtInv
<1> QED
  BY <1>4, <1>6, <1>7, <1>8 DEF DebtInv

LEMMA DebtReport == ASSUME DebtInv, AlertInv, Report PROVE DebtInv'
<1>1. /\ pc = "report" /\ pc' = "effects" /\ plan = <<>> /\ answers # <<>>
      /\ status = "SUCCESS" /\ recorded = "none" /\ txn # "FAILED"
      /\ UNCHANGED <<type, numbered, answers, recorded, alert, txn>>
  BY DEF Report, AlertInv, DebtInv, calls, rows
<1>2. Last' = Last /\ Reading(Last)' = Reading(Last) /\ Owed' = Owed
  BY <1>1 DEF Last, Owed, Down, BothDown, Reading
<1>3. \A k : Contains(plan, k)' => Due(k)'
  BY DEF Due
<1>4. CASE Fails(Last)
  <2>1. status' = "FAILED" /\ plan' = FailurePlan(Last)
    BY <1>4 DEF Report
  <2>2. /\ Contains(plan, "RETRY_EXHAUSTED")' \/ Contains(plan, "API_FAILURE")'
        /\ ~Contains(plan, "metrics")'
    BY <2>1, FailureIsPlanned DEF Contains
  <2>3. OnlyLast(plan, "metrics")'
    BY <2>2 DEF OnlyLast, Contains
  <2> QED
    BY <1>1, <1>3, <2>1, <2>2, <2>3 DEF DebtInv, Looping
<1>5. CASE ~Fails(Last)
  <2>1. PICK slow \in BOOLEAN : plan' = SuccessPlan(Last, slow)
    BY <1>5 DEF Report
  <2>2. status' = "SUCCESS"
    BY <1>1, <1>5 DEF Report
  <2>3. CASE type = "HEARTBEAT"
    <3>1. /\ OnlyLast(plan, "metrics")'
          /\ numbered /\ Reading(Last) # "OK" => \A k \in Owed : Contains(plan, k)'
      BY <2>1, <2>3, OutageIsPlanned DEF Owed, OnlyLast, Contains
    <3> QED
      BY <1>1, <1>2, <1>3, <2>2, <3>1 DEF DebtInv, Looping
  <2>4. CASE type # "HEARTBEAT"
    BY <1>1, <2>2, <2>4 DEF DebtInv, Looping
  <2> QED
    BY <2>3, <2>4
<1> QED
  BY <1>4, <1>5

(* The reading is stored last.                                              *)
LEMMA DebtSave == ASSUME DebtInv, TypeOK, Save PROVE DebtInv'
<1>1. /\ pc = "effects" /\ pc' = pc /\ plan # <<>> /\ plan' = Tail(plan) /\ Head(plan) \in Saves
      /\ UNCHANGED <<type, numbered, answers, status, alert, txn>>
      /\ plan \in Seq(Kinds \cup Saves) /\ Head(plan) \notin Kinds
  BY DEF Save, TypeOK, calls, Kinds, Saves
<1>2. CASE recorded' = recorded
  BY <1>1, <1>2, DebtStep DEF DebtInv, Looping
<1>3. CASE recorded' # recorded
  <2>1. Head(plan) = "metrics" /\ recorded' = IF type = "HEARTBEAT" THEN Reading(Last) ELSE "data"
    BY <1>3 DEF Save
  <2>2. /\ Last' = Last /\ Reading(Last)' = Reading(Last) /\ Owed' = Owed
    BY <1>1 DEF Last, Owed, Down, BothDown, Reading
  <2>3. Contains(plan, "metrics")
    BY <1>1, <2>1, TailPlan
  <2>4. Owed \subseteq Kinds /\ "metrics" \notin Owed
    BY DEF Owed, Down, Kinds
  <2>5. \A k \in Kinds : Due(k) => Due(k)'
    BY <1>1, DueKept
  <2>6. status' = "FAILED" /\ answers' # <<>> => Due("RETRY_EXHAUSTED")' \/ Due("API_FAILURE")'
    BY <1>1, <2>5 DEF DebtInv, Kinds
  <2>7. CASE type = "HEARTBEAT"
    <3>1. plan' = <<>>
      BY <1>1, <2>1, <2>7, TailPlan DEF DebtInv
    <3>2. OnlyLast(plan, "metrics")' /\ \A k : ~Contains(plan, k)'
      BY <3>1 DEF OnlyLast, Contains
    <3>3. recorded' \in {"DEGRADED", "OUTAGE"} /\ numbered' => \A k \in Owed : Due(k)
      BY <1>1, <2>1, <2>3, <2>7 DEF DebtInv
    <3>4. recorded' \in {"DEGRADED", "OUTAGE"} /\ numbered' => \A k \in Owed' : alert'[k] # "none"
      BY <2>2, <2>4, <2>5, <3>2, <3>3 DEF Due
    <3> QED
      BY <1>1, <2>6, <3>1, <3>2, <3>4 DEF DebtInv, Looping
  <2>8. CASE type # "HEARTBEAT"
    BY <1>1, <2>1, <2>6, <2>8 DEF DebtInv, Looping
  <2> QED
    BY <2>7, <2>8
<1> QED
  BY <1>2, <1>3

LEMMA DebtNext == ASSUME TypeOK, AlertInv, DebtInv, [Next]_vars PROVE DebtInv'
<1>0. plan \in Seq(Kinds \cup Saves)
  BY DEF TypeOK
<1>1. CASE Lookup \/ Attempt \/ BackOff \/ Wake \/ Deadline
  <2>1. pc \in Looping /\ plan = <<>> /\ recorded = "none" /\ status = "SUCCESS" /\ txn # "FAILED"
    BY <1>1 DEF Lookup, Attempt, BackOff, Wake, Deadline, Looping, AlertInv, DebtInv
  <2>2. UNCHANGED <<plan, recorded, txn>>
    BY <1>1 DEF Lookup, Attempt, BackOff, Wake, Deadline, rows
  <2>3. pc' # "lookup"
    BY <1>1 DEF Lookup, Attempt, BackOff, Wake, Deadline
  <2>4. status' = "SUCCESS" \/ (answers' = <<>> /\ pc' = "effects")
    BY <1>1, <2>1 DEF Lookup, Attempt, BackOff, Wake, Deadline, DebtInv, calls
  <2> QED
    BY <2>1, <2>2, <2>3, <2>4, DebtFree DEF Looping
<1>2. CASE Report
  BY <1>2, DebtReport
<1>3. CASE Save
  BY <1>3, DebtSave
<1>4. ASSUME NEW k \in Kinds, CreateAlert(k) \/ SendSlackAlert(k) \/ LogDispatch(k)
      PROVE  DebtInv'
  <2>1. /\ pc = "effects" /\ pc' = pc /\ plan # <<>> /\ Head(plan) = k
        /\ plan' = plan \/ plan' = Tail(plan)
        /\ UNCHANGED <<type, answers, numbered, status, recorded, txn>>
    BY <1>4 DEF CreateAlert, SendSlackAlert, LogDispatch, Raising, calls
  <2>2. /\ \A l \in Kinds \ {k} : alert'[l] = alert[l]
        /\ alert[k] # "none" => alert'[k] # "none"
        /\ plan' # plan => alert'[k] # "none"
    BY <1>4 DEF CreateAlert, SendSlackAlert, LogDispatch, Raising, TypeOK
  <2> QED
    BY <1>0, <2>1, <2>2, DebtStep DEF DebtInv, Looping
<1>5. CASE UpdateTransaction
  <2>1. /\ pc = "effects" /\ pc' = "done" /\ plan = <<>>
        /\ UNCHANGED <<type, answers, numbered, status, plan, recorded, alert>>
        /\ txn' = "FAILED" => status = "FAILED"
    BY <1>5 DEF UpdateTransaction, calls
  <2> QED
    BY <1>0, <2>1, DebtStep DEF Looping
<1>6. CASE Crash
  <2>1. /\ pc # "done" /\ pc' = "dead"
        /\ UNCHANGED <<type, answers, numbered, status, plan, recorded, alert, txn>>
    BY <1>6 DEF Crash, calls, rows
  <2> QED
    BY <1>0, <2>1, DebtStep DEF DebtInv, Looping
<1>7. CASE UNCHANGED vars
  <2>1. UNCHANGED <<pc, type, answers, numbered, status, plan, recorded, alert, txn>>
    BY <1>7 DEF vars, calls, rows
  <2> QED
    BY <1>0, <2>1, DebtStep DEF DebtInv
<1> QED
  BY <1>1, <1>2, <1>3, <1>4, <1>5, <1>6, <1>7 DEF Next, Step

-----------------------------------------------------------------------------
(* The types.                                                               *)

LEMMA TypeInit == ASSUME Init PROVE TypeOK
<1>1. answers \in Seq(Answer) /\ plan \in Seq(Kinds \cup Saves)
  BY DEF Init
<1>2. alert \in [Kinds -> {"none", "refused", "OPEN", "posted", "unposted", "SENT", "FAILED"}]
  BY DEF Init
<1> QED
  BY <1>1, <1>2 DEF Init, TypeOK

LEMMA PlanType ==
    ASSUME NEW a, NEW slow
    PROVE  /\ FailurePlan(a) \in Seq(Kinds \cup Saves)
           /\ SuccessPlan(a, slow) \in Seq(Kinds \cup Saves)
<1> DEFINE S == Kinds \cup Saves
           verdict == IF retryCount >= MaxRetries THEN "RETRY_EXHAUSTED" ELSE "API_FAILURE"
<1>1. \A k \in {"VENDOR_THROTTLING", "response", "RETRY_EXHAUSTED", "API_FAILURE"} : k \in S
  BY DEF Kinds, Saves
<1>2. verdict \in S
  BY <1>1
<1> HIDE DEF verdict
<1>3. When(type = "HEARTBEAT" /\ a.http = 429, "VENDOR_THROTTLING") \in Seq(S)
  BY <1>1, WhenType
<1>4. <<"response", verdict>> \in Seq(S)
  BY <1>1, <1>2
<1>5. FailurePlan(a) \in Seq(S)
  BY <1>3, <1>4, ConcatType DEF FailurePlan, verdict
<1>6. SuccessPlan(a, slow) \in Seq(Fitting) /\ Fitting \subseteq S
  BY SuccessPlanType DEF Fitting
<1> QED
  BY <1>5, <1>6

LEMMA TypeNext == ASSUME TypeOK, RetryInv, DebtInv, [Next]_vars PROVE TypeOK'
<1>1. CASE Lookup
  BY <1>1 DEF Lookup, TypeOK, calls, rows
<1>2. CASE Attempt
  <2>1. PICK a \in Answer : answers' = Append(answers, a)
    BY <1>2 DEF Attempt, Possible
  <2>2. answers' \in Seq(Answer)
    BY <2>1 DEF TypeOK
  <2>3. pc' \in {"backoff", "report"} /\ late' \in Nat /\ retryCount' \in Nat
    BY <1>2 DEF Attempt, TypeOK
  <2> QED
    BY <1>2, <2>2, <2>3 DEF Attempt, TypeOK, rows
<1>3. CASE BackOff \/ Wake \/ Deadline \/ Crash
  BY <1>3 DEF BackOff, Wake, Deadline, Crash, TypeOK, calls, rows
<1>4. CASE Report
  <2>1. plan' \in Seq(Kinds \cup Saves) /\ status' \in {"SUCCESS", "FAILED"}
    BY <1>4, PlanType DEF Report, TypeOK
  <2> QED
    BY <1>4, <2>1 DEF Report, TypeOK, calls, rows
<1>5. CASE Save
  <2>1. plan' \in Seq(Kinds \cup Saves)
    BY <1>5, TailType DEF Save, TypeOK
  <2>2. answers # <<>>
    BY <1>5 DEF Save, DebtInv
  <2>3. Last \in Answer
    BY <2>2 DEF Last, TypeOK
  <2>4. Last.http \in Codes
    BY <2>3 DEF Answer
  <2>5. stored' \subseteq Codes
    BY <1>5, <2>4 DEF Save, TypeOK
  <2>6. recorded' \in {"none", "OK", "DEGRADED", "OUTAGE", "data"}
    BY <1>5 DEF Save, Reading, TypeOK
  <2> QED
    BY <1>5, <2>1, <2>5, <2>6 DEF Save, TypeOK, calls
<1>6. ASSUME NEW k \in Kinds, CreateAlert(k) \/ SendSlackAlert(k) \/ LogDispatch(k)
      PROVE  TypeOK'
  <2>1. plan' \in Seq(Kinds \cup Saves)
    <3>1. plan' = plan \/ (plan # <<>> /\ plan' = Tail(plan))
      BY <1>6 DEF CreateAlert, SendSlackAlert, LogDispatch, Raising
    <3> QED
      BY <3>1, TailType DEF TypeOK
  <2>2. alert' \in [Kinds -> {"none", "refused", "OPEN", "posted", "unposted", "SENT", "FAILED"}]
    BY <1>6 DEF CreateAlert, SendSlackAlert, LogDispatch, TypeOK
  <2> QED
    BY <1>6, <2>1, <2>2 DEF CreateAlert, SendSlackAlert, LogDispatch, TypeOK, calls
<1>7. CASE UpdateTransaction
  BY <1>7 DEF UpdateTransaction, TypeOK, calls
<1>8. CASE UNCHANGED vars
  BY <1>8 DEF vars, TypeOK, calls, rows
<1> QED
  BY <1>1, <1>2, <1>3, <1>4, <1>5, <1>6, <1>7, <1>8 DEF Next, Step

AttemptInv == TypeOK /\ RetryInv /\ AlertInv /\ DebtInv

LEMMA AttemptInvariant == Spec => []AttemptInv
<1>1. Init => AttemptInv
  BY TypeInit, RetryInit, AlertInit, DebtInit DEF AttemptInv
<1>2. AttemptInv /\ [Next]_vars => AttemptInv'
  BY TypeNext, RetryNext, AlertNext, DebtNext DEF AttemptInv
<1> QED
  BY <1>1, <1>2, PTL DEF Spec

(* Every variable of an execution keeps its type.                           *)
THEOREM AttemptTypeCorrect == Spec => []TypeOK
<1>1. AttemptInv => TypeOK
  BY DEF AttemptInv
<1> QED
  BY <1>1, AttemptInvariant, PTL

(* A transaction that is FAILED for what the vendor answered has raised its *)
(* alert, or tried to, for every number of retries and whatever else fails. *)
THEOREM FailureIsAlertedHolds == Spec => []FailureIsAlerted
<1>1. AttemptInv => FailureIsAlerted
  <2>1. ASSUME AttemptInv, txn = "FAILED", answers # <<>>
        PROVE  alert["RETRY_EXHAUSTED"] # "none" \/ alert["API_FAILURE"] # "none"
    <3>1. plan = <<>> /\ (Due("RETRY_EXHAUSTED") \/ Due("API_FAILURE"))
      BY <2>1 DEF AttemptInv, DebtInv
    <3> QED
      BY <3>1 DEF Due, Contains
  <2> QED
    BY <2>1 DEF FailureIsAlerted
<1> QED
  BY <1>1, AttemptInvariant, PTL

(* A reading that is not OK is stored after its alerts have been raised.    *)
THEOREM OutageIsAlertedHolds == Spec => []OutageIsAlerted
<1>1. AttemptInv => OutageIsAlerted
  BY DEF AttemptInv, DebtInv, OutageIsAlerted, Owed
<1> QED
  BY <1>1, AttemptInvariant, PTL

-----------------------------------------------------------------------------
(* An execution ends.                                                       *)

(* How far the head of the plan is: an alert is stored, posted and logged.  *)
Raised(k) == IF k \notin Kinds THEN 0
             ELSE IF alert[k] = "OPEN" THEN 1
             ELSE IF alert[k] \in {"posted", "unposted"} THEN 2
             ELSE 0

EffectsLeft == IF plan = <<>> THEN 0 ELSE 3 * Len(plan) - Raised(Head(plan))

RetriesLeft == MaxRetries - Len(answers)

(* A bound on the steps that are left: three for each answer still to come  *)
(* and three for each of the at most six entries of a plan.                 *)
Remaining ==
    (IF expired THEN 0 ELSE 1)
    + (CASE pc \in {"done", "dead"} -> 0
         [] pc = "effects" -> 1 + EffectsLeft
         [] pc = "report"  -> 20
         [] pc = "attempt" -> 21 + 3 * RetriesLeft
         [] pc = "waiting" -> 22 + 3 * RetriesLeft
         [] pc = "backoff" -> 23 + 3 * RetriesLeft
         [] pc = "lookup"  -> 22 + 3 * MaxRetries)

Distinct(s) == \A i, j \in 1 .. Len(s) : s[i] = s[j] => i = j

(* No alert is planned twice; the head of the plan may be half raised, the  *)
(* others are not raised yet.                                               *)
PlanInv ==
    /\ Distinct(plan)
    /\ Len(plan) <= 6
    /\ plan # <<>> =>
          /\ \A k \in Kinds : Contains(Tail(plan), k) => alert[k] = "none"
          /\ Head(plan) \in Kinds => alert[Head(plan)] \in {"none", "OPEN", "posted", "unposted"}

(* Whatever an execution waits for can come: the vendor has an answer, the  *)
(* loop a last one, and the head of the plan a next step.                   *)
GoesOn ==
    /\ Possible # {}
    /\ pc = "report" => answers # <<>>
    /\ pc = "effects" /\ plan # <<>> =>
          \/ Head(plan) \in Saves
          \/ \E k \in Kinds, s \in {"none", "OPEN", "posted", "unposted"} : Raising(k, s)

LEMMA ConcatDistinct ==
    ASSUME NEW S, NEW s \in Seq(S), NEW t \in Seq(S), Distinct(s), Distinct(t),
           \A k : ~(Contains(s, k) /\ Contains(t, k))
    PROVE  Distinct(s \o t) /\ Len(s \o t) = Len(s) + Len(t)
<1>1. /\ Len(s) \in Nat /\ Len(t) \in Nat /\ Len(s \o t) = Len(s) + Len(t)
      /\ \A i \in 1 .. Len(s) : (s \o t)[i] = s[i]
      /\ \A i \in 1 .. Len(t) : (s \o t)[Len(s) + i] = t[i]
  OBVIOUS
<1>2. ASSUME NEW i \in 1 .. Len(s \o t)
      PROVE  \/ i \in 1 .. Len(s) /\ (s \o t)[i] = s[i]
             \/ i - Len(s) \in 1 .. Len(t) /\ (s \o t)[i] = t[i - Len(s)]
  <2>1. CASE i <= Len(s)
    BY <1>1, <2>1
  <2>2. CASE i > Len(s)
    <3>1. i - Len(s) \in 1 .. Len(t) /\ Len(s) + (i - Len(s)) = i
      BY <1>1, <2>2
    <3> QED
      BY <1>1, <3>1
  <2> QED
    BY <1>1, <2>1, <2>2
<1>3. ASSUME NEW i \in 1 .. Len(s \o t), NEW j \in 1 .. Len(s \o t), (s \o t)[i] = (s \o t)[j]
      PROVE  i = j
  <2>1. CASE i \in 1 .. Len(s) /\ (s \o t)[i] = s[i] /\ j \in 1 .. Len(s) /\ (s \o t)[j] = s[j]
    BY <1>3, <2>1 DEF Distinct
  <2>2. CASE /\ i - Len(s) \in 1 .. Len(t) /\ (s \o t)[i] = t[i - Len(s)]
             /\ j - Len(s) \in 1 .. Len(t) /\ (s \o t)[j] = t[j - Len(s)]
    <3>1. i - Len(s) = j - Len(s)
      BY <1>3, <2>2 DEF Distinct
    <3> QED
      BY <1>1, <3>1
  <2>3. CASE /\ i \in 1 .. Len(s) /\ (s \o t)[i] = s[i]
             /\ j - Len(s) \in 1 .. Len(t) /\ (s \o t)[j] = t[j - Len(s)]
    BY <1>3, <2>3 DEF Contains
  <2>4. CASE /\ j \in 1 .. Len(s) /\ (s \o t)[j] = s[j]
             /\ i - Len(s) \in 1 .. Len(t) /\ (s \o t)[i] = t[i - Len(s)]
    BY <1>3, <2>4 DEF Contains
  <2> QED
    BY <1>2, <2>1, <2>2, <2>3, <2>4
<1> QED
  BY <1>1, <1>3 DEF Distinct

LEMMA WhenDistinct == ASSUME NEW b, NEW s PROVE Distinct(When(b, s)) /\ Len(When(b, s)) <= 1
  BY DEF Distinct, When

LEMMA FailurePlanShort ==
    ASSUME NEW a
    PROVE  Distinct(FailurePlan(a)) /\ Len(FailurePlan(a)) <= 6
<1> DEFINE verdict == IF retryCount >= MaxRetries THEN "RETRY_EXHAUSTED" ELSE "API_FAILURE"
           first   == When(type = "HEARTBEAT" /\ a.http = 429, "VENDOR_THROTTLING")
           rest    == <<"response", verdict>>
           S == Kinds \cup Saves
<1>1. verdict \in {"RETRY_EXHAUSTED", "API_FAILURE"}
  OBVIOUS
<1> HIDE DEF verdict
<1>2. first \in Seq(S) /\ rest \in Seq(S)
  BY <1>1, WhenType DEF Kinds, Saves
<1>3. Distinct(rest) /\ Len(rest) = 2 /\ ~Contains(rest, "VENDOR_THROTTLING")
  BY <1>1 DEF Distinct, Contains
<1>4. Distinct(first) /\ Len(first) <= 1
  BY WhenDistinct
<1>5. \A k : Contains(first, k) => k = "VENDOR_THROTTLING"
  BY WhenContains
<1>6. FailurePlan(a) = first \o rest
  BY DEF FailurePlan, verdict
<1> HIDE DEF first, rest, S
<1>7. Distinct(first \o rest) /\ Len(first \o rest) = Len(first) + Len(rest)
  BY <1>2, <1>3, <1>4, <1>5, ConcatDistinct
<1>8. Len(first) \in Nat
  BY <1>2
<1> QED
  BY <1>3, <1>4, <1>6, <1>7, <1>8

(* A part of a plan: at most n different entries, all of A.                 *)
Part(s, A, n) ==
    /\ s \in Seq(Kinds \cup Saves)
    /\ Distinct(s)
    /\ Len(s) <= n
    /\ \A k : Contains(s, k) => k \in A

LEMMA WhenPart ==
    ASSUME NEW b, NEW k \in Kinds \cup Saves
    PROVE  Part(When(b, k), {k}, 1)
<1>1. When(b, k) \in Seq(Kinds \cup Saves)
  BY WhenType
<1> QED
  BY <1>1, WhenDistinct, WhenContains DEF Part

LEMMA OnePart == ASSUME NEW k \in Kinds \cup Saves PROVE Part(<<k>>, {k}, 1)
  BY DEF Part, Distinct, Contains

(* Two parts of a plan that have nothing in common.                         *)
LEMMA PartsJoin ==
    ASSUME NEW s, NEW t, NEW A, NEW B, NEW m \in Nat, NEW n \in Nat,
           Part(s, A, m), Part(t, B, n), A \cap B = {}
    PROVE  Part(s \o t, A \cup B, m + n)
<1>0. s \in Seq(Kinds \cup Saves) /\ t \in Seq(Kinds \cup Saves)
  BY DEF Part
<1>1. Distinct(s \o t) /\ Len(s \o t) = Len(s) + Len(t)
  <2>1. Distinct(s) /\ Distinct(t) /\ \A k : ~(Contains(s, k) /\ Contains(t, k))
    BY DEF Part
  <2> QED
    BY <1>0, <2>1, ConcatDistinct
<1>2. \A k : Contains(s \o t, k) => k \in A \cup B
  BY <1>0, ConcatContains DEF Part
<1>3. Len(s) \in Nat /\ Len(t) \in Nat /\ Len(s) <= m /\ Len(t) <= n
  BY <1>0 DEF Part
<1>4. s \o t \in Seq(Kinds \cup Saves)
  BY <1>0
<1> QED
  BY <1>1, <1>2, <1>3, <1>4 DEF Part

LEMMA SuccessPlanShort ==
    ASSUME NEW a, NEW slow
    PROVE  Distinct(SuccessPlan(a, slow)) /\ Len(SuccessPlan(a, slow)) <= 6
<1> DEFINE latency == When(slow /\ type # "STREAMS", "HIGH_LATENCY")
           failure == When(numbered /\ Reading(a) # "OK", "HEARTBEAT_FAILURE")
           inc == When(numbered /\ "INCOMING_DOWN" \in Down(a), "INCOMING_DOWN")
           out == When(numbered /\ "OUTGOING_DOWN" \in Down(a), "OUTGOING_DOWN")
           data == When(HasData(a), "metrics")
           rate == When(HasData(a) /\ a.body = "down", "THRESHOLD")
           response == <<"response">>
           metrics == <<"metrics">>
<1>1. \A k \in {"response", "metrics", "HIGH_LATENCY", "HEARTBEAT_FAILURE", "INCOMING_DOWN",
                "OUTGOING_DOWN", "THRESHOLD"} : k \in Kinds \cup Saves
  BY DEF Kinds, Saves
<1>2. /\ Part(latency, {"HIGH_LATENCY"}, 1) /\ Part(failure, {"HEARTBEAT_FAILURE"}, 1)
      /\ Part(inc, {"INCOMING_DOWN"}, 1) /\ Part(out, {"OUTGOING_DOWN"}, 1)
      /\ Part(data, {"metrics"}, 1) /\ Part(rate, {"THRESHOLD"}, 1)
  BY <1>1, WhenPart
<1>3. Part(response, {"response"}, 1) /\ Part(metrics, {"metrics"}, 1)
  BY <1>1, OnePart
<1>4. SuccessPlan(a, slow) =
          response \o latency \o IF type = "HEARTBEAT" THEN failure \o inc \o out \o metrics
                                                       ELSE data \o rate
  BY DEF SuccessPlan
<1> HIDE DEF latency, failure, inc, out, data, rate, response, metrics
<1> DEFINE F == {"response"} \cup {"HIGH_LATENCY"}
           G == {"HEARTBEAT_FAILURE"} \cup {"INCOMING_DOWN"}
           H == G \cup {"OUTGOING_DOWN"}
           I == H \cup {"metrics"}
           J == {"metrics"} \cup {"THRESHOLD"}
<1>5. Part(response \o latency, F, 1 + 1)
  BY <1>2, <1>3, PartsJoin
<1>6. Part(failure \o inc, G, 1 + 1)
  BY <1>2, PartsJoin
<1>7. Part((failure \o inc) \o out, H, (1 + 1) + 1)
  <2>1. G \cap {"OUTGOING_DOWN"} = {} /\ 1 + 1 \in Nat
    OBVIOUS
  <2> HIDE DEF G
  <2> QED
    BY <1>2, <1>6, <2>1, PartsJoin
<1>8. Part(((failure \o inc) \o out) \o metrics, I, ((1 + 1) + 1) + 1)
  <2>1. H \cap {"metrics"} = {} /\ (1 + 1) + 1 \in Nat
    OBVIOUS
  <2> HIDE DEF H
  <2> QED
    BY <1>3, <1>7, <2>1, PartsJoin
<1>9. Part(data \o rate, J, 1 + 1)
  BY <1>2, PartsJoin
<1>10. F \cap I = {} /\ F \cap J = {} /\ 1 + 1 \in Nat /\ ((1 + 1) + 1) + 1 \in Nat
  OBVIOUS
<1> HIDE DEF F, I, J
<1>11. Part((response \o latency) \o (((failure \o inc) \o out) \o metrics), F \cup I,
            (1 + 1) + (((1 + 1) + 1) + 1))
  BY <1>5, <1>8, <1>10, PartsJoin
<1>12. Part((response \o latency) \o (data \o rate), F \cup J, (1 + 1) + (1 + 1))
  BY <1>5, <1>9, <1>10, PartsJoin
<1>13. CASE type = "HEARTBEAT"
  BY <1>4, <1>11, <1>13 DEF Part
<1>14. CASE type # "HEARTBEAT"
  <2>1. SuccessPlan(a, slow) = (response \o latency) \o (data \o rate)
    BY <1>4, <1>14
  <2>2. Distinct(SuccessPlan(a, slow)) /\ Len(SuccessPlan(a, slow)) <= 4
    BY <1>12, <2>1 DEF Part
  <2>3. Len(SuccessPlan(a, slow)) \in Nat
    BY <1>12, <2>1 DEF Part
  <2> QED
    BY <2>2, <2>3
<1> QED
  BY <1>13, <1>14

LEMMA PlanInit == ASSUME Init PROVE PlanInv
  BY DEF Init, PlanInv, Distinct

(* The first entry of a plan is not in the rest of it.                      *)
LEMMA TailDistinct ==
    ASSUME NEW S, NEW s \in Seq(S), s # <<>>, Distinct(s)
    PROVE  /\ Distinct(Tail(s)) /\ Len(Tail(s)) = Len(s) - 1
           /\ ~Contains(Tail(s), Head(s))
           /\ Tail(s) # <<>> => Contains(Tail(s), Head(Tail(s)))
           /\ Tail(s) # <<>> => \A k : Contains(Tail(Tail(s)), k) => Contains(Tail(s), k)
<1> DEFINE t == Tail(s)
<1>1. /\ Len(s) \in Nat \ {0} /\ Len(t) = Len(s) - 1 /\ Head(s) = s[1]
      /\ \A i \in 1 .. Len(s) - 1 : t[i] = s[i + 1]
  OBVIOUS
<1>2. t \in Seq(S) /\ (t # <<>> => Len(t) \in Nat \ {0} /\ Head(t) = t[1])
  <2>1. t \in Seq(S)
    OBVIOUS
  <2> HIDE DEF t
  <2> QED
    BY <2>1
<1>3. t # <<>> => \A k : Contains(Tail(t), k) => Contains(t, k)
  BY <1>2, TailPlan
<1> HIDE DEF t
<1>4. Distinct(t)
  <2>1. ASSUME NEW i \in 1 .. Len(t), NEW j \in 1 .. Len(t), t[i] = t[j] PROVE i = j
    <3>1. i + 1 \in 1 .. Len(s) /\ j + 1 \in 1 .. Len(s) /\ s[i + 1] = s[j + 1]
      BY <1>1, <2>1
    <3>2. i + 1 = j + 1
      BY <3>1 DEF Distinct
    <3> QED
      BY <3>2
  <2> QED
    BY <2>1 DEF Distinct
<1>5. ~Contains(t, Head(s))
  <2>1. ASSUME NEW i \in 1 .. Len(t), t[i] = Head(s) PROVE FALSE
    <3>1. i + 1 \in 1 .. Len(s) /\ 1 \in 1 .. Len(s) /\ s[i + 1] = s[1]
      BY <1>1, <2>1
    <3>2. i + 1 = 1
      BY <3>1 DEF Distinct
    <3> QED
      BY <3>2
  <2> QED
    BY <2>1 DEF Contains
<1>6. t # <<>> => Contains(t, Head(t))
  BY <1>1, <1>2 DEF Contains
<1> QED
  BY <1>1, <1>3, <1>4, <1>5, <1>6 DEF t

(* The head of the plan is done, and nothing but its alert has changed.     *)
LEMMA PlanPops ==
    ASSUME PlanInv, TypeOK, plan # <<>>, plan' = Tail(plan),
           \A k \in Kinds : k # Head(plan) => alert'[k] = alert[k]
    PROVE  PlanInv'
<1>1. /\ plan \in Seq(Kinds \cup Saves) /\ Len(plan) \in Nat /\ Distinct(plan)
      /\ Tail(plan) \in Seq(Kinds \cup Saves)
  BY DEF TypeOK, PlanInv
<1> DEFINE t == Tail(plan)
<1>2. /\ Distinct(t) /\ Len(t) = Len(plan) - 1
      /\ ~Contains(t, Head(plan))
      /\ t # <<>> => Contains(t, Head(t))
      /\ t # <<>> => \A k : Contains(Tail(t), k) => Contains(t, k)
  BY <1>1, TailDistinct
<1>3. \A k \in Kinds : Contains(t, k) => alert[k] = "none"
  BY DEF PlanInv
<1> HIDE DEF t
<1>4. \A k \in Kinds : Contains(t, k) => alert'[k] = "none"
  BY <1>2, <1>3
<1>5. plan' = t /\ Len(t) <= 6
  BY <1>1, <1>2 DEF t, PlanInv
<1> QED
  BY <1>2, <1>4, <1>5 DEF PlanInv, Distinct

LEMMA PlanNext == ASSUME TypeOK, AlertInv, PlanInv, [Next]_vars PROVE PlanInv'
<1>1. ASSUME UNCHANGED <<plan, alert>> PROVE PlanInv'
  BY <1>1 DEF PlanInv, Distinct, Contains
<1>2. CASE Report
  <2>1. /\ Distinct(plan') /\ Len(plan') <= 6
    BY <1>2, FailurePlanShort, SuccessPlanShort DEF Report
  <2>2. \A k \in Kinds : alert'[k] = "none"
    BY <1>2 DEF Report, AlertInv, rows
  <2> QED
    BY <2>1, <2>2 DEF PlanInv, Distinct
<1>3. CASE Save
  BY <1>3, PlanPops DEF Save
<1>4. ASSUME NEW k \in Kinds, CreateAlert(k) \/ SendSlackAlert(k) \/ LogDispatch(k)
      PROVE  PlanInv'
  <2>1. /\ plan # <<>> /\ Head(plan) = k /\ alert[k] \in {"none", "OPEN", "posted", "unposted"}
        /\ \A l \in Kinds : l # k => alert'[l] = alert[l]
        /\ \/ plan' = Tail(plan)
           \/ plan' = plan /\ alert'[k] \in {"OPEN", "posted", "unposted"}
    BY <1>4 DEF CreateAlert, SendSlackAlert, LogDispatch, Raising, TypeOK
  <2>2. CASE plan' = Tail(plan)
    BY <2>1, <2>2, PlanPops
  <2>3. CASE plan' = plan /\ alert'[k] \in {"OPEN", "posted", "unposted"}
    <3>1. ~Contains(Tail(plan), k)
      BY <2>1, TailDistinct DEF PlanInv, TypeOK
    <3>2. \A l : Contains(Tail(plan), l)' <=> Contains(Tail(plan), l)
      BY <2>3 DEF Contains
    <3>3. \A l \in Kinds : Contains(Tail(plan), l)' => alert'[l] = "none"
      BY <2>1, <3>1, <3>2 DEF PlanInv
    <3>4. Distinct(plan)'
      BY <2>3 DEF PlanInv, Distinct
    <3> QED
      BY <2>1, <2>3, <3>3, <3>4 DEF PlanInv
  <2> QED
    BY <2>1, <2>2, <2>3
<1> QED
  BY <1>1, <1>2, <1>3, <1>4 DEF Next, Step, Lookup, Attempt, BackOff, Wake, UpdateTransaction,
     Deadline, Crash, vars, rows

LEMMA EffectsLeftType == ASSUME TypeOK, PlanInv PROVE EffectsLeft \in 0 .. 18
<1>1. plan \in Seq(Kinds \cup Saves) /\ Len(plan) \in Nat /\ Len(plan) <= 6
  BY DEF TypeOK, PlanInv
<1>2. plan # <<>> => Len(plan) >= 1
  BY <1>1
<1>3. Raised(Head(plan)) \in 0 .. 2
  BY DEF Raised
<1> QED
  BY SMTT(30), <1>1, <1>2, <1>3 DEF EffectsLeft

(* The bound holds from the start ...                                       *)
LEMMA RemainingType ==
    ASSUME TypeOK, RetryInv, AlertInv, PlanInv
    PROVE  Remaining \in 0 .. 3 * MaxRetries + 23
<1>1. MaxRetries \in Nat /\ Len(answers) \in Nat /\ EffectsLeft \in 0 .. 18
  BY AttemptAssumption, EffectsLeftType DEF AttemptAssumption, RetryInv
<1>2. pc \in {"attempt", "waiting", "backoff"} => RetriesLeft \in 0 .. MaxRetries
  BY <1>1 DEF RetryInv, RetriesLeft
<1>3. pc \in {"waiting", "backoff"} => RetriesLeft <= MaxRetries - 1
  <2>1. pc \in {"waiting", "backoff"} => Len(answers) # 0
    BY DEF AlertInv, RetryInv
  <2> QED
    BY <1>1, <2>1 DEF RetriesLeft
<1> DEFINE due == IF expired THEN 0 ELSE 1
<1>4. due \in 0 .. 1
  OBVIOUS
<1>5. CASE pc \in {"done", "dead"}
  BY <1>1, <1>4, <1>5 DEF Remaining
<1>6. CASE pc = "effects"
  <2>1. Remaining = due + (1 + EffectsLeft)
    BY <1>6 DEF Remaining
  <2> HIDE DEF due
  <2> QED
    BY <1>1, <1>4, <2>1
<1>7. CASE pc \in {"lookup", "report"}
  BY <1>1, <1>4, <1>7 DEF Remaining
<1>8. CASE pc = "attempt"
  BY <1>1, <1>2, <1>4, <1>8 DEF Remaining
<1>9. CASE pc \in {"waiting", "backoff"}
  BY <1>1, <1>2, <1>3, <1>4, <1>9 DEF Remaining
<1> QED
  BY <1>5, <1>6, <1>7, <1>8, <1>9 DEF TypeOK

(* ... and each step uses one of it up.                                     *)
LEMMA RemainingNext ==
    ASSUME TypeOK, RetryInv, AlertInv, PlanInv, TypeOK', RetryInv', PlanInv', Next
    PROVE  Remaining' < Remaining
<1>1. /\ MaxRetries \in Nat /\ Len(answers) \in Nat /\ Len(answers') \in Nat
      /\ EffectsLeft \in 0 .. 18
  BY AttemptAssumption, EffectsLeftType DEF AttemptAssumption, RetryInv
<1> DEFINE due == IF expired THEN 0 ELSE 1
<1>2. due \in 0 .. 1
  OBVIOUS
<1>3. CASE Lookup
  <2>1. Remaining = due + (22 + 3 * MaxRetries) /\ expired' = expired
    BY <1>3 DEF Lookup, Remaining
  <2>2. CASE pc' = "attempt"
    <3>1. PICK n \in Int : n = RetriesLeft' /\ n <= MaxRetries
      BY <1>1 DEF RetriesLeft
    <3>2. Remaining' = due + (21 + 3 * n) /\ n <= MaxRetries
      BY <2>1, <2>2, <3>1 DEF Remaining
    <3> HIDE DEF due
    <3> QED
      BY <1>1, <1>2, <2>1, <3>2
  <2>3. CASE pc' = "effects"
    <3>1. plan' = <<>>
      BY <1>3 DEF Lookup, AlertInv, Looping
    <3>2. Remaining' = due + (1 + 0)
      BY <2>1, <2>3, <3>1 DEF Remaining, EffectsLeft
    <3> HIDE DEF due
    <3> QED
      BY <1>1, <1>2, <2>1, <3>2
  <2> QED
    BY <1>3, <2>2, <2>3 DEF Lookup
<1>4. CASE Attempt
  <2>1. PICK a \in Answer :
           /\ answers' = Append(answers, a)
           /\ pc' = IF Retryable(a) /\ Len(answers) < MaxRetries THEN "backoff" ELSE "report"
    BY <1>4 DEF Attempt, Possible
  <2>2. pc = "attempt" /\ expired' = expired /\ Len(answers') = Len(answers) + 1
    BY <1>4, <2>1 DEF Attempt, RetryInv
  <2>3. Remaining = due + (21 + 3 * RetriesLeft)
    BY <2>2 DEF Remaining
  <2>4. RetriesLeft \in Nat /\ RetriesLeft' = RetriesLeft - 1
    BY <1>1, <2>2 DEF RetriesLeft, RetryInv
  <2>5. Remaining' = due + 20 \/ Remaining' = due + (23 + 3 * RetriesLeft')
    BY <2>1, <2>2 DEF Remaining
  <2> HIDE DEF due
  <2> QED
    BY <1>2, <2>3, <2>4, <2>5
<1>5. CASE BackOff \/ Wake
  <2>1. /\ expired' = expired /\ RetriesLeft' = RetriesLeft /\ RetriesLeft \in Nat
        /\ \/ pc = "backoff" /\ pc' \in {"report", "waiting"}
           \/ pc = "waiting" /\ pc' \in {"report", "attempt"}
    BY <1>1, <1>5 DEF BackOff, Wake, RetriesLeft, RetryInv, calls
  <2>2. \/ Remaining = due + (23 + 3 * RetriesLeft) /\ Remaining' = due + 20
        \/ Remaining = due + (23 + 3 * RetriesLeft) /\ Remaining' = due + (22 + 3 * RetriesLeft)
        \/ Remaining = due + (22 + 3 * RetriesLeft) /\ Remaining' = due + 20
        \/ Remaining = due + (22 + 3 * RetriesLeft) /\ Remaining' = due + (21 + 3 * RetriesLeft)
    BY <2>1 DEF Remaining
  <2> HIDE DEF due
  <2> QED
    BY <1>2, <2>1, <2>2
<1>6. CASE Report
  <2>1. EffectsLeft' \in 0 .. 18
    <3>1. plan' \in Seq(Kinds \cup Saves) /\ Len(plan') \in Nat /\ Len(plan') <= 6
      BY DEF TypeOK, PlanInv
    <3>2. plan' # <<>> => Len(plan') >= 1
      BY <3>1
    <3>3. Raised(Head(plan))' \in 0 .. 2
      BY DEF Raised
    <3> QED
      BY SMTT(30), <3>1, <3>2, <3>3 DEF EffectsLeft
  <2>2. PICK n \in 0 .. 18 : n = EffectsLeft'
    BY <2>1
  <2>3. Remaining = due + 20 /\ Remaining' = due + (1 + n)
    BY <1>6, <2>2 DEF Report, Remaining
  <2> HIDE DEF due
  <2> QED
    BY <1>2, <2>3
<1>7. ASSUME pc = "effects", pc' = "effects", expired' = expired, EffectsLeft' < EffectsLeft,
             EffectsLeft' \in Int
      PROVE  Remaining' < Remaining
  <2>1. PICK n \in Int : n = EffectsLeft'
    BY <1>7
  <2>2. Remaining = due + (1 + EffectsLeft) /\ Remaining' = due + (1 + n)
    BY <1>7, <2>1 DEF Remaining
  <2>3. n < EffectsLeft
    BY <1>7, <2>1
  <2> HIDE DEF due
  <2> QED
    BY <1>1, <1>2, <2>2, <2>3
<1>8. ASSUME plan # <<>>, plan' = Tail(plan)
      PROVE  EffectsLeft' < EffectsLeft /\ EffectsLeft' \in Int
  <2>1. plan \in Seq(Kinds \cup Saves) /\ Len(plan) \in Nat \ {0} /\ Len(plan') = Len(plan) - 1
    BY <1>8 DEF TypeOK
  <2>2. Raised(Head(plan)) \in 0 .. 2 /\ Raised(Head(plan))' \in 0 .. 2
    BY DEF Raised
  <2>3. EffectsLeft = 3 * Len(plan) - Raised(Head(plan))
    BY <1>8 DEF EffectsLeft
  <2>4. EffectsLeft' = 0 \/ EffectsLeft' = 3 * Len(plan') - Raised(Head(plan))'
    BY DEF EffectsLeft
  <2> QED
    BY <2>1, <2>2, <2>3, <2>4
<1>9. CASE Save
  BY <1>7, <1>8, <1>9 DEF Save
<1>10. ASSUME NEW k \in Kinds, CreateAlert(k) \/ SendSlackAlert(k) \/ LogDispatch(k)
       PROVE  Remaining' < Remaining
  <2>1. /\ pc = "effects" /\ pc' = "effects" /\ expired' = expired
        /\ plan # <<>> /\ Head(plan) = k
        /\ \/ plan' = Tail(plan)
           \/ plan' = plan /\ alert[k] = "none" /\ alert'[k] = "OPEN"
           \/ plan' = plan /\ alert[k] = "OPEN" /\ alert'[k] \in {"posted", "unposted"}
    BY <1>10 DEF CreateAlert, SendSlackAlert, LogDispatch, Raising, TypeOK
  <2>2. CASE plan' = Tail(plan)
    BY <1>7, <1>8, <2>1, <2>2
  <2>3. CASE plan' = plan /\ \/ alert[k] = "none" /\ alert'[k] = "OPEN"
                             \/ alert[k] = "OPEN" /\ alert'[k] \in {"posted", "unposted"}
    <3>1. Len(plan) \in Nat
      BY DEF TypeOK
    <3>2. EffectsLeft = 3 * Len(plan) - Raised(k) /\ EffectsLeft' = 3 * Len(plan) - Raised(k)'
      BY <2>1, <2>3 DEF EffectsLeft, Raised
    <3>3. Raised(k)' = Raised(k) + 1 /\ Raised(k) \in 0 .. 2
      BY <2>3 DEF Raised
    <3>4. EffectsLeft' < EffectsLeft /\ EffectsLeft' \in Int
      BY <3>1, <3>2, <3>3
    <3> QED
      BY <1>7, <2>1, <3>4
  <2> QED
    BY <2>1, <2>2, <2>3
<1>11. CASE UpdateTransaction
  <2>1. Remaining = due + (1 + EffectsLeft) /\ Remaining' = due + 0
    BY <1>11 DEF UpdateTransaction, Remaining
  <2> HIDE DEF due
  <2> QED
    BY <1>1, <1>2, <2>1
<1> DEFINE left == CASE pc \in {"done", "dead"} -> 0
                     [] pc = "effects" -> 1 + EffectsLeft
                     [] pc = "report"  -> 20
                     [] pc = "attempt" -> 21 + 3 * RetriesLeft
                     [] pc = "waiting" -> 22 + 3 * RetriesLeft
                     [] pc = "backoff" -> 23 + 3 * RetriesLeft
                     [] pc = "lookup"  -> 22 + 3 * MaxRetries
<1>12. CASE Deadline
  <2>1. /\ ~expired /\ expired' /\ pc' = pc /\ RetriesLeft' = RetriesLeft
        /\ pc \in {"attempt", "backoff", "waiting"}
    BY <1>12 DEF Deadline, calls, RetriesLeft
  <2>2. Remaining = 1 + left /\ Remaining' = 0 + left
    BY <2>1 DEF Remaining
  <2>3. left \in Int
    <3>1. RetriesLeft \in Int
      BY <1>1 DEF RetriesLeft
    <3> QED
      BY <2>1, <3>1
  <2> HIDE DEF left
  <2> QED
    BY <2>2, <2>3
<1>13. CASE Crash
  <2>1. expired' = expired /\ pc' = "dead" /\ pc \notin {"done", "dead"}
    BY <1>13 DEF Crash
  <2>2. Remaining = due + left /\ Remaining' = due + 0
    BY <2>1 DEF Remaining
  <2>3. left \in Nat \ {0}
    <3>1. pc \in {"attempt", "backoff", "waiting"} => RetriesLeft \in Nat
      BY <1>1 DEF RetriesLeft, RetryInv
    <3>2. CASE pc \in {"attempt", "backoff", "waiting"}
      <4>1. left \in {21 + 3 * RetriesLeft, 22 + 3 * RetriesLeft, 23 + 3 * RetriesLeft}
        BY <3>2
      <4> HIDE DEF left
      <4> QED
        BY <3>1, <3>2, <4>1
    <3>3. CASE pc = "effects"
      <4>1. left = 1 + EffectsLeft
        BY <3>3
      <4> HIDE DEF left
      <4> QED
        BY <1>1, <4>1
    <3>4. CASE pc \in {"lookup", "report"}
      <4>1. left \in {20, 22 + 3 * MaxRetries}
        BY <3>4
      <4> HIDE DEF left
      <4> QED
        BY <1>1, <4>1
    <3> QED
      BY <2>1, <3>2, <3>3, <3>4 DEF TypeOK
  <2> HIDE DEF left, due
  <2> QED
    BY <1>2, <2>2, <2>3
<1> QED
  BY <1>3, <1>4, <1>5, <1>6, <1>9, <1>10, <1>11, <1>12, <1>13 DEF Next, Step

(* ExecutionEnds needs no more than that the goroutine is scheduled: every  *)
(* step, a passing deadline and a crash included, uses up one of at most    *)
(* 3 * MaxRetries + 23, whatever the vendor, the database and Slack answer, *)
(* and an execution that has not ended has a next step.                     *)
THEOREM ExecutionRunsOut ==
    Spec => /\ [](Remaining \in 0 .. 3 * MaxRetries + 23)
            /\ []GoesOn
            /\ [][Remaining' < Remaining]_vars
<1>1. Init => PlanInv
  BY PlanInit
<1>2. AttemptInv /\ PlanInv /\ [Next]_vars => PlanInv'
  BY PlanNext DEF AttemptInv
<1>3. AttemptInv /\ PlanInv => Remaining \in 0 .. 3 * MaxRetries + 23
  BY RemainingType DEF AttemptInv
<1>4. AttemptInv /\ PlanInv => GoesOn
  <2> SUFFICES ASSUME AttemptInv, PlanInv PROVE GoesOn
    OBVIOUS
  <2>1. Possible # {}
    <3>1. [http |-> 0, body |-> "bad"] \in Possible
      BY DEF Possible, Answer, Codes, Bodies
    <3> QED
      BY <3>1
  <2>2. pc = "report" => answers # <<>>
    BY DEF AttemptInv, AlertInv
  <2>3. ASSUME pc = "effects", plan # <<>>
        PROVE  \/ Head(plan) \in Saves
               \/ \E k \in Kinds, s \in {"none", "OPEN", "posted", "unposted"} : Raising(k, s)
    <3>1. Head(plan) \in Kinds \cup Saves
      BY <2>3, TailType DEF AttemptInv, TypeOK
    <3> QED
      BY <2>3, <3>1 DEF PlanInv, Raising
  <2> QED
    BY <2>1, <2>2, <2>3 DEF GoesOn
<1>5. /\ AttemptInv /\ PlanInv /\ AttemptInv' /\ PlanInv' /\ [Next]_vars
      => [Remaining' < Remaining]_vars
  BY RemainingNext DEF AttemptInv
<1> QED
  BY <1>1, <1>2, <1>3, <1>4, <1>5, AttemptInvariant, PTL DEF Spec
=============================================================================
