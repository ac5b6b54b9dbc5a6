----------------------------- MODULE JobAttempt -----------------------------
(***************************************************************************)
(* One execution of a job from the account lookup to its final status: the *)
(* retry loop (internal/utils/retry.go), what each kind of job makes of    *)
(* the vendor's answers (executeHeartbeat, executeCalls and executeStreams *)
(* in internal/workers/job_worker.go, with internal/exotel), and the       *)
(* alerts it stores and dispatches on the way (internal/alerts).           *)
(*                                                                         *)
(* JobScheduler shows all this as one action, CallApi; what a CALLS job    *)
(* adds to the row of the day is CallPipeline.                             *)
(***************************************************************************)
EXTENDS Naturals, Sequences

CONSTANTS
    Types,          \* the kinds of job that are executed
    MaxRetries,     \* retry_policy.max_retries
    SlackOn,        \* slack.enabled, and a webhook URL
    Faults          \* the failures that occur

ASSUME AttemptAssumption ==
    /\ Types \subseteq {"HEARTBEAT", "CALLS", "STREAMS"}
    /\ MaxRetries \in Nat
    /\ SlackOn \in BOOLEAN
    /\ Faults \subseteq {"crash", "db", "slack", "account"}

VARIABLES
    type,           \* monitoring_jobs.job_type
    pc,             \* how far the execution is
    numbered,       \* was the number of the exophone found
    expired,        \* has the deadline of the job passed
    answers,        \* history: what the vendor answered, call by call
    late,           \* history: calls made after the deadline
    retryCount,
    status,         \* finalStatus
    plan,           \* what is still to be stored and raised
    stored,         \* http_status of the rows of job_responses
    recorded,       \* the reading in heartbeat_metrics, or data of the others
    alert,          \* the alerts of this execution and their dispatch
    txn             \* job_transactions.status

calls == <<answers, late, retryCount>>
rows  == <<stored, recorded, alert, txn>>
vars  == <<type, pc, numbered, expired, calls, status, plan, rows>>

-----------------------------------------------------------------------------
(* Answers.  A transport error is http 0; 401 stands for 403 too, 400 for  *)
(* every 4xx not listed and 500 for every 5xx.  A body tells the           *)
(* connectivity of the number or, for the other kinds of job, whether a    *)
(* rate crosses its alert threshold ("down").                              *)
Codes  == {0, 200, 400, 401, 404, 429, 500}
Bodies == {"up", "in", "out", "down", "bad"}

Answer == [http : Codes, body : Bodies]

Possible == {a \in Answer :
                /\ a.http # 200 => a.body = "bad"
                /\ a.http = 200 /\ type # "HEARTBEAT" => a.body \notin {"in", "out"}
                /\ a.http = 200 /\ ~numbered /\ type = "HEARTBEAT" => a.body = "up"}

Last == answers[Len(answers)]

(* The closures: an answer is retried, gives up, or is taken for success.  *)
Retryable(a) == \/ a.http \in {0, 500}
                \/ type = "CALLS" /\ a.http = 200 /\ a.body = "bad"
GivesUp(a)   == a.http = 429 \/ (type = "CALLS" /\ a.http = 401)
Fails(a)     == Retryable(a) \/ GivesUp(a)

(* FetchHeartbeat.  Down is the set of directions in the affected lists.   *)
BothDown(a) == \/ a.http = 200 /\ a.body = "down"
               \/ a.http = 404 /\ numbered

Down(a) == {k \in {"INCOMING_DOWN", "OUTGOING_DOWN"} :
               \/ BothDown(a)
               \/ a.http = 200 /\ a.body = (IF k = "INCOMING_DOWN" THEN "in" ELSE "out")}

Reading(a) == IF BothDown(a) \/ a.http = 401 THEN "OUTAGE"
              ELSE IF Down(a) # {} THEN "DEGRADED" ELSE "OK"

(* Is there a parsed response; a heartbeat always makes one up.            *)
HasData(a) == \/ type = "HEARTBEAT"
              \/ a.http = 200 /\ a.body # "bad"

-----------------------------------------------------------------------------
Kinds == {"VENDOR_THROTTLING", "RETRY_EXHAUSTED", "API_FAILURE", "HIGH_LATENCY",
          "HEARTBEAT_FAILURE", "INCOMING_DOWN", "OUTGOING_DOWN", "THRESHOLD"}

Saves == {"response", "metrics"}

When(b, effect) == IF b THEN <<effect>> ELSE <<>>

(* Variant: an alert is raised for exhausted retries only.                  *)
FailurePlanExhaustedOnly(a) ==
    When(type = "HEARTBEAT" /\ a.http = 429, "VENDOR_THROTTLING")
        \o <<"response">> \o When(retryCount >= MaxRetries, "RETRY_EXHAUSTED")

(* What a failed execution stores and raises, in its order.                *)
FailurePlan(a) ==
    When(type = "HEARTBEAT" /\ a.http = 429, "VENDOR_THROTTLING")
        \o <<"response",
             IF retryCount >= MaxRetries THEN "RETRY_EXHAUSTED" ELSE "API_FAILURE">>

(* Variant: the affected lists raise alerts on their own only for an outage. *)
SuccessPlanQuiet(a, slow) ==
    <<"response">> \o When(slow /\ type # "STREAMS", "HIGH_LATENCY")
        \o When(type = "HEARTBEAT" /\ numbered /\ Reading(a) = "OUTAGE", "HEARTBEAT_FAILURE")
        \o When(HasData(a), "metrics")

(* What a successful execution does; without a parsed response, nothing    *)
(* but the row of job_responses.                                           *)
SuccessPlan(a, slow) ==
    <<"response">> \o When(slow /\ type # "STREAMS", "HIGH_LATENCY")
        \o IF type = "HEARTBEAT"
              THEN When(numbered /\ Reading(a) # "OK", "HEARTBEAT_FAILURE")
                       \o When(numbered /\ "INCOMING_DOWN" \in Down(a), "INCOMING_DOWN")
                       \o When(numbered /\ "OUTGOING_DOWN" \in Down(a), "OUTGOING_DOWN")
                       \o <<"metrics">>
              ELSE When(HasData(a), "metrics")
                       \o When(HasData(a) /\ a.body = "down", "THRESHOLD")

-----------------------------------------------------------------------------
Init ==
    /\ type \in Types
    /\ pc = "lookup"
    /\ numbered = TRUE
    /\ expired = FALSE
    /\ answers = <<>>
    /\ late = 0
    /\ retryCount = 0
    /\ status = "SUCCESS"
    /\ plan = <<>>
    /\ stored = {}
    /\ recorded = "none"
    /\ alert = [k \in Kinds |-> "none"]
    /\ txn = "RUNNING"

(* GetAccountByID, whose failure ends the execution at once, and           *)
(* GetExophoneByID, whose failure leaves the number empty.                 *)
Lookup ==
    /\ pc = "lookup"
    /\ \/ /\ pc' = "attempt"
          /\ numbered' \in {TRUE} \cup {n \in {FALSE} : "db" \in Faults}
          /\ UNCHANGED status
       \/ /\ Faults \cap {"account", "db"} # {}
          /\ pc' = "effects"
          /\ status' = "FAILED"
          /\ UNCHANGED numbered
    /\ UNCHANGED <<type, expired, calls, plan, rows>>

(* context.WithTimeout.                                                    *)
Deadline ==
    /\ pc \in {"attempt", "backoff", "waiting"}
    /\ ~expired
    /\ expired' = TRUE
    /\ UNCHANGED <<type, pc, numbered, calls, status, plan, rows>>

(* Variant: a rate limit is retried like a server error.                    *)
AttemptAgainOn429 ==
    /\ pc = "attempt"
    /\ \E a \in Possible :
          /\ answers' = Append(answers, a)
          /\ retryCount' = IF Retryable(a) THEN retryCount + 1 ELSE retryCount
          /\ pc' = IF Fails(a) /\ Len(answers) < MaxRetries THEN "backoff" ELSE "report"
    /\ late' = IF expired THEN late + 1 ELSE late
    /\ UNCHANGED <<type, numbered, expired, status, plan, rows>>

(* Variant: transport errors are retried but not counted.                   *)
AttemptUncounted ==
    /\ pc = "attempt"
    /\ \E a \in Possible :
          /\ answers' = Append(answers, a)
          /\ retryCount' = IF a.http = 500 THEN retryCount + 1 ELSE retryCount
          /\ pc' = IF Retryable(a) /\ Len(answers) < MaxRetries THEN "backoff" ELSE "report"
    /\ late' = IF expired THEN late + 1 ELSE late
    /\ UNCHANGED <<type, numbered, expired, status, plan, rows>>

(* One call of the vendor, which does not obey the deadline, and the       *)
(* verdict of the closure.                                                 *)
Attempt ==
    /\ pc = "attempt"
    /\ \E a \in Possible :
          /\ answers' = Append(answers, a)
          /\ retryCount' = IF Retryable(a) THEN retryCount + 1 ELSE retryCount
          /\ pc' = IF Retryable(a) /\ Len(answers) < MaxRetries THEN "backoff"
                                                                ELSE "report"
    /\ late' = IF expired THEN late + 1 ELSE late
    /\ UNCHANGED <<type, numbered, expired, status, plan, rows>>

(* Variant: the loop sleeps instead of selecting on the context.            *)
BackOffAsleep ==
    /\ pc = "backoff"
    /\ pc' = "waiting"
    /\ UNCHANGED <<type, numbered, expired, calls, status, plan, rows>>

(* The select: it ends at once when the deadline has passed ...            *)
BackOff ==
    /\ pc = "backoff"
    /\ pc' = IF expired THEN "report" ELSE "waiting"
    /\ UNCHANGED <<type, numbered, expired, calls, status, plan, rows>>

(* ... or when the timer fires or the deadline passes; if both are ready   *)
(* either may win.                                                         *)
Wake ==
    /\ pc = "waiting"
    /\ pc' \in {"attempt"} \cup {s \in {"report"} : expired}
    /\ UNCHANGED <<type, numbered, expired, calls, status, plan, rows>>

(* The loop has ended; its last answer decides.                            *)
Report ==
    /\ pc = "report"
    /\ pc' = "effects"
    /\ IF Fails(Last)
          THEN /\ status' = "FAILED"
               /\ plan' = FailurePlan(Last)
          ELSE /\ \E slow \in BOOLEAN : plan' = SuccessPlan(Last, slow)
               /\ UNCHANGED status
    /\ UNCHANGED <<type, numbered, expired, calls, rows>>

(* A row of job_responses or of the metrics; the error is discarded.       *)
Save ==
    /\ pc = "effects" /\ plan # <<>>
    /\ Head(plan) \in Saves
    /\ plan' = Tail(plan)
    /\ \/ /\ Head(plan) = "response"
          /\ stored' = stored \cup {Last.http}
          /\ UNCHANGED recorded
       \/ /\ Head(plan) = "metrics"
          /\ recorded' = IF type = "HEARTBEAT" THEN Reading(Last) ELSE "data"
          /\ UNCHANGED stored
       \/ /\ "db" \in Faults
          /\ UNCHANGED <<stored, recorded>>
    /\ UNCHANGED <<type, pc, numbered, expired, calls, status, alert, txn>>

-----------------------------------------------------------------------------
(* TriggerAlert.                                                           *)
Raising(k, s) == pc = "effects" /\ plan # <<>> /\ Head(plan) = k /\ alert[k] = s

(* CreateAlert; an alert that cannot be stored is not dispatched.          *)
CreateAlert(k) ==
    /\ Raising(k, "none")
    /\ \/ /\ alert' = [alert EXCEPT ![k] = "OPEN"]
          /\ UNCHANGED plan
       \/ /\ "db" \in Faults
          /\ alert' = [alert EXCEPT ![k] = "refused"]
          /\ plan' = Tail(plan)
    /\ UNCHANGED <<type, pc, numbered, expired, calls, status, stored, recorded, txn>>

(* Variant: a failed post is repeated until Slack takes it.                 *)
SendSlackAlertInsisting(k) ==
    /\ Raising(k, "OPEN")
    /\ alert' = [alert EXCEPT ![k] = IF SlackOn /\ "slack" \in Faults THEN @ ELSE "posted"]
    /\ UNCHANGED <<type, pc, numbered, expired, calls, status, plan, stored, recorded, txn>>

(* SendSlackAlert: any HTTP answer counts as sent, and so does Slack being *)
(* switched off.                                                           *)
SendSlackAlert(k) ==
    /\ Raising(k, "OPEN")
    /\ \E result \in {"posted"} \cup {r \in {"unposted"} : SlackOn /\ "slack" \in Faults} :
          alert' = [alert EXCEPT ![k] = result]
    /\ UNCHANGED <<type, pc, numbered, expired, calls, status, plan, stored, recorded, txn>>

(* CreateDispatchLog; its error is discarded.                              *)
LogDispatch(k) ==
    /\ \/ Raising(k, "posted")
       \/ Raising(k, "unposted")
    /\ plan' = Tail(plan)
    /\ \/ alert' = [alert EXCEPT ![k] = IF @ = "posted" THEN "SENT" ELSE "FAILED"]
       \/ "db" \in Faults /\ UNCHANGED alert
    /\ UNCHANGED <<type, pc, numbered, expired, calls, status, stored, recorded, txn>>

-----------------------------------------------------------------------------
(* Variant: the row says how the last attempt ended, not the execution.     *)
UpdateTransactionRetrying ==
    /\ pc = "effects" /\ plan = <<>>
    /\ pc' = "done"
    /\ txn' = IF status = "FAILED" /\ expired THEN "TIMED OUT" ELSE status
    /\ UNCHANGED <<type, numbered, expired, calls, status, plan, stored, recorded, alert>>

(* UpdateTransactionStatus, when everything before it has been done.       *)
UpdateTransaction ==
    /\ pc = "effects" /\ plan = <<>>
    /\ pc' = "done"
    /\ txn' \in {status} \cup {t \in {"RUNNING"} : "db" \in Faults}
    /\ UNCHANGED <<type, numbered, expired, calls, status, plan, stored, recorded, alert>>

(* The process ends between any two steps.                                 *)
Crash ==
    /\ "crash" \in Faults
    /\ pc \notin {"done", "dead"}
    /\ pc' = "dead"
    /\ UNCHANGED <<type, numbered, expired, calls, status, plan, rows>>

-----------------------------------------------------------------------------
Step ==
    \/ Lookup \/ Attempt \/ BackOff \/ Wake \/ Report \/ Save
    \/ \E k \in Kinds : CreateAlert(k) \/ SendSlackAlert(k) \/ LogDispatch(k)
    \/ UpdateTransaction

Next == Step \/ Deadline \/ Crash

Spec == Init /\ [][Next]_vars

(* The goroutine is scheduled, and the calls it makes have a client        *)
(* timeout (10 s for Slack, exotel.timeout_seconds for the vendor), but    *)
(* for those of the database, which rest on the server or TCP answering.   *)
FairSpec == Spec /\ WF_vars(Step)

-----------------------------------------------------------------------------
TypeOK ==
    /\ type \in Types
    /\ pc \in {"lookup", "attempt", "backoff", "waiting", "report", "effects", "done", "dead"}
    /\ numbered \in BOOLEAN
    /\ expired \in BOOLEAN
    /\ answers \in Seq(Answer)
    /\ late \in Nat
    /\ retryCount \in Nat
    /\ status \in {"SUCCESS", "FAILED"}
    /\ plan \in Seq(Kinds \cup Saves)
    /\ stored \subseteq Codes
    /\ recorded \in {"none", "OK", "DEGRADED", "OUTAGE", "data"}
    /\ alert \in [Kinds -> {"none", "refused", "OPEN", "posted", "unposted", "SENT", "FAILED"}]
    /\ txn \in {"RUNNING", "SUCCESS", "FAILED"}

(* The vendor is not called again after an answer that no retry can mend,  *)
(* nor more than MaxRetries + 1 times.                                     *)
NoFutileCall ==
    /\ Len(answers) <= MaxRetries + 1
    /\ \A i \in 1 .. Len(answers) - 1 : Retryable(answers[i])

(* At most one call is made after the deadline of the job.                 *)
OneLateCall == late <= 1

(* RETRY_EXHAUSTED says that no retry was left or that the deadline cut    *)
(* the last one off, API_FAILURE that one was left, whatever mixture of    *)
(* failures came before.                                                   *)
AlertNamesTheFailure ==
    /\ alert["RETRY_EXHAUSTED"] # "none" => Len(answers) > MaxRetries \/ expired
    /\ alert["API_FAILURE"] # "none" => Len(answers) <= MaxRetries

(* No transaction is marked FAILED for what the vendor answered before an  *)
(* alert says so, unless the database refused the alert.                   *)
FailureIsAlerted ==
    txn = "FAILED" /\ answers # <<>> =>
        alert["RETRY_EXHAUSTED"] # "none" \/ alert["API_FAILURE"] # "none"

(* No reading but OK is stored for a number before the alerts about it     *)
(* are: the failure, and each direction that is down.                      *)
OutageIsAlerted ==
    recorded \in {"DEGRADED", "OUTAGE"} /\ numbered =>
        \A k \in {"HEARTBEAT_FAILURE"} \cup Down(Last) : alert[k] # "none"

(* Every execution ends: no sequence of answers, and neither Slack nor the *)
(* database failing, keeps it and its pool slot busy for ever.             *)
ExecutionEnds == <>(pc \in {"done", "dead"})
=============================================================================
