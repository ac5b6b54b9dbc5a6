----------------------------- MODULE CallsWindow -----------------------------
(***************************************************************************)
(* Which calls the CALLS job of one exophone asks the vendor for: the      *)
(* window an execution derives from last_run_at (executeCalls in           *)
(* internal/workers/job_worker.go), with the copies GetDueJobs hands out   *)
(* and the row AdvanceNextRun rewrites (internal/repository/job_repo.go).  *)
(*                                                                         *)
(* An instant stands for all calls created in it.  Nothing bounds how long *)
(* a copy waits for its slot or how long an execution fetches, and an      *)
(* execution that finds no account asks for nothing: three histories, cut, *)
(* overrun and unasked, record what that costs.                            *)
(***************************************************************************)
EXTENDS Integers

CONSTANTS
    Frequencies,    \* values of frequency_minutes
    Day,            \* length of an IST day
    Overlap,        \* the minute a window reaches back before last_run_at
    Lookback,       \* a window is at most that many times the frequency long
    Runs,           \* bound: executions in flight at once
    Horizon,        \* bound: the last instant
    Faults          \* the failures that occur

ASSUME WindowAssumption ==
    /\ Frequencies \subseteq Nat \ {0}
    /\ Day \in Nat \ {0}
    /\ Overlap \in Nat
    /\ Lookback \in Nat \ {0}
    /\ Horizon \in Nat
    /\ Faults \subseteq {"db", "crash", "account"}

VARIABLES
    now,
    midnight,       \* the last midnight IST
    freq,           \* monitoring_jobs.frequency_minutes
    nextRun,        \* monitoring_jobs.next_run_at
    lastRun,        \* monitoring_jobs.last_run_at
    run,            \* the executions
    asked,          \* history: the instants whose calls were asked for
    cut,            \* history: instants that were too old for their window
    overrun,        \* history: instants between a window and a late AdvanceNextRun
    unasked,        \* history: what an execution without an account had to ask for
    since           \* history: where the first finished execution began

clock == <<now, midnight>>
row   == <<nextRun, lastRun>>
skips == <<cut, overrun, unasked>>
vars  == <<clock, freq, row, run, asked, skips, since>>

-----------------------------------------------------------------------------
Never == -1         \* LastRunAt is nil

Idle == [pc |-> "idle"]

Latest(s, t) == IF s < t THEN t ELSE s

(* Half open: a call of the instant `to` may come after the request.       *)
Instants(from, to) == from .. to - 1

(* Onboarding makes the job due at once, at any time of the day.           *)
Init ==
    /\ now \in 0 .. Day - 1
    /\ midnight = 0
    /\ freq \in Frequencies
    /\ nextRun = now
    /\ lastRun = Never
    /\ run = [x \in Runs |-> Idle]
    /\ asked = {}
    /\ cut = {}
    /\ overrun = {}
    /\ unasked = {}
    /\ since = Never

Tick ==
    /\ now < Horizon
    /\ now' = now + 1
    /\ midnight' = IF now + 1 = midnight + Day THEN now + 1 ELSE midnight
    /\ UNCHANGED <<freq, row, run, asked, skips, since>>

(* UpdatePriority leaves next_run_at alone.                                *)
UpdatePriority(f) ==
    /\ freq' = f
    /\ UNCHANGED <<clock, row, run, asked, skips, since>>

-----------------------------------------------------------------------------
(* GetDueJobs returns a copy of the row; a job that still runs is returned *)
(* again.                                                                  *)
Dispatch(x) ==
    /\ run[x].pc = "idle"
    /\ nextRun <= now
    /\ run' = [run EXCEPT ![x] = [pc |-> "queued", freq |-> freq, due |-> nextRun,
                                  last |-> lastRun, from |-> 0, to |-> 0]]
    /\ UNCHANGED <<clock, freq, row, asked, skips, since>>

(* What copy c would have to reach back to, and does not: the lookback is  *)
(* its limit or, on the first run, one period.                             *)
TooOld(c) ==
    IF c.last = Never THEN Instants(c.due, now - c.freq)
                      ELSE Instants(c.last - Overlap, now - Lookback * c.freq)

(* Variant: the window begins where the last execution ended.               *)
OpenWindowWithoutOverlap(x) ==
    LET wanted == IF run[x].last = Never THEN now - run[x].freq ELSE run[x].last
        capped == Latest(Latest(wanted, midnight), now - Lookback * run[x].freq) IN
    /\ run[x].pc = "queued"
    /\ run' = [run EXCEPT ![x].pc = "fetch", ![x].from = capped, ![x].to = now]
    /\ cut' = cut \cup TooOld(run[x])
    /\ UNCHANGED <<clock, freq, row, asked, overrun, unasked, since>>

(* The head of executeCalls: last_run_at less the overlap, or one period   *)
(* on the first run, but neither before midnight nor beyond the lookback.  *)
OpenWindow(x) ==
    LET wanted == IF run[x].last = Never THEN now - run[x].freq
                                         ELSE run[x].last - Overlap
        capped == Latest(Latest(wanted, midnight), now - Lookback * run[x].freq) IN
    /\ run[x].pc = "queued"
    /\ run' = [run EXCEPT ![x].pc = "fetch", ![x].from = capped, ![x].to = now]
    /\ cut' = cut \cup TooOld(run[x])
    /\ UNCHANGED <<clock, freq, row, asked, overrun, unasked, since>>

(* CreateTransaction fails: ExecuteJob returns, the job stays due.         *)
NoTransaction(x) ==
    /\ "db" \in Faults
    /\ run[x].pc = "queued"
    /\ run' = [run EXCEPT ![x] = Idle]
    /\ UNCHANGED <<clock, freq, row, asked, skips, since>>

(* GetAccountByID fails, because the account is gone or the statement      *)
(* failed: no window is opened, and last_run_at moves all the same.        *)
NoAccount(x) ==
    LET reach == IF run[x].last = Never THEN run[x].due ELSE run[x].last - Overlap IN
    /\ "account" \in Faults
    /\ run[x].pc = "queued"
    /\ nextRun' = now + run[x].freq
    /\ lastRun' = now
    /\ unasked' = unasked \cup Instants(reach, now - Overlap)
    /\ since' = IF since = Never THEN run[x].due ELSE since
    /\ run' = [run EXCEPT ![x] = Idle]
    /\ UNCHANGED <<clock, freq, asked, cut, overrun>>

(* FetchCalls and the counting of what it returned (CallPipeline).  It may *)
(* fail: the execution goes on to AdvanceNextRun all the same.             *)
Fetch(x) ==
    /\ run[x].pc = "fetch"
    /\ run' = [run EXCEPT ![x].pc = "advance"]
    /\ asked' = asked \cup Instants(run[x].from, run[x].to)
    /\ UNCHANGED <<clock, freq, row, skips, since>>

(* Variant: the state of an execution that has ended is kept.               *)
AdvanceNextRunLingering(x) ==
    /\ run[x].pc = "advance"
    /\ nextRun' = now + run[x].freq
    /\ lastRun' = now
    /\ overrun' = overrun \cup Instants(run[x].to, now - Overlap)
    /\ since' = IF since = Never THEN run[x].from ELSE since
    /\ run' = [run EXCEPT ![x].pc = "ended"]
    /\ UNCHANGED <<clock, freq, asked, cut, unasked>>

(* AdvanceNextRun, with the frequency of the copy, at the end of the       *)
(* execution however long that took; its error is discarded.               *)
AdvanceNextRun(x) ==
    /\ run[x].pc = "advance"
    /\ \/ /\ nextRun' = now + run[x].freq
          /\ lastRun' = now
          /\ overrun' = overrun \cup Instants(run[x].to, now - Overlap)
          /\ since' = IF since = Never THEN run[x].from ELSE since
       \/ /\ "db" \in Faults
          /\ UNCHANGED <<row, overrun, since>>
    /\ run' = [run EXCEPT ![x] = Idle]
    /\ UNCHANGED <<clock, freq, asked, cut, unasked>>

(* The process ends between any two steps.                                 *)
Crash ==
    /\ "crash" \in Faults
    /\ run' = [x \in Runs |-> Idle]
    /\ UNCHANGED <<clock, freq, row, asked, skips, since>>

-----------------------------------------------------------------------------
ExecuteJob(x) ==
    \/ Dispatch(x)
    \/ NoTransaction(x)
    \/ NoAccount(x)
    \/ OpenWindow(x)
    \/ Fetch(x)
    \/ AdvanceNextRun(x)

Next ==
    \/ Tick
    \/ \E f \in Frequencies : UpdatePriority(f)
    \/ \E x \in Runs : ExecuteJob(x)
    \/ Crash

Spec == Init /\ [][Next]_vars

-----------------------------------------------------------------------------
RunState == [pc : {"queued", "fetch", "advance"}, freq : Frequencies,
             due : Int, last : Int, from : Int, to : Int]

TypeOK ==
    /\ now \in Nat
    /\ midnight \in Nat
    /\ freq \in Frequencies
    /\ nextRun \in Int
    /\ lastRun \in Int
    /\ run \in [Runs -> {Idle} \cup RunState]
    /\ asked \subseteq Int
    /\ cut \subseteq Int
    /\ overrun \subseteq Int
    /\ unasked \subseteq Int
    /\ since \in Int

(* Today's instants that the next window will not reach any more.          *)
Passed == IF lastRun = Never THEN {}
                             ELSE Latest(since, midnight) .. lastRun - Overlap - 1

(* However late a window opens, however long an execution fetches, and     *)
(* whichever frequency its copy has: the calls of today that were never    *)
(* asked for are those too old for the lookback when a window opened,      *)
(* those made while an execution went on for longer than the overlap, and  *)
(* those of an execution that found no account.  Nothing else, no stale    *)
(* copy, crash or failing update, loses any.  The comment of               *)
(* job_worker.go:335, "The 1-minute overlap ensures boundary calls aren't  *)
(* missed", would have it without overrun; it is not so, because           *)
(* last_run_at is the end of the execution and its window ended at its     *)
(* start.                                                                  *)
NothingSkipped == Passed \subseteq asked \cup cut \cup overrun \cup unasked
=============================================================================
