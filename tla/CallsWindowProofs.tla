-------------------------- MODULE CallsWindowProofs --------------------------
(* What the windows of the CALLS job leave out, for every length of a day, *)
(* every set of frequencies and executions of any duration.                *)
EXTENDS CallsWindow, TLAPS

Opened(x) == run[x].pc = "fetch" \/ run[x].pc = "advance"
Busy(x)   == run[x].pc = "queued" \/ Opened(x)

LEMMA LatestType == ASSUME NEW s \in Int, NEW t \in Int
                    PROVE  /\ Latest(s, t) \in Int
                           /\ Latest(s, t) >= s /\ Latest(s, t) >= t
                           /\ Latest(s, t) = s \/ Latest(s, t) = t
  BY DEF Latest

LEMMA FrequencyType == /\ \A f \in Frequencies : f \in Nat /\ Lookback * f \in Nat
                       /\ \A f \in Frequencies : f <= Lookback * f
                       /\ Overlap \in Nat
<1>1. Frequencies \subseteq Nat /\ Lookback \in Nat /\ Lookback >= 1
  BY WindowAssumption DEF WindowAssumption
<1>2. \A f \in Nat : Lookback * f \in Nat /\ f <= Lookback * f
  BY <1>1
<1> QED
  BY <1>1, <1>2, WindowAssumption DEF WindowAssumption

LEMMA OpenedType ==
    ASSUME NEW s \in RunState, NEW c \in Int, NEW t \in Int
    PROVE  [s EXCEPT !.pc = "fetch", !.from = c, !.to = t] \in RunState
  BY DEF RunState

-----------------------------------------------------------------------------
(* Types.                                                                   *)
LEMMA TypeInit == ASSUME Init PROVE TypeOK
<1>1. now \in Nat
  BY WindowAssumption DEF Init, WindowAssumption
<1> QED
  BY <1>1 DEF Init, TypeOK, Never

LEMMA TypeNext == ASSUME TypeOK, [Next]_vars PROVE TypeOK'
<1> USE DEF TypeOK, RunState
<1>1. CASE Tick
  BY <1>1 DEF Tick, row, skips
<1>2. ASSUME NEW f \in Frequencies, UpdatePriority(f) PROVE TypeOK'
  BY <1>2 DEF UpdatePriority, clock, row, skips
<1>3. ASSUME NEW x \in Runs, Dispatch(x) PROVE TypeOK'
  <2>1. [pc |-> "queued", freq |-> freq, due |-> nextRun, last |-> lastRun,
         from |-> 0, to |-> 0] \in RunState
    OBVIOUS
  <2>2. run' \in [Runs -> {Idle} \cup RunState]
    BY <1>3, <2>1 DEF Dispatch
  <2> QED
    BY <1>3, <2>2 DEF Dispatch, clock, row, skips
<1>4. ASSUME NEW x \in Runs, OpenWindow(x) PROVE TypeOK'
  <2>1. run[x] \in RunState
    BY <1>4 DEF OpenWindow, Idle
  <2> DEFINE wanted == IF run[x].last = Never THEN now - run[x].freq
                                             ELSE run[x].last - Overlap
             longest == now - Lookback * run[x].freq
             capped == Latest(Latest(wanted, midnight), longest)
  <2>2. wanted \in Int /\ longest \in Int
    BY <2>1, FrequencyType
  <2> HIDE DEF wanted, longest
  <2>3. capped \in Int
    BY <2>2, LatestType
  <2>4. /\ \A y \in Runs \ {x} : run'[y] = run[y]
        /\ run'[x] = [run[x] EXCEPT !.pc = "fetch", !.from = capped, !.to = now]
    BY <1>4 DEF OpenWindow, wanted, longest
  <2>5. PICK r : run' = [run EXCEPT ![x] = r]
    BY <1>4 DEF OpenWindow
  <2> HIDE DEF capped
  <2>6. r \in RunState
    <3>1. run'[x] = r /\ now \in Int
      BY <2>5
    <3> HIDE DEF RunState, TypeOK
    <3>2. \A c \in Int : [run[x] EXCEPT !.pc = "fetch", !.from = c, !.to = now] \in RunState
      BY <2>1, <3>1, OpenedType
    <3> QED
      BY <2>3, <2>4, <3>1, <3>2
  <2>7. run' \in [Runs -> {Idle} \cup RunState]
    BY <2>5, <2>6
  <2>8. cut' \subseteq Int
    <3>1. TooOld(run[x]) \subseteq Int
      BY <2>1, FrequencyType DEF TooOld, Instants
    <3> QED
      BY <1>4, <3>1 DEF OpenWindow
  <2> QED
    BY <1>4, <2>7, <2>8 DEF OpenWindow, clock, row
<1>9. ASSUME NEW x \in Runs, NoTransaction(x) PROVE TypeOK'
  BY <1>9 DEF NoTransaction, clock, row, skips
<1>10. ASSUME NEW x \in Runs, NoAccount(x) PROVE TypeOK'
  <2>1. run[x] \in RunState
    BY <1>10 DEF NoAccount, Idle
  <2>2. nextRun' \in Int /\ lastRun' \in Int /\ since' \in Int
    BY <1>10, <2>1, FrequencyType DEF NoAccount
  <2>3. run' \in [Runs -> {Idle} \cup RunState]
    BY <1>10 DEF NoAccount
  <2>4. unasked' \subseteq Int
    <3>1. PICK r \in Int : unasked' = unasked \cup Instants(r, now - Overlap)
      BY <1>10, <2>1, FrequencyType DEF NoAccount
    <3> QED
      BY <3>1, FrequencyType DEF Instants
  <2> QED
    BY <1>10, <2>2, <2>3, <2>4 DEF NoAccount, clock
<1>5. ASSUME NEW x \in Runs, Fetch(x) PROVE TypeOK'
  <2>1. run[x] \in RunState
    BY <1>5 DEF Fetch, Idle
  <2>2. run' = [run EXCEPT ![x] = [run[x] EXCEPT !.pc = "advance"]]
    BY <1>5 DEF Fetch
  <2>3. run' \in [Runs -> {Idle} \cup RunState]
    BY <2>1, <2>2
  <2>4. asked' \subseteq Int
    BY <1>5, <2>1 DEF Fetch, Instants
  <2> QED
    BY <1>5, <2>3, <2>4 DEF Fetch, clock, row, skips
<1>6. ASSUME NEW x \in Runs, AdvanceNextRun(x) PROVE TypeOK'
  <2>1. run[x] \in RunState
    BY <1>6 DEF AdvanceNextRun, Idle
  <2>2. nextRun' \in Int /\ lastRun' \in Int /\ since' \in Int
    BY <1>6, <2>1, FrequencyType DEF AdvanceNextRun, row
  <2>3. run' \in [Runs -> {Idle} \cup RunState]
    BY <1>6 DEF AdvanceNextRun
  <2>4. overrun' \subseteq Int
    <3>1. Instants(run[x].to, now - Overlap) \subseteq Int
      BY <2>1, FrequencyType DEF Instants
    <3> QED
      BY <1>6, <3>1 DEF AdvanceNextRun
  <2> QED
    BY <1>6, <2>2, <2>3, <2>4 DEF AdvanceNextRun, clock
<1>7. CASE Crash
  BY <1>7 DEF Crash, clock, row, skips
<1>8. CASE UNCHANGED vars
  BY <1>8 DEF vars, clock, row, skips
<1> QED
  BY <1>1, <1>2, <1>3, <1>4, <1>5, <1>6, <1>7, <1>8, <1>9, <1>10 DEF Next, ExecuteJob

(* Every variable keeps its type.                                           *)
THEOREM WindowTypeCorrect == Spec => []TypeOK
  BY TypeInit, TypeNext, PTL DEF Spec

-----------------------------------------------------------------------------
(* What is skipped.                                                         *)

(* Asked for, or skipped for one of the three reasons.                       *)
Known == asked \cup cut \cup overrun \cup unasked

(* The row has a beginning once an execution has ended.                     *)
RowInv ==
    /\ midnight <= now /\ lastRun <= now /\ Never <= lastRun /\ Never < nextRun
    /\ lastRun # Never => since # Never
    /\ lastRun = Never => since = Never

(* A copy is never newer than the row.  One taken before the first          *)
(* execution ended was due by then, and what came before that is known.     *)
CopyInv ==
    \A x \in Runs : Busy(x) =>
        /\ Never <= run[x].last /\ run[x].last <= lastRun
        /\ Never < run[x].due /\ run[x].due <= now
        /\ run[x].last = Never /\ lastRun = Never => run[x].due = nextRun
        /\ run[x].last = Never /\ lastRun # Never =>
              \A t \in Int : since <= t /\ midnight <= t /\ t < run[x].due => t \in Known

(* What a window leaves out of today is too old for it, or lies before     *)
(* last_run_at of its copy, less the overlap, or before the first due time. *)
OpenInv ==
    \A x \in Runs : Opened(x) =>
        /\ 0 <= run[x].from
        /\ run[x].due <= run[x].to
        /\ \A t \in Int : midnight <= t /\ t < run[x].from =>
              \/ t \in Known
              \/ run[x].last = Never /\ t < run[x].due
              \/ run[x].last # Never /\ t < run[x].last - Overlap
        /\ run[x].pc = "advance" =>
              \A t \in Int : run[x].from <= t /\ t < run[x].to => t \in Known

(* NothingSkipped, without the interval.                                    *)
RowKnown ==
    lastRun # Never =>
        \A t \in Int : since <= t /\ midnight <= t /\ t < lastRun - Overlap => t \in Known

WindowInv == RowInv /\ CopyInv /\ OpenInv /\ RowKnown

LEMMA WindowInit == ASSUME Init PROVE WindowInv
<1>1. \A x \in Runs : ~Busy(x) /\ ~Opened(x)
  BY DEF Init, Busy, Opened, Idle
<1>2. now \in Nat
  BY WindowAssumption DEF Init, WindowAssumption
<1> QED
  BY <1>1, <1>2 DEF Init, WindowInv, RowInv, CopyInv, OpenInv, RowKnown, Never

(* The job row, the clock and what was asked for only grow, and other       *)
(* executions stay as they are.                                             *)
LEMMA WindowTick == ASSUME TypeOK, WindowInv, Tick PROVE WindowInv'
<1>1. /\ UNCHANGED <<freq, row, run, Known, since>>
      /\ now \in Nat /\ midnight \in Nat /\ now' = now + 1
      /\ midnight' = midnight \/ midnight' = now + 1
  BY DEF Tick, TypeOK, Known, skips
<1>2. midnight' \in Nat /\ midnight <= midnight' /\ midnight' <= now'
  BY <1>1 DEF WindowInv, RowInv
<1>3. UNCHANGED <<nextRun, lastRun>> /\ lastRun \in Int
  BY <1>1 DEF row, TypeOK
<1>4. RowInv'
  BY <1>1, <1>2, <1>3 DEF WindowInv, RowInv
<1>5. \A t \in Int : midnight' <= t => midnight <= t
  BY <1>1, <1>2
<1>6. CopyInv'
  <2>1. \A x \in Runs : Busy(x) => run[x].due \in Int
    BY DEF Busy, Opened, Idle, TypeOK, RunState
  <2> QED
    BY <1>1, <1>3, <1>5, <2>1 DEF WindowInv, CopyInv, Busy, Opened
<1>7. OpenInv'
  BY <1>1, <1>5 DEF WindowInv, OpenInv, Opened
<1>8. RowKnown'
  BY <1>1, <1>3, <1>5 DEF WindowInv, RowKnown
<1> QED
  BY <1>4, <1>6, <1>7, <1>8 DEF WindowInv

LEMMA WindowDispatch ==
    ASSUME TypeOK, WindowInv, NEW x \in Runs, Dispatch(x) PROVE WindowInv'
<1>1. /\ UNCHANGED <<now, midnight, freq, nextRun, lastRun, Known, since>>
      /\ nextRun <= now
      /\ \A y \in Runs \ {x} : run'[y] = run[y]
      /\ run'[x] = [pc |-> "queued", freq |-> freq, due |-> nextRun, last |-> lastRun,
                    from |-> 0, to |-> 0]
  BY DEF Dispatch, clock, row, skips, TypeOK, Known
<1>2. RowInv' /\ RowKnown'
  BY <1>1 DEF WindowInv, RowInv, RowKnown
<1>3. CopyInv'
  <2>1. run'[x].last = lastRun /\ run'[x].due = nextRun
    BY <1>1
  <2>2. /\ Never <= lastRun /\ lastRun <= lastRun
        /\ Never < nextRun /\ nextRun <= now
    BY <1>1 DEF WindowInv, RowInv, TypeOK, Never
  <2>3. lastRun = Never => since = Never
    BY DEF WindowInv, RowInv
  <2> QED
    BY <1>1, <2>1, <2>2, <2>3 DEF WindowInv, CopyInv, Busy, Opened
<1>4. OpenInv'
  BY <1>1 DEF WindowInv, OpenInv, Opened
<1> QED
  BY <1>2, <1>3, <1>4 DEF WindowInv

LEMMA WindowOpen ==
    ASSUME TypeOK, WindowInv, NEW x \in Runs, OpenWindow(x) PROVE WindowInv'
<1>1. run[x] \in RunState /\ run[x].pc = "queued" /\ Busy(x)
  BY DEF OpenWindow, TypeOK, Idle, Busy
<1> DEFINE wanted == IF run[x].last = Never THEN now - run[x].freq
                                           ELSE run[x].last - Overlap
           longest == now - Lookback * run[x].freq
           capped == Latest(Latest(wanted, midnight), longest)
<1>2. /\ UNCHANGED <<now, midnight, freq, nextRun, lastRun, since>>
      /\ cut' = cut \cup TooOld(run[x]) /\ Known' = Known \cup TooOld(run[x])
      /\ \A y \in Runs \ {x} : run'[y] = run[y]
      /\ run'[x] = [run[x] EXCEPT !.pc = "fetch", !.from = capped, !.to = now]
  BY DEF OpenWindow, clock, row, TypeOK, Known
<1>3. /\ run[x].freq \in Frequencies /\ run[x].freq \in Nat
      /\ run[x].last \in Int /\ run[x].due \in Int
      /\ Lookback * run[x].freq \in Nat
      /\ now \in Nat /\ midnight \in Nat /\ lastRun \in Int /\ nextRun \in Int
  BY <1>1, FrequencyType DEF RunState, TypeOK
<1>4. wanted \in Int /\ longest \in Int
  BY <1>3, FrequencyType
<1> HIDE DEF wanted, longest
<1>5. /\ capped \in Int /\ capped >= midnight
      /\ capped = wanted \/ capped = midnight \/ capped = longest
  <2>0. midnight \in Int
    BY <1>3
  <2>1. PICK m \in Int : /\ m = Latest(wanted, midnight)
                         /\ m >= midnight
                         /\ m = wanted \/ m = midnight
    BY <1>4, <2>0, LatestType
  <2>2. /\ Latest(m, longest) \in Int /\ Latest(m, longest) >= m
        /\ Latest(m, longest) = m \/ Latest(m, longest) = longest
    BY <1>4, LatestType
  <2> QED
    BY <1>3, <2>1, <2>2
<1> HIDE DEF capped
<1>6. PICK c \in Int : c = capped
  BY <1>5
<1>7. /\ run'[x].pc = "fetch" /\ run'[x].from = c /\ run'[x].to = now
      /\ run'[x].freq = run[x].freq /\ run'[x].due = run[x].due /\ run'[x].last = run[x].last
  BY <1>1, <1>2, <1>6 DEF RunState
<1>8. RowInv' /\ RowKnown'
  BY <1>2 DEF WindowInv, RowInv, RowKnown
<1>9. CopyInv'
  <2>1. \A y \in Runs : /\ Busy(y)' => Busy(y)
                       /\ run'[y].last = run[y].last /\ run'[y].due = run[y].due
    BY <1>1, <1>2, <1>7 DEF Busy, Opened
  <2> QED
    BY <1>2, <2>1 DEF WindowInv, CopyInv
<1>10. ASSUME NEW t \in Int, midnight <= t, t < c
       PROVE  \/ t \in Known'
              \/ run[x].last = Never /\ t < run[x].due
              \/ run[x].last # Never /\ t < run[x].last - Overlap
  <2>1. t < wanted \/ t < longest
    BY <1>3, <1>4, <1>5, <1>6, <1>10
  <2>2. CASE run[x].last = Never
    <3>1. wanted = now - run[x].freq /\ longest = now - Lookback * run[x].freq
      BY <2>2 DEF wanted, longest
    <3>2. t < now - run[x].freq
      BY <1>3, <2>1, <3>1, FrequencyType
    <3>3. TooOld(run[x]) = run[x].due .. now - run[x].freq - 1
      BY <2>2 DEF TooOld, Instants
    <3>4. CASE t < run[x].due
      BY <2>2, <3>4
    <3>5. CASE ~(t < run[x].due)
      <4>1. t \in TooOld(run[x])
        BY <1>3, <3>2, <3>3, <3>5
      <4> QED
        BY <1>2, <4>1
    <3> QED
      BY <3>4, <3>5
  <2>3. CASE run[x].last # Never
    <3>1. wanted = run[x].last - Overlap /\ longest = now - Lookback * run[x].freq
      BY <2>3 DEF wanted, longest
    <3>2. TooOld(run[x]) = run[x].last - Overlap .. now - Lookback * run[x].freq - 1
      BY <2>3 DEF TooOld, Instants
    <3>3. t < run[x].last - Overlap \/ t \in TooOld(run[x])
      BY <1>3, <2>1, <3>1, <3>2, FrequencyType
    <3> QED
      BY <1>2, <2>3, <3>3
  <2> QED
    BY <2>2, <2>3
<1>11. run[x].due <= now
  BY <1>1 DEF WindowInv, CopyInv
<1>12. 0 <= c
  BY <1>3, <1>5, <1>6
<1>13. OpenInv'
  <2>1. SUFFICES ASSUME NEW y \in Runs, Opened(y)'
                 PROVE  /\ 0 <= run'[y].from
                        /\ run'[y].due <= run'[y].to
                        /\ \A t \in Int : midnight <= t /\ t < run'[y].from =>
                              \/ t \in Known'
                              \/ run'[y].last = Never /\ t < run'[y].due
                              \/ run'[y].last # Never /\ t < run'[y].last - Overlap
                        /\ run'[y].pc = "advance" =>
                              \A t \in Int : run'[y].from <= t /\ t < run'[y].to => t \in Known'
    BY <1>2 DEF OpenInv
  <2>2. CASE y = x
    BY <1>7, <1>10, <1>11, <1>12, <2>2
  <2>3. CASE y # x
    <3>1. run'[y] = run[y] /\ Opened(y)
      BY <1>2, <2>1, <2>3 DEF Opened
    <3>2. Known \subseteq Known'
      BY <1>2
    <3> QED
      BY <3>1, <3>2 DEF WindowInv, OpenInv
  <2> QED
    BY <2>2, <2>3
<1> QED
  BY <1>8, <1>9, <1>13 DEF WindowInv

LEMMA WindowFetch ==
    ASSUME TypeOK, WindowInv, NEW x \in Runs, Fetch(x) PROVE WindowInv'
<1>1. run[x] \in RunState /\ run[x].pc = "fetch"
  BY DEF Fetch, TypeOK, Idle
<1>2. /\ UNCHANGED <<now, midnight, freq, nextRun, lastRun, since>>
      /\ \A y \in Runs \ {x} : run'[y] = run[y]
      /\ run'[x] = [run[x] EXCEPT !.pc = "advance"]
      /\ Known' = Known \cup Instants(run[x].from, run[x].to)
  BY DEF Fetch, clock, row, skips, TypeOK, Known
<1>3. \A t \in Int : run[x].from <= t /\ t < run[x].to => t \in Known'
  BY <1>1, <1>2 DEF Instants, RunState
<1>4. /\ run'[x].pc = "advance" /\ run'[x].from = run[x].from /\ run'[x].to = run[x].to
      /\ run'[x].due = run[x].due /\ run'[x].last = run[x].last
  BY <1>1, <1>2 DEF RunState
<1>5. Known \subseteq Known'
  BY <1>2
<1>6. RowInv' /\ RowKnown'
  BY <1>2, <1>5 DEF WindowInv, RowInv, RowKnown
<1>7. \A y \in Runs : /\ Busy(y)' => Busy(y)
                     /\ run'[y].last = run[y].last /\ run'[y].due = run[y].due
  BY <1>1, <1>2, <1>4 DEF Busy, Opened
<1>8. CopyInv'
  BY <1>2, <1>5, <1>7 DEF WindowInv, CopyInv
<1>9. OpenInv'
  <2>1. ASSUME NEW y \in Runs \ {x}, Opened(y)'
        PROVE  Opened(y) /\ run'[y] = run[y]
    BY <1>2, <2>1 DEF Opened
  <2>2. Opened(x)
    BY <1>1 DEF Opened
  <2>3. SUFFICES ASSUME NEW y \in Runs, Opened(y)'
                 PROVE  /\ 0 <= run'[y].from
                        /\ run'[y].due <= run'[y].to
                        /\ \A t \in Int : midnight <= t /\ t < run'[y].from =>
                              \/ t \in Known'
                              \/ run'[y].last = Never /\ t < run'[y].due
                              \/ run'[y].last # Never /\ t < run'[y].last - Overlap
                        /\ run'[y].pc = "advance" =>
                              \A t \in Int : run'[y].from <= t /\ t < run'[y].to => t \in Known'
    BY <1>2 DEF OpenInv
  <2>4. CASE y = x
    <3>1. /\ 0 <= run[x].from /\ run[x].due <= run[x].to
          /\ \A t \in Int : midnight <= t /\ t < run[x].from =>
                \/ t \in Known
                \/ run[x].last = Never /\ t < run[x].due
                \/ run[x].last # Never /\ t < run[x].last - Overlap
      BY <2>2 DEF WindowInv, OpenInv
    <3> QED
      BY <1>3, <1>4, <1>5, <2>4, <3>1
  <2>5. CASE y # x
    <3>1. Opened(y) /\ run'[y] = run[y]
      BY <2>1, <2>3, <2>5
    <3> QED
      BY <1>5, <3>1 DEF WindowInv, OpenInv
  <2> QED
    BY <2>4, <2>5
<1> QED
  BY <1>6, <1>8, <1>9 DEF WindowInv

LEMMA WindowNoTransaction ==
    ASSUME TypeOK, WindowInv, NEW x \in Runs, NoTransaction(x) PROVE WindowInv'
<1>1. /\ UNCHANGED <<now, midnight, nextRun, lastRun, Known, since>>
      /\ \A y \in Runs \ {x} : run'[y] = run[y]
      /\ run'[x] = Idle
  BY DEF NoTransaction, clock, row, skips, TypeOK, Known
<1>2. \A y \in Runs : (Busy(y)' => y # x /\ Busy(y)) /\ (Opened(y)' => y # x /\ Opened(y))
  BY <1>1 DEF Busy, Opened, Idle
<1> QED
  BY <1>1, <1>2 DEF WindowInv, RowInv, CopyInv, OpenInv, RowKnown

(* Without a window everything the copy had to reach is unasked.            *)
LEMMA WindowNoAccount ==
    ASSUME TypeOK, WindowInv, NEW x \in Runs, NoAccount(x) PROVE WindowInv'
<1> DEFINE reach == IF run[x].last = Never THEN run[x].due ELSE run[x].last - Overlap
<1>1. run[x] \in RunState /\ run[x].pc = "queued" /\ Busy(x)
  BY DEF NoAccount, TypeOK, Idle, Busy
<1>2. /\ UNCHANGED <<now, midnight>>
      /\ \A y \in Runs \ {x} : run'[y] = run[y]
      /\ run'[x] = Idle
      /\ lastRun' = now
      /\ since' = IF since = Never THEN run[x].due ELSE since
      /\ Known' = Known \cup Instants(reach, now - Overlap)
  BY DEF NoAccount, clock, TypeOK, Known
<1>3. /\ now \in Nat /\ midnight \in Nat /\ lastRun \in Int /\ since \in Int
      /\ run[x].due \in Int /\ run[x].last \in Int /\ Overlap \in Nat
  BY <1>1, FrequencyType DEF TypeOK, RunState
<1>4. Known \subseteq Known'
  BY <1>2
<1>5. /\ Never <= run[x].last /\ run[x].last <= lastRun
      /\ run[x].last = Never /\ lastRun = Never => run[x].due = nextRun
      /\ run[x].last = Never /\ lastRun # Never =>
            \A t \in Int : since <= t /\ midnight <= t /\ t < run[x].due => t \in Known
  BY <1>1 DEF WindowInv, CopyInv
<1>6. /\ midnight <= now /\ lastRun <= now /\ Never <= lastRun
      /\ lastRun # Never => since # Never
      /\ lastRun = Never => since = Never
  BY DEF WindowInv, RowInv
<1>7. lastRun' # Never
  BY <1>2, <1>3 DEF Never
<1>8. \A y \in Runs : (Busy(y)' => y # x /\ Busy(y)) /\ (Opened(y)' => y # x /\ Opened(y))
  BY <1>2 DEF Busy, Opened, Idle
<1>9. OpenInv'
  BY <1>2, <1>4, <1>8 DEF WindowInv, OpenInv
<1>10. RowInv'
  <2>1. Never < run[x].due
    BY <1>1 DEF WindowInv, CopyInv
  <2>2. since' # Never
    BY <1>2, <1>3, <2>1 DEF Never
  <2>3. Never < nextRun' /\ Never <= lastRun' /\ lastRun' <= now
    <3>1. nextRun' = now + run[x].freq /\ run[x].freq \in Nat
      BY <1>1, FrequencyType DEF NoAccount, RunState
    <3> QED
      BY <1>2, <1>3, <3>1 DEF Never
  <2> QED
    BY <1>2, <1>6, <1>7, <2>2, <2>3 DEF RowInv
<1>11. RowKnown'
  <2>1. SUFFICES ASSUME NEW t \in Int, since' <= t, midnight <= t, t < now - Overlap
                 PROVE  t \in Known'
    BY <1>2 DEF RowKnown
  <2>2. CASE reach <= t
    BY <1>2, <1>3, <2>1, <2>2 DEF Instants
  <2>3. CASE t < reach /\ run[x].last # Never
    <3>1. lastRun # Never /\ t < lastRun - Overlap
      BY <1>3, <1>5, <2>3 DEF Never
    <3>2. since <= t
      BY <1>2, <1>6, <2>1, <3>1
    <3> QED
      BY <1>4, <2>1, <3>1, <3>2 DEF WindowInv, RowKnown
  <2>4. CASE t < reach /\ run[x].last = Never
    <3>1. lastRun # Never
      BY <1>2, <1>3, <1>6, <2>1, <2>4
    <3> QED
      BY <1>2, <1>4, <1>5, <1>6, <2>1, <2>4, <3>1
  <2> QED
    BY <1>3, <2>1, <2>2, <2>3, <2>4
<1>12. CopyInv'
  <2>1. SUFFICES ASSUME NEW y \in Runs, Busy(y), y # x
                 PROVE  /\ Never <= run[y].last /\ run[y].last <= now
                        /\ Never < run[y].due /\ run[y].due <= now
                        /\ run[y].last = Never =>
                              \A t \in Int : since' <= t /\ midnight <= t /\ t < run[y].due
                                                => t \in Known'
    BY <1>2, <1>7, <1>8 DEF CopyInv
  <2>2. run[y] \in RunState
    BY <2>1 DEF Busy, Opened, Idle, TypeOK
  <2>3. /\ Never <= run[y].last /\ run[y].last <= lastRun
        /\ Never < run[y].due /\ run[y].due <= now
        /\ run[y].last = Never /\ lastRun = Never => run[y].due = nextRun
        /\ run[y].last = Never /\ lastRun # Never =>
              \A t \in Int : since <= t /\ midnight <= t /\ t < run[y].due => t \in Known
    BY <2>1 DEF WindowInv, CopyInv
  <2>4. run[y].last <= now
    BY <1>3, <1>6, <2>2, <2>3 DEF RunState
  <2>5. ASSUME run[y].last = Never, NEW t \in Int, since' <= t, midnight <= t, t < run[y].due
        PROVE  t \in Known'
    <3>1. CASE lastRun # Never
      BY <1>2, <1>4, <1>6, <2>3, <2>5, <3>1
    <3>2. CASE lastRun = Never
      <4>1. run[x].last = Never
        BY <1>3, <1>5, <3>2 DEF Never
      <4>2. run[y].due = run[x].due
        BY <1>5, <2>3, <2>5, <3>2, <4>1
      <4>3. since' = run[x].due
        BY <1>2, <1>6, <3>2
      <4> QED
        BY <1>3, <2>5, <4>2, <4>3
    <3> QED
      BY <3>1, <3>2
  <2> QED
    BY <2>3, <2>4, <2>5
<1> QED
  BY <1>9, <1>10, <1>11, <1>12 DEF WindowInv

LEMMA WindowAdvance ==
    ASSUME TypeOK, WindowInv, NEW x \in Runs, AdvanceNextRun(x) PROVE WindowInv'
<1>1. run[x] \in RunState /\ run[x].pc = "advance" /\ Busy(x) /\ Opened(x)
  BY DEF AdvanceNextRun, TypeOK, Idle, Busy, Opened
<1>2. /\ UNCHANGED <<now, midnight, freq>>
      /\ \A y \in Runs \ {x} : run'[y] = run[y]
      /\ run'[x] = Idle
      /\ Known \subseteq Known'
  BY DEF AdvanceNextRun, clock, TypeOK, Known
<1>3. /\ now \in Nat /\ midnight \in Nat /\ lastRun \in Int /\ nextRun \in Int
      /\ since \in Int /\ run[x].freq \in Frequencies /\ run[x].freq \in Nat
      /\ run[x].from \in Int /\ run[x].to \in Int /\ run[x].due \in Int
      /\ run[x].last \in Int
  BY <1>1, FrequencyType DEF TypeOK, RunState
<1>4. /\ 0 <= run[x].from /\ run[x].due <= run[x].to
      /\ \A t \in Int : midnight <= t /\ t < run[x].from =>
            \/ t \in Known
            \/ run[x].last = Never /\ t < run[x].due
            \/ run[x].last # Never /\ t < run[x].last - Overlap
      /\ \A t \in Int : run[x].from <= t /\ t < run[x].to => t \in Known
  BY <1>1 DEF WindowInv, OpenInv
<1>5. /\ Never <= run[x].last /\ run[x].last <= lastRun
      /\ run[x].last = Never /\ lastRun = Never => run[x].due = nextRun
      /\ run[x].last = Never /\ lastRun # Never =>
            \A t \in Int : since <= t /\ midnight <= t /\ t < run[x].due => t \in Known
  BY <1>1 DEF WindowInv, CopyInv
<1>6. \A y \in Runs : (Busy(y)' => y # x /\ Busy(y)) /\ (Opened(y)' => y # x /\ Opened(y))
  BY <1>1, <1>2 DEF Busy, Opened, Idle
<1>7. OpenInv'
  BY <1>2, <1>6 DEF WindowInv, OpenInv
<1>8. CASE UNCHANGED <<row, since>>
  <2>1. RowInv' /\ RowKnown'
    BY <1>2, <1>8 DEF WindowInv, RowInv, RowKnown, row
  <2>2. CopyInv'
    BY <1>2, <1>6, <1>8 DEF WindowInv, CopyInv, row
  <2> QED
    BY <1>7, <2>1, <2>2 DEF WindowInv
<1>9. CASE /\ nextRun' = now + run[x].freq /\ lastRun' = now
           /\ since' = IF since = Never THEN run[x].from ELSE since
           /\ overrun' = overrun \cup Instants(run[x].to, now - Overlap)
  <2>1. Never <= lastRun /\ lastRun <= now /\ lastRun' # Never /\ since' # Never
    BY <1>3, <1>4, <1>9 DEF WindowInv, RowInv, Never
  <2>2. RowInv'
    BY <1>2, <1>3, <1>9, <2>1 DEF WindowInv, RowInv, Never
(* What passed since the window ended is overrun; what it left out was      *)
(* known before it.                                                         *)
  <2>3. RowKnown'
    <3>1. SUFFICES ASSUME NEW t \in Int, since' <= t, midnight <= t, t < now - Overlap
                   PROVE  t \in Known'
      BY <1>2, <1>9 DEF RowKnown
    <3>2. CASE run[x].from <= t /\ t < run[x].to
      BY <1>2, <1>4, <3>1, <3>2
    <3>5. CASE run[x].to <= t
      <4>1. t \in Instants(run[x].to, now - Overlap)
        BY <1>3, <3>1, <3>5, FrequencyType DEF Instants
      <4> QED
        BY <1>9, <4>1 DEF Known
    <3>6. CASE t \in Known
      BY <1>2, <3>6
    <3>3. CASE t \notin Known /\ t < run[x].from /\ run[x].last # Never
      <4>1. lastRun # Never /\ t < lastRun - Overlap
        BY <1>3, <1>4, <1>5, <3>1, <3>3, FrequencyType DEF Never
      <4>2. since # Never
        BY <4>1 DEF WindowInv, RowInv
      <4>3. since <= t
        BY <1>9, <3>1, <4>2
      <4> QED
        BY <1>2, <3>1, <4>1, <4>3 DEF WindowInv, RowKnown
    <3>4. CASE t \notin Known /\ t < run[x].from /\ run[x].last = Never
      <4>1. t < run[x].due
        BY <1>4, <3>1, <3>4
      <4>2. since # Never /\ lastRun # Never
        BY <1>3, <1>9, <3>1, <3>4 DEF WindowInv, RowInv
      <4> QED
        BY <1>5, <1>9, <3>1, <3>4, <4>1, <4>2
    <3> QED
      BY <1>3, <3>1, <3>2, <3>3, <3>4, <3>5, <3>6
  <2>4. CopyInv'
    <3>1. SUFFICES ASSUME NEW y \in Runs, Busy(y), y # x
                   PROVE  /\ Never <= run[y].last /\ run[y].last <= now
                          /\ Never < run[y].due /\ run[y].due <= now
                          /\ run[y].last = Never =>
                                \A t \in Int : since' <= t /\ midnight <= t /\ t < run[y].due
                                                  => t \in Known'
      BY <1>2, <1>6, <1>9, <2>1 DEF CopyInv
    <3>2. run[y] \in RunState
      BY <3>1 DEF Busy, Opened, Idle, TypeOK
    <3>3. /\ Never <= run[y].last /\ run[y].last <= lastRun
          /\ Never < run[y].due /\ run[y].due <= now
          /\ run[y].last = Never /\ lastRun = Never => run[y].due = nextRun
          /\ run[y].last = Never /\ lastRun # Never =>
                \A t \in Int : since <= t /\ midnight <= t /\ t < run[y].due => t \in Known
      BY <3>1 DEF WindowInv, CopyInv
    <3>4. run[y].last <= now
      BY <1>3, <2>1, <3>2, <3>3 DEF RunState
    <3>5. ASSUME run[y].last = Never, NEW t \in Int, since' <= t, midnight <= t, t < run[y].due
          PROVE  t \in Known'
      <4>1. CASE lastRun # Never
        <5>1. since # Never
          BY <4>1 DEF WindowInv, RowInv
        <5> QED
          BY <1>2, <1>9, <3>3, <3>5, <4>1, <5>1
(* The first execution to end: all copies have its due time.                *)
      <4>2. CASE lastRun = Never
        <5>1. run[x].last = Never
          BY <1>3, <1>5, <4>2 DEF Never
        <5>2. run[y].due = run[x].due
          BY <1>5, <3>3, <3>5, <4>2, <5>1
        <5>3. since' = run[x].from
          BY <1>9, <4>2 DEF WindowInv, RowInv
        <5> QED
          BY <1>2, <1>3, <1>4, <3>5, <5>2, <5>3
      <4> QED
        BY <4>1, <4>2
    <3> QED
      BY <3>3, <3>4, <3>5
  <2> QED
    BY <1>7, <2>2, <2>3, <2>4 DEF WindowInv
<1> QED
  BY <1>8, <1>9 DEF AdvanceNextRun, row

LEMMA WindowNext == ASSUME TypeOK, WindowInv, [Next]_vars PROVE WindowInv'
<1>1. ASSUME NEW f \in Frequencies, UpdatePriority(f) PROVE WindowInv'
  BY <1>1 DEF UpdatePriority, clock, row, WindowInv, RowInv, CopyInv, OpenInv, RowKnown,
              Known, skips, Busy, Opened
<1>2. CASE Crash
  <2>1. \A x \in Runs : ~Busy(x)' /\ ~Opened(x)'
    BY <1>2 DEF Crash, Busy, Opened, Idle
  <2> QED
    BY <1>2, <2>1 DEF Crash, clock, row, skips, Known, WindowInv, RowInv, CopyInv, OpenInv,
                         RowKnown
<1>3. CASE UNCHANGED vars
  BY <1>3 DEF vars, clock, row, skips, Known, WindowInv, RowInv, CopyInv, OpenInv, RowKnown,
              Busy, Opened
<1> QED
  BY <1>1, <1>2, <1>3, WindowTick, WindowDispatch, WindowNoTransaction,
     WindowNoAccount, WindowOpen, WindowFetch, WindowAdvance
     DEF Next, ExecuteJob

(* For executions of any duration and any frequencies, although copies are *)
(* stale, executions overlap or fail, statements fail and the process       *)
(* crashes: the calls of today that no later window reaches were asked for, *)
(* or were too old for a window that had to reach them, or were made while  *)
(* an execution outlasted the overlap, or fell to one without an account.   *)
THEOREM NothingSkippedHolds == Spec => []NothingSkipped
<1>1. TypeOK /\ WindowInv => NothingSkipped
  <2>1. SUFFICES ASSUME TypeOK, RowKnown, lastRun # Never,
                        NEW t \in Latest(since, midnight) .. lastRun - Overlap - 1
                 PROVE  t \in Known
    BY DEF WindowInv, NothingSkipped, Passed, Known
  <2>2. since \in Int /\ midnight \in Int /\ lastRun \in Int
    BY <2>1 DEF TypeOK
  <2>3. t \in Int /\ since <= t /\ midnight <= t /\ t < lastRun - Overlap
    <3>1. PICK s \in Int : s = Latest(since, midnight) /\ since <= s /\ midnight <= s
      BY <2>2, LatestType
    <3> QED
      BY <2>1, <2>2, <3>1, FrequencyType
  <2> QED
    BY <2>1, <2>3 DEF RowKnown
<1> QED
  BY <1>1, TypeInit, TypeNext, WindowInit, WindowNext, PTL DEF Spec
=============================================================================
