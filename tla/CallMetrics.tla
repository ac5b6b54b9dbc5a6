---------------------------- MODULE CallMetrics ----------------------------
(***************************************************************************)
(* The figures of one exophone and day in call_metrics_snapshot: how a     *)
(* record of a call is classified (internal/metrics/engine.go), how each   *)
(* batch is added to the row (internal/snapshots/generator.go), and how a  *)
(* repair replaces the row by the figures of a whole day (handlers/        *)
(* backfill.go and reprocess.go).                                          *)
(*                                                                         *)
(* Which calls reach a batch, and what interrupts the statements of an     *)
(* execution, is the subject of CallPipeline: here a call is in the row at *)
(* most once, and a batch is added in one step.  A record is what          *)
(* ProcessCallRecords looks at, with its statuses in lower case; the       *)
(* columns that are functions of others (dropped_calls, success_rate and   *)
(* the rates) are not stored a second time.                                *)
(***************************************************************************)
EXTENDS Integers, FiniteSets, FiniteSetsExt

CONSTANTS
    Calls,          \* SIDs of one exophone and day
    Days,           \* bound: the records the vendor may have of them
    LastHour,       \* 23
    Durations,      \* bound: the durations of a call, in seconds
    LegStatuses,    \* bound: the statuses of one side of a call, or ""
    RateMax         \* the largest percentage DECIMAL(5,2) holds: 999

Hours == 0 .. LastHour

Statuses ==
    {"completed", "failed", "no-answer", "noanswer", "busy", "canceled",
     "cancelled", "in-progress", "unknown"}

Pairs == LegStatuses \X LegStatuses

Records ==
    [parent : Calls \cup {"none"}, dir : {"inbound", "outbound", "other"},
     toVN : BOOLEAN, status : Statuses, talked : BOOLEAN, leg1 : LegStatuses,
     leg2 : LegStatuses, hour : -1 .. LastHour, dur : Durations]

(* Hour -1: a record without a start.  Unseen: a call not in the row.      *)
Unseen == [status |-> "unseen"]

ASSUME MetricsAssumption ==
    /\ IsFiniteSet(Calls)
    /\ "none" \notin Calls
    /\ LastHour \in Nat
    /\ Durations \subseteq Nat
    /\ "" \in LegStatuses
    /\ Days \subseteq [Calls -> Records]
    /\ RateMax \in Nat /\ RateMax >= 100

VARIABLES
    day,            \* the records the vendor answers with now
    row,            \* call_metrics_snapshot
    seen,           \* the records that went into the row
    refused,        \* calls of batches the database did not take
    parts,          \* how often the average of the row was rounded
    paired          \* were panel calls never torn apart or mixed with others?

vars == <<day, row, seen, refused, parts, paired>>

-----------------------------------------------------------------------------
(* One record.                                                             *)

ClassifyLeg(r) ==
    IF r.parent = "none" /\ (r.dir \in {"inbound", "outbound"} \/ r.toVN)
    THEN 1 ELSE 2

Bridged(r) == r.status = "completed" /\ r.talked

LegColumn(r) == IF ClassifyLeg(r) = 1 THEN "leg1_total" ELSE "leg2_total"

OutcomeColumn(r) ==
    CASE r.status = "completed" ->
            IF r.talked THEN "bridged"
            ELSE IF ClassifyLeg(r) = 1 /\ r.leg2 = "" THEN "leg1_drops"
            ELSE "leg2_drops"
      [] r.status = "failed" -> "failed_calls"
      [] r.status \in {"no-answer", "noanswer"} -> "no_answer_calls"
      [] r.status = "busy" -> "busy_calls"
      [] r.status \in {"canceled", "cancelled"} -> "canceled_calls"
      [] OTHER -> "other_calls"

Leg1Column(r) ==
    CASE r.leg1 \in {"no-answer", "noanswer"} -> "leg1_no_answer"
      [] r.leg1 = "busy" -> "leg1_busy"
      [] r.leg1 = "failed" -> "leg1_failed"
      [] OTHER -> "total_calls"

Leg2Column(r) ==
    CASE r.leg2 \in {"no-answer", "noanswer"} -> "leg2_no_answer"
      [] r.leg2 = "busy" -> "leg2_busy"
      [] r.leg2 = "failed" -> "leg2_failed"
      [] r.leg2 \in {"canceled", "cancelled"} -> "leg2_canceled"
      [] OTHER -> "total_calls"

Columns ==
    {"total_calls", "leg1_total", "leg2_total", "bridged", "leg1_drops",
     "leg2_drops", "failed_calls", "no_answer_calls", "busy_calls",
     "canceled_calls", "other_calls", "leg1_no_answer", "leg1_busy",
     "leg1_failed", "leg2_no_answer", "leg2_busy", "leg2_failed",
     "leg2_canceled"}

(* The columns a record counts in.                                         *)
ColumnsOf(r) ==
    {"total_calls", LegColumn(r), OutcomeColumn(r), Leg1Column(r), Leg2Column(r)}

-----------------------------------------------------------------------------
(* A batch: for each call, its record or Unseen.                           *)
Batches == [Calls -> Records \cup {Unseen}]

In(b)         == {s \in Calls : b[s] # Unseen}
Counting(b,c) == {s \in In(b) : c \in ColumnsOf(b[s])}

Tally(b)  == [c \in Columns |-> Cardinality(Counting(b, c))]
Hourly(b) == [h \in Hours |-> Cardinality({s \in In(b) : b[s].hour = h})]
LegStatusBreakdown(b) ==
    [p \in Pairs |-> Cardinality({s \in In(b) : <<b[s].leg1, b[s].leg2>> = p})]
TotalDuration(b) == MapThenSumSet(LAMBDA s : b[s].dur, In(b))

(* Two records of a bridged panel call both report a conversation: where   *)
(* there are customer legs, agent legs do not count.                       *)
HasCustomerLegs(b) == \E s \in In(b) : ClassifyLeg(b[s]) = 2

BridgedIn(b)       == {s \in In(b) : Bridged(b[s])}
Leg1ConnectedIn(b) == {s \in BridgedIn(b) : ClassifyLeg(b[s]) = 1}

(* Variant of Connected: both legs of a panel call count.                  *)
ConnectedTwice(b) == Cardinality(BridgedIn(b))

(* Variant of Connected: all agent legs are taken off.                     *)
ConnectedLessAgents(b) ==
    Cardinality(BridgedIn(b))
      - IF HasCustomerLegs(b) THEN Cardinality(Counting(b, "leg1_total")) ELSE 0

Connected(b) ==
    Cardinality(BridgedIn(b))
      - IF HasCustomerLegs(b) THEN Cardinality(Leg1ConnectedIn(b)) ELSE 0

(* The first of the busiest hours, or 0.                                   *)
PeakHour(dist) ==
    CHOOSE h \in Hours : /\ \A k \in Hours : dist[k] <= dist[h]
                         /\ \A k \in 0 .. h - 1 : dist[k] < dist[h]

(* Hundredths, as DECIMAL(10,2) keeps them.                                *)
Rounded(n, d) == (2 * n + d) \div (2 * d)

-----------------------------------------------------------------------------
(* Rows.                                                                   *)
NoRow == [total |-> "none"]

ZeroRow ==
    [count |-> [c \in Columns |-> 0], connected |-> 0, avg |-> 0,
     hourly |-> [h \in Hours |-> 0], pairs |-> [p \in Pairs |-> 0], peak |-> 0]

Sum(f, g) == [x \in DOMAIN f |-> f[x] + g[x]]

(* Variant of NewAverage: the old average weighs as much as the new total. *)
NewAverageHeavy(r, b) ==
    LET n == r.count["total_calls"] + Cardinality(In(b)) IN
    Rounded(r.avg * n + 100 * TotalDuration(b), n)

(* The total duration is reconstructed from the average.                   *)
NewAverage(r, b) ==
    Rounded(r.avg * r.count["total_calls"] + 100 * TotalDuration(b),
            r.count["total_calls"] + Cardinality(In(b)))

(* Variant of NewPeak: the busiest hour of the batch.                      *)
NewPeakOfBatch(r, b) == PeakHour(Hourly(b))

NewPeak(r, b) == PeakHour(Sum(r.hourly, Hourly(b)))

(* AccumulateCallMetrics: r plus the summary of b.                         *)
Plus(r, b) ==
    [count     |-> Sum(r.count, Tally(b)),
     connected |-> r.connected + Connected(b),
     avg       |-> NewAverage(r, b),
     hourly    |-> Sum(r.hourly, Hourly(b)),
     pairs     |-> Sum(r.pairs, LegStatusBreakdown(b)),
     peak      |-> NewPeak(r, b)]

(* Backfill and reprocess: the summary of b alone.                         *)
RowOf(b) == Plus(ZeroRow, b)

(* Variant of Rates: customer legs are the denominator of every day.       *)
RatesOfPanel(r) ==
    LET n == r.count IN
    {<<r.connected, n["leg2_total"]>>, <<n["leg2_drops"], n["leg2_total"]>>,
     <<n["leg1_drops"], n["leg1_total"]>>}

(* answer_rate, drop_rate and leg1_drop_rate, as quotients.                *)
Rates(r) ==
    LET n     == r.count
        denom == IF n["leg2_total"] > 0 THEN n["leg2_total"] ELSE n["total_calls"] IN
    {<<r.connected, denom>>, <<n["leg2_drops"], denom>>,
     <<n["leg1_drops"], n["leg1_total"]>>}

(* In the default mode of MySQL a rate that is out of range is an error.   *)
Fits(r) == \A q \in Rates(r) : 100 * q[1] <= RateMax * q[2]

-----------------------------------------------------------------------------
(* The legs on which a customer was reached: customer legs, and agent legs *)
(* that are the whole call.                                                *)
Child(b, s) == \E t \in In(b) : b[t].parent = s

Reached(b) ==
    {s \in In(b) : Bridged(b[s]) /\ (ClassifyLeg(b[s]) = 1 => ~Child(day, s))}

(* In b, no bridged agent leg is apart from its customer leg, nor is there *)
(* one without a customer leg beside those of other calls.                 *)
Paired(b) ==
    \A s \in In(b) : Bridged(b[s]) /\ ClassifyLeg(b[s]) = 1 =>
        (Child(day, s) <=> HasCustomerLegs(b))

-----------------------------------------------------------------------------
Init ==
    /\ day \in Days
    /\ row = NoRow
    /\ seen = [s \in Calls |-> Unseen]
    /\ refused = {}
    /\ parts = 0
    /\ paired = TRUE

(* A call in progress ends, with or without a conversation.                *)
CallEnds(s) ==
    /\ day[s].status = "in-progress"
    /\ \E talked \in BOOLEAN :
          day' = [day EXCEPT ![s] = [@ EXCEPT !.status = "completed", !.talked = talked]]
    /\ UNCHANGED <<row, seen, refused, parts, paired>>

Batch(S) == [s \in Calls |-> IF s \in S THEN day[s] ELSE Unseen]

Merged(a, b) == [s \in Calls |-> IF b[s] # Unseen THEN b[s] ELSE a[s]]

(* An execution adds the new calls S; an error of the upsert is discarded, *)
(* and the calls stay in the SID set.                                      *)
AccumulateCallMetrics(S) ==
    LET new == Plus(IF row = NoRow THEN ZeroRow ELSE row, Batch(S)) IN
    /\ S # {}
    /\ S \cap (In(seen) \cup refused) = {}
    /\ \/ /\ Fits(new)
          /\ row' = new
          /\ seen' = Merged(seen, Batch(S))
          /\ parts' = parts + 1
          /\ paired' = (paired /\ Paired(Batch(S)))
          /\ UNCHANGED refused
       \/ /\ ~Fits(new)
          /\ refused' = refused \cup S
          /\ UNCHANGED <<row, seen, parts, paired>>
    /\ UNCHANGED day

(* A repair writes the figures of the calls S: as the vendor has them, or  *)
(* as an execution stored them.  The breakdown of no calls is an empty     *)
(* text, which a JSON column refuses, so that a row never becomes empty.   *)
OverwriteSnapshot(S) ==
    /\ S # {}
    /\ \E b \in {Batch(S), [s \in Calls |-> IF s \in S /\ seen[s] # Unseen
                                             THEN seen[s] ELSE Batch(S)[s]]} :
          /\ Fits(RowOf(b))
          /\ row' = RowOf(b)
          /\ seen' = b
          /\ refused' = refused \ S
          /\ parts' = 1
          /\ paired' = Paired(b)
    /\ UNCHANGED day

Next ==
    \/ \E s \in Calls : CallEnds(s)
    \/ \E S \in SUBSET Calls : AccumulateCallMetrics(S) \/ OverwriteSnapshot(S)

Spec == Init /\ [][Next]_vars

-----------------------------------------------------------------------------
Row ==
    [count : [Columns -> Nat], connected : Nat, avg : Nat,
     hourly : [Hours -> Nat], pairs : [Pairs -> Nat], peak : Hours]

TypeOK ==
    /\ day \in [Calls -> Records]
    /\ row \in {NoRow} \cup Row
    /\ seen \in Batches
    /\ refused \in SUBSET Calls
    /\ parts \in Nat
    /\ paired \in BOOLEAN

-----------------------------------------------------------------------------
(* Safety.                                                                 *)

(* Adding a day up in batches, in any order and after any repair, gives    *)
(* the figures that one pass over the same records gives.                  *)
WholeDay ==
    IF row = NoRow
    THEN In(seen) = {}
    ELSE /\ row.count = Tally(seen)
         /\ row.hourly = Hourly(seen)
         /\ row.pairs = LegStatusBreakdown(seen)
         /\ row.peak = PeakHour(Hourly(seen))

(* "Connected equals the number of unique calls where the customer was     *)
(* actually reached" (engine.go), as long as no batch tears the legs of a  *)
(* panel call apart or mixes panel calls with others.                      *)
ConnectedIsReached ==
    paired /\ row # NoRow => row.connected = Cardinality(Reached(seen))

(* The average is kept to a hundredth and the total is taken from it: each *)
(* batch adds at most half a hundredth of a second to the error.           *)
AvgWithinRounding ==
    row # NoRow =>
        LET error == row.avg * row.count["total_calls"] - 100 * TotalDuration(seen)
            bound == parts * row.count["total_calls"] IN
        -bound <= 2 * error /\ 2 * error <= bound

(* The rates of a day on which no call has a customer leg of its own are   *)
(* percentages, and the database takes every batch.                        *)
RefusedOnlyWithCustomerLegs ==
    refused # {} => \E s \in Calls : ClassifyLeg(day[s]) = 2
=============================================================================
