--------------------------- MODULE HealthSnapshot ---------------------------
(***************************************************************************)
(* The health row of an exophone and its cached view: the refresh that     *)
(* every job leaves behind (internal/snapshots/generator.go), the two      *)
(* handlers that write the same row from an answer or a push of the vendor *)
(* (internal/handlers/heartbeat.go and webhook.go), and the request that   *)
(* reads it through Redis (internal/handlers/exophones.go).                *)
(*                                                                         *)
(* Time is relative, as in JobScheduler: a cached copy knows how long it   *)
(* lives.  Latency, active streams and the time of the check are left out  *)
(* of a row, and the alerts of a push are left out as well.                *)
(***************************************************************************)
EXTENDS Integers

CONSTANTS
    Exophones,      \* the exophones of one account
    Refreshes,      \* bound: RefreshExophoneHealth goroutines in flight
    Readers,        \* bound: GET requests that missed the cache, in flight
    TTL,            \* TTLHealthSnap, in ticks
    Patience,       \* bound: ticks a request lasts after its query
    Writers,        \* who else writes the row: requests and pushes that occur
    Faults          \* the failures that occur

ASSUME HealthAssumption ==
    /\ TTL \in Nat \ {0}
    /\ Patience \in Nat
    /\ Writers \subseteq {"webhook", "check"}
    /\ Faults \subseteq {"db", "redis", "crash"}

VARIABLES
    latest,         \* heartbeat_metrics: what GetLatestHeartbeat answers
    row,            \* exophone_health_snapshot
    cache,          \* Redis: health_snap:<id>
    refresh,        \* the detached refreshes
    reader          \* the GET requests

vars == <<latest, row, cache, refresh, reader>>

-----------------------------------------------------------------------------
(* What the vendor answers, and how it is classified.                      *)
Directions == [inc : {"active", "major_outage"}, out : {"active", "major_outage"}]
NoData     == [inc |-> "none", out |-> "none"]

Down(d)   == d = "major_outage"
BothUp(d) == d.inc = "active" /\ d.out = "active"
OneUp(d)  == d.inc = "active" \/ d.out = "active"

(* A usable answer of v2, or else the status of v1 and, for a 200, whether *)
(* HealthSetting names a problem.                                          *)
Answers == [v2 : Directions, v1 : {"not asked"}] \cup
           [v2 : {NoData},
            v1 : {"200", "200 degraded", "404", "401", "400", "429", "500"}]

(* FetchHeartbeat for a number, or for the whole account (vn = FALSE).     *)
FetchHeartbeat(a, vn) ==
    LET d == a.v2 IN
    IF vn /\ d # NoData
    THEN [type |-> CASE Down(d.inc) /\ Down(d.out) -> "CRITICAL"
                     [] Down(d.inc) # Down(d.out) -> "WARNING"
                     [] OTHER -> "OK",
          affected |-> Down(d.inc) \/ Down(d.out), data |-> d, fails |-> FALSE]
    ELSE [type |-> CASE a.v1 = "200" -> "OK"
                     [] a.v1 = "200 degraded" -> IF vn THEN "WARNING" ELSE "OK"
                     [] a.v1 = "404" -> IF vn THEN "CRITICAL" ELSE "WARNING"
                     [] a.v1 = "401" -> "CRITICAL"
                     [] OTHER -> "WARNING",
          affected |-> vn /\ a.v1 \in {"200 degraded", "404"}, data |-> NoData,
          fails |-> a.v1 \in {"429", "500"}]

(* What executeHeartbeat makes of it.                                      *)
ReadingOf(h) == CASE h.type = "CRITICAL" -> "OUTAGE"
                  [] h.type # "CRITICAL" /\ h.affected -> "DEGRADED"
                  [] OTHER -> "OK"

(* Variant of heartbeatToAvailability: three quarters for a degraded line. *)
heartbeatToAvailabilityInQuarters(status) ==
    CASE status = "OK" -> 100 [] status = "DEGRADED" -> 75 [] OTHER -> 0

heartbeatToAvailability(status) ==
    CASE status = "OK" -> 100 [] status = "DEGRADED" -> 50 [] OTHER -> 0

-----------------------------------------------------------------------------
NoReading == [exo |-> "nobody", status |-> "UNKNOWN", fresh |-> FALSE]

(* Which exophone the status of a row was observed for.                    *)
Sources == Exophones \cup {"nobody"}

Row == [status : {"UNKNOWN", "OK", "DEGRADED", "OUTAGE"}, avail : {0, 50, 100},
        of : Sources]

NoRow == [status |-> "none"]

Miss == [left |-> 0]

(* A copy of a row in Redis.  stale counts the ticks during which it has   *)
(* not been the row any more; excused says that no invalidation was to be  *)
(* expected for it.                                                        *)
Copy == [row : Row, left : 1 .. TTL, stale : Nat, excused : BOOLEAN]

Idle == [pc |-> "idle"]

Init ==
    /\ latest = NoReading
    /\ row = [e \in Exophones |-> NoRow]
    /\ cache = [e \in Exophones |-> Miss]
    /\ refresh = [f \in Refreshes |-> Idle]
    /\ reader = [r \in Readers |-> Idle]

-----------------------------------------------------------------------------
(* Readings.                                                               *)

(* The reading of a HEARTBEAT job that did not fail.  created_at has the   *)
(* resolution of a second and First() settles ties by the smaller id, so   *)
(* the first reading of a second hides the others for good.                *)
SaveHeartbeatMetric(e) ==
    /\ \E vn \in {TRUE} \cup {v \in {FALSE} : "db" \in Faults} :
          \E h \in {g \in {FetchHeartbeat(a, vn) : a \in Answers} : ~g.fails} :
             latest' = IF latest.fresh
                       THEN latest
                       ELSE [exo |-> e, status |-> ReadingOf(h), fresh |-> TRUE]
    /\ UNCHANGED <<row, cache, refresh, reader>>

-----------------------------------------------------------------------------
(* RefreshExophoneHealth, which a job of exophone e has left behind.       *)

(* GetLatestHeartbeat of the account; an error leaves UNKNOWN.             *)
ReadHeartbeat(f, e) ==
    /\ refresh[f].pc = "idle"
    /\ \E hb \in {latest} \cup {n \in {NoReading} : "db" \in Faults} :
          refresh' = [refresh EXCEPT ![f] =
                         [pc |-> "upsert", exo |-> e,
                          new |-> [status |-> hb.status, of |-> hb.exo,
                                   avail |-> heartbeatToAvailability(hb.status)]]]
    /\ UNCHANGED <<latest, row, cache, reader>>

(* Variant of Upsert: the refresh ends without the invalidation.           *)
UpsertAndReturn(f) ==
    LET e == refresh[f].exo IN
    /\ refresh[f].pc = "upsert"
    /\ \/ row' = [row EXCEPT ![e] = refresh[f].new]
       \/ "db" \in Faults /\ UNCHANGED row
    /\ refresh' = [refresh EXCEPT ![f] = Idle]
    /\ UNCHANGED <<latest, cache, reader>>

(* UpsertExophoneHealthSnapshot; an error ends the refresh.                *)
Upsert(f) ==
    LET e == refresh[f].exo IN
    /\ refresh[f].pc = "upsert"
    /\ \/ /\ row' = [row EXCEPT ![e] = refresh[f].new]
          /\ refresh' = [refresh EXCEPT ![f].pc = "invalidate"]
       \/ /\ "db" \in Faults
          /\ refresh' = [refresh EXCEPT ![f] = Idle]
          /\ UNCHANGED row
    /\ UNCHANGED <<latest, cache, reader>>

(* Nobody will invalidate the copy on behalf of the last write.            *)
Excuse(e) == IF cache[e] = Miss THEN Miss ELSE [cache[e] EXCEPT !.excused = TRUE]

(* cache.Delete, whose error is discarded.                                 *)
Invalidate(f) ==
    LET e == refresh[f].exo IN
    /\ refresh[f].pc = "invalidate"
    /\ \/ cache' = [cache EXCEPT ![e] = Miss]
       \/ "redis" \in Faults /\ cache' = [cache EXCEPT ![e] = Excuse(e)]
    /\ refresh' = [refresh EXCEPT ![f] = Idle]
    /\ UNCHANGED <<latest, row, reader>>

-----------------------------------------------------------------------------
(* The other writers.  Neither knows the active streams, nor invalidates.  *)
SilentWrite(es, new) ==
    /\ row' = [e \in Exophones |-> IF e \in es THEN new[e] ELSE row[e]]
    /\ cache' = [e \in Exophones |-> IF e \in es THEN Excuse(e) ELSE cache[e]]
    /\ UNCHANGED <<latest, refresh, reader>>

CheckedRow(e, h) ==
    LET status == CASE h.type = "CRITICAL" -> "OUTAGE"
                    [] h.type = "WARNING" -> "DEGRADED"
                    [] OTHER -> "OK"
        d     == h.data
        shown == IF d = NoData THEN status
                  ELSE CASE Down(d.inc) /\ Down(d.out) -> "OUTAGE"
                         [] Down(d.inc) # Down(d.out) -> "DEGRADED"
                         [] OTHER -> "OK" IN
    [status |-> shown, of |-> e,
     avail |-> CASE shown = "OK" -> 100 [] shown = "DEGRADED" -> 50 [] OTHER -> 0]

(* CheckExophoneHeartbeat: the connectivity of v2, or else the status.     *)
CheckExophoneHeartbeat(e) ==
    /\ "check" \in Writers
    /\ \E new \in {CheckedRow(e, FetchHeartbeat(a, TRUE)) : a \in Answers} :
          SilentWrite({e}, [x \in {e} |-> new])

(* Variant of PushedStatus: the availability is set for outages only.      *)
PushedStatusWithoutRecovery(critical, d) ==
    [status |-> CASE BothUp(d) -> "OK"
                  [] ~BothUp(d) /\ OneUp(d) -> "DEGRADED"
                  [] OTHER -> IF critical THEN "OUTAGE" ELSE "DEGRADED",
     avail |-> IF ~BothUp(d) /\ OneUp(d) THEN 50 ELSE 0]

(* fireVNAlerts for one affected number.                                   *)
PushedStatus(critical, d) ==
    [status |-> CASE BothUp(d) -> "OK"
                  [] ~BothUp(d) /\ OneUp(d) -> "DEGRADED"
                  [] OTHER -> IF critical THEN "OUTAGE" ELSE "DEGRADED",
     avail |-> CASE BothUp(d) -> 100 [] ~BothUp(d) /\ OneUp(d) -> 50 [] OTHER -> 0]

(* ExotelHeartbeat: a push that names affected numbers, with connectivity  *)
(* data for some of them.  Its own heartbeat_metrics row is stored under   *)
(* account 0, where no refresh finds it.                                   *)
ExotelHeartbeat ==
    /\ "webhook" \in Writers
    /\ \E es \in SUBSET Exophones \ {{}}, critical \in BOOLEAN :
          \E pushed \in [es -> {PushedStatus(critical, d) : d \in Directions \cup {NoData}}] :
             SilentWrite(es, [e \in es |->
                 [status |-> pushed[e].status, avail |-> pushed[e].avail, of |-> e]])

-----------------------------------------------------------------------------
(* Variant of Lookup: a hit renews the TTL.                                *)
LookupRenewing(r, e) ==
    /\ reader[r].pc = "idle"
    /\ \/ /\ cache[e] = Miss \/ "redis" \in Faults
          /\ reader' = [reader EXCEPT ![r] = [pc |-> "query", exo |-> e]]
          /\ UNCHANGED cache
       \/ /\ cache[e] # Miss
          /\ cache' = [cache EXCEPT ![e].left = TTL]
          /\ UNCHANGED reader
    /\ UNCHANGED <<latest, row, refresh>>

(* GetExophoneMetrics.  A hit is answered from the copy and changes        *)
(* nothing; these are the steps of a miss, or of a Redis error.            *)
Lookup(r, e) ==
    /\ reader[r].pc = "idle"
    /\ cache[e] = Miss \/ "redis" \in Faults
    /\ reader' = [reader EXCEPT ![r] = [pc |-> "query", exo |-> e]]
    /\ UNCHANGED <<latest, row, cache, refresh>>

(* GetExophoneHealthSnapshot; no row and an error are both a 404.          *)
Query(r) ==
    LET e == reader[r].exo IN
    /\ reader[r].pc = "query"
    /\ \/ /\ row[e] # NoRow
          /\ reader' = [reader EXCEPT ![r] =
                [pc |-> "fill", exo |-> e, row |-> row[e], held |-> 0, stale |-> 0]]
       \/ /\ row[e] = NoRow \/ "db" \in Faults
          /\ reader' = [reader EXCEPT ![r] = Idle]
    /\ UNCHANGED <<latest, row, cache, refresh>>

(* cache.Set with TTLHealthSnap.                                           *)
Fill(r) ==
    LET e == reader[r].exo IN
    /\ reader[r].pc = "fill"
    /\ \/ cache' = [cache EXCEPT ![e] =
             [row |-> reader[r].row, left |-> TTL, stale |-> reader[r].stale,
              excused |-> reader[r].row # row[e]]]
       \/ "redis" \in Faults /\ UNCHANGED cache
    /\ reader' = [reader EXCEPT ![r] = Idle]
    /\ UNCHANGED <<latest, row, refresh>>

-----------------------------------------------------------------------------
(* Ticks during which copy s has not been the row of e.                    *)
Older(s, e) == IF s.row = row[e] THEN 0 ELSE s.stale + 1

(* Time passes: copies expire, and the second of the last reading ends.    *)
Tick ==
    /\ \A r \in Readers : reader[r].pc = "fill" => reader[r].held < Patience
    /\ latest' = [latest EXCEPT !.fresh = FALSE]
    /\ cache' = [e \in Exophones |->
          IF cache[e].left <= 1
          THEN Miss
          ELSE [cache[e] EXCEPT !.left = @ - 1, !.stale = Older(cache[e], e)]]
    /\ reader' = [r \in Readers |->
          IF reader[r].pc = "fill"
          THEN [reader[r] EXCEPT !.held = @ + 1,
                                 !.stale = Older(reader[r], reader[r].exo)]
          ELSE reader[r]]
    /\ UNCHANGED <<row, refresh>>

(* The process ends; Redis and the database stay.                          *)
Crash ==
    /\ "crash" \in Faults
    /\ refresh' = [f \in Refreshes |-> Idle]
    /\ reader' = [r \in Readers |-> Idle]
    /\ cache' = [e \in Exophones |->
          IF \E f \in Refreshes : refresh[f].pc = "invalidate" /\ refresh[f].exo = e
          THEN Excuse(e)
          ELSE cache[e]]
    /\ UNCHANGED <<latest, row>>

-----------------------------------------------------------------------------
RefreshStep(f) == Upsert(f) \/ Invalidate(f)
ReaderStep(r)  == Query(r) \/ Fill(r)

Next ==
    \/ \E e \in Exophones :
          \/ SaveHeartbeatMetric(e)
          \/ CheckExophoneHeartbeat(e)
          \/ \E f \in Refreshes : ReadHeartbeat(f, e)
          \/ \E r \in Readers : Lookup(r, e)
    \/ \E f \in Refreshes : RefreshStep(f)
    \/ \E r \in Readers : ReaderStep(r)
    \/ ExotelHeartbeat
    \/ Tick
    \/ Crash

Spec == Init /\ [][Next]_vars

-----------------------------------------------------------------------------
RefreshState == [pc : {"upsert", "invalidate"}, exo : Exophones, new : Row]

QueryState == [pc : {"query"}, exo : Exophones]
FillState  == [pc : {"fill"}, exo : Exophones, row : Row, held : 0 .. Patience,
               stale : Nat]

TypeOK ==
    /\ latest \in [exo : Sources, status : {"UNKNOWN", "OK", "DEGRADED", "OUTAGE"},
                   fresh : BOOLEAN]
    /\ row \in [Exophones -> {NoRow} \cup Row]
    /\ cache \in [Exophones -> {Miss} \cup Copy]
    /\ refresh \in [Refreshes -> {Idle} \cup RefreshState]
    /\ reader \in [Readers -> {Idle} \cup QueryState \cup FillState]

-----------------------------------------------------------------------------
(* Safety.                                                                 *)

(* Nobody is shown a row that was replaced longer ago than the TTL and the *)
(* time a request lasts, whatever invalidations were lost or overtaken.    *)
BoundedStaleness ==
    \A e \in Exophones : cache[e] # Miss => cache[e].stale <= TTL + Patience

(* Why: a copy spends its age in a request first and in Redis afterwards.  *)
AgeInv ==
    /\ \A e \in Exophones : cache[e] # Miss => cache[e].stale + cache[e].left <= TTL + Patience
    /\ \A r \in Readers : reader[r].pc = "fill" => reader[r].stale <= reader[r].held

(* A copy that is not the row any more is on its way out, unless it was    *)
(* stored after its row had been replaced, or the last write was one that  *)
(* invalidates nothing: every refresh reaches the readers.                 *)
RefreshReachesReaders ==
    \A e \in Exophones :
        cache[e] # Miss /\ cache[e].row # row[e] =>
            \/ cache[e].excused
            \/ \E f \in Refreshes : refresh[f].pc = "invalidate" /\ refresh[f].exo = e

(* The three writers classify on their own.  A row that the refresh or the *)
(* manual check writes gives its status the availability of                *)
(* heartbeatToAvailability; only a push departs from it, and in one way:   *)
(* a number without connectivity data, or with both directions down under  *)
(* a type that is not CRITICAL, becomes DEGRADED with nothing available    *)
(* (webhook.go:146), where the others give it half (generator.go:190).     *)
OnlyPushesDisagree ==
    [][\A e \in Exophones : row'[e] # row[e] =>
          \/ row'[e].avail = heartbeatToAvailability(row'[e].status)
          \/ ExotelHeartbeat /\ row'[e].status = "DEGRADED" /\ row'[e].avail = 0]_vars
=============================================================================
