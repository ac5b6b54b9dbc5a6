----------------------- MODULE HealthSnapshotProofs -----------------------
(***************************************************************************)
(* What is proved of HealthSnapshot for any number of exophones, detached  *)
(* refreshes and requests, any TTL and any patience, and under every       *)
(* combination of writers and faults.                                      *)
(*                                                                         *)
(* A copy spends its age in the request that read it and in Redis after-   *)
(* wards, so the ticks it has been wrong for and the ticks it has left     *)
(* never exceed the two bounds together (AgeInv).  What a refresh writes   *)
(* depends on the row it has on its way (NewRowsAgree).                    *)
(***************************************************************************)
EXTENDS HealthSnapshot, TLAPS

-----------------------------------------------------------------------------
(* Types.                                                                  *)

Statuses == {"UNKNOWN", "OK", "DEGRADED", "OUTAGE"}

(* A heartbeat that is stored has one of the three readings.               *)
LEMMA ReadingType == \A h : ReadingOf(h) \in {"OK", "DEGRADED", "OUTAGE"}
BY DEF ReadingOf

(* What a request of the vendor writes, and what a push does, is a row.    *)
LEMMA CheckedType == \A h : \A e \in Exophones : CheckedRow(e, h) \in Row
BY DEF CheckedRow, Row, Sources

LEMMA PushedType ==
    \A c, d : /\ PushedStatus(c, d).status \in Statuses
              /\ PushedStatus(c, d).avail \in {0, 50, 100}
BY DEF PushedStatus, Statuses

LEMMA AvailabilityType == \A s : heartbeatToAvailability(s) \in {0, 50, 100}
BY DEF heartbeatToAvailability

(* Excuse keeps the type of a copy.                                        *)
LEMMA ExcuseType ==
    ASSUME TypeOK, NEW e \in Exophones
    PROVE  Excuse(e) \in {Miss} \cup Copy
<1>1. CASE cache[e] = Miss
  BY <1>1 DEF Excuse
<1>2. CASE cache[e] # Miss
  <2>1. cache[e] \in Copy
    BY <1>2 DEF TypeOK
  <2>2. [cache[e] EXCEPT !.excused = TRUE] \in Copy
    BY <2>1 DEF Copy
  <2> QED BY <1>2, <2>2 DEF Excuse
<1> QED BY <1>1, <1>2

(* A copy, or what a request holds, that grows older by a tick.            *)
LEMMA AgedCopy ==
    ASSUME NEW s \in Copy, NEW n \in Nat, ~(s.left <= 1)
    PROVE  [s EXCEPT !.left = @ - 1, !.stale = n] \in Copy
<1>1. s.left - 1 \in 1 .. TTL
  BY HealthAssumption DEF Copy
<1> QED BY <1>1, Zenon DEF Copy

LEMMA AgedRequest ==
    ASSUME NEW s \in FillState, NEW n \in Nat, s.held < Patience
    PROVE  [s EXCEPT !.held = @ + 1, !.stale = n] \in FillState
<1>1. s.held + 1 \in 0 .. Patience
  BY HealthAssumption DEF FillState
<1> QED BY <1>1, Zenon DEF FillState

(* A write that invalidates nothing keeps the types.                       *)
LEMMA SilentWriteType ==
    ASSUME TypeOK, NEW es \in SUBSET Exophones, NEW new,
           \A e \in es : new[e] \in Row,
           SilentWrite(es, new)
    PROVE  TypeOK'
<1>1. row' \in [Exophones -> {NoRow} \cup Row]
  BY DEF TypeOK, SilentWrite
<1>2. cache' \in [Exophones -> {Miss} \cup Copy]
  BY ExcuseType DEF TypeOK, SilentWrite
<1> QED BY <1>1, <1>2 DEF TypeOK, SilentWrite

LEMMA TypeStep ==
    ASSUME TypeOK, [Next]_vars
    PROVE  TypeOK'
<1> USE HealthAssumption
<1>1. ASSUME NEW e \in Exophones, SaveHeartbeatMetric(e)
      PROVE  TypeOK'
  <2>1. PICK vn \in BOOLEAN :
          \E h \in {g \in {FetchHeartbeat(a, vn) : a \in Answers} : ~g.fails} :
             latest' = IF latest.fresh THEN latest
                       ELSE [exo |-> e, status |-> ReadingOf(h), fresh |-> TRUE]
    BY <1>1 DEF SaveHeartbeatMetric
  <2>2. PICK h : latest' = IF latest.fresh THEN latest
                           ELSE [exo |-> e, status |-> ReadingOf(h), fresh |-> TRUE]
    BY <2>1
  <2>3. latest' \in [exo : Sources, status : Statuses, fresh : BOOLEAN]
    BY <2>2, ReadingType DEF TypeOK, Sources, Statuses
  <2> QED BY <1>1, <2>3 DEF TypeOK, SaveHeartbeatMetric, Statuses
<1>2. ASSUME NEW f \in Refreshes, NEW e \in Exophones, ReadHeartbeat(f, e)
      PROVE  TypeOK'
  <2>1. PICK hb \in {latest, NoReading} :
          refresh' = [refresh EXCEPT ![f] =
                         [pc |-> "upsert", exo |-> e,
                          new |-> [status |-> hb.status, of |-> hb.exo,
                                   avail |-> heartbeatToAvailability(hb.status)]]]
    BY <1>2 DEF ReadHeartbeat
  <2>2. hb.status \in Statuses /\ hb.exo \in Sources
    BY DEF TypeOK, NoReading, Sources, Statuses
  <2>3. [status |-> hb.status, of |-> hb.exo,
         avail |-> heartbeatToAvailability(hb.status)] \in Row
    BY <2>2, AvailabilityType DEF Row, Statuses
  <2>4. refresh' \in [Refreshes -> {Idle} \cup RefreshState]
    BY <2>1, <2>3 DEF TypeOK, RefreshState
  <2> QED BY <1>2, <2>4 DEF TypeOK, ReadHeartbeat
<1>3. ASSUME NEW f \in Refreshes, Upsert(f)
      PROVE  TypeOK'
  <2>1. refresh[f] \in RefreshState
    BY <1>3 DEF TypeOK, Upsert, Idle
  <2>2. refresh[f].exo \in Exophones /\ refresh[f].new \in Row
    BY <2>1 DEF RefreshState
  <2>3. row' \in [Exophones -> {NoRow} \cup Row]
    BY <1>3, <2>2 DEF TypeOK, Upsert
  <2>4. [refresh[f] EXCEPT !.pc = "invalidate"] \in RefreshState
    BY <2>1 DEF RefreshState
  <2>5. refresh' \in [Refreshes -> {Idle} \cup RefreshState]
    BY <1>3, <2>4 DEF TypeOK, Upsert
  <2> QED BY <1>3, <2>3, <2>5 DEF TypeOK, Upsert
<1>4. ASSUME NEW f \in Refreshes, Invalidate(f)
      PROVE  TypeOK'
  <2>1. refresh[f] \in RefreshState
    BY <1>4 DEF TypeOK, Invalidate, Idle
  <2>2. refresh[f].exo \in Exophones
    BY <2>1 DEF RefreshState
  <2>3. cache' \in [Exophones -> {Miss} \cup Copy]
    BY <1>4, <2>2, ExcuseType DEF TypeOK, Invalidate
  <2>4. refresh' \in [Refreshes -> {Idle} \cup RefreshState]
    BY <1>4 DEF TypeOK, Invalidate
  <2> QED BY <1>4, <2>3, <2>4 DEF TypeOK, Invalidate
<1>5. ASSUME NEW e \in Exophones, CheckExophoneHeartbeat(e)
      PROVE  TypeOK'
  <2>1. PICK h : SilentWrite({e}, [x \in {e} |-> CheckedRow(e, h)])
    BY <1>5 DEF CheckExophoneHeartbeat
  <2>2. \A x \in {e} : [y \in {e} |-> CheckedRow(e, h)][x] \in Row
    BY CheckedType
  <2> QED BY <2>1, <2>2, SilentWriteType
<1>6. ASSUME ExotelHeartbeat
      PROVE  TypeOK'
  <2>1. PICK es \in SUBSET Exophones, c \in BOOLEAN :
          \E pushed \in [es -> {PushedStatus(c, d) : d \in Directions \cup {NoData}}] :
             SilentWrite(es, [e \in es |->
                [status |-> pushed[e].status, avail |-> pushed[e].avail, of |-> e]])
    BY <1>6 DEF ExotelHeartbeat
  <2>2. PICK pushed \in [es -> {PushedStatus(c, d) : d \in Directions \cup {NoData}}] :
          SilentWrite(es, [e \in es |->
             [status |-> pushed[e].status, avail |-> pushed[e].avail, of |-> e]])
    BY <2>1
  <2>3. \A e \in es : pushed[e].status \in Statuses /\ pushed[e].avail \in {0, 50, 100}
    BY <2>2, PushedType
  <2>4. \A e \in es : [x \in es |-> [status |-> pushed[x].status,
                                     avail |-> pushed[x].avail, of |-> x]][e] \in Row
    BY <2>3 DEF Row, Sources, Statuses
  <2> QED BY <2>2, <2>4, SilentWriteType
<1>7. ASSUME NEW r \in Readers, NEW e \in Exophones, Lookup(r, e)
      PROVE  TypeOK'
  BY <1>7 DEF TypeOK, Lookup, QueryState
<1>8. ASSUME NEW r \in Readers, Query(r)
      PROVE  TypeOK'
  <2>1. reader[r] \in QueryState
    BY <1>8 DEF TypeOK, Query, Idle, FillState
  <2>2. reader[r].exo \in Exophones
    BY <2>1 DEF QueryState
  <2>3. row[reader[r].exo] # NoRow =>
          [pc |-> "fill", exo |-> reader[r].exo, row |-> row[reader[r].exo],
           held |-> 0, stale |-> 0] \in FillState
    BY <2>2 DEF TypeOK, FillState
  <2>4. reader' \in [Readers -> {Idle} \cup QueryState \cup FillState]
    BY <1>8, <2>3 DEF TypeOK, Query
  <2> QED BY <1>8, <2>4 DEF TypeOK, Query
<1>9. ASSUME NEW r \in Readers, Fill(r)
      PROVE  TypeOK'
  <2>1. reader[r] \in FillState
    BY <1>9 DEF TypeOK, Fill, Idle, QueryState
  <2>2. [row |-> reader[r].row, left |-> TTL, stale |-> reader[r].stale,
         excused |-> reader[r].row # row[reader[r].exo]] \in Copy
    BY <2>1 DEF FillState, Copy
  <2>3. cache' \in [Exophones -> {Miss} \cup Copy]
    BY <1>9, <2>2 DEF TypeOK, Fill
  <2>4. reader' \in [Readers -> {Idle} \cup QueryState \cup FillState]
    BY <1>9 DEF TypeOK, Fill
  <2> QED BY <1>9, <2>3, <2>4 DEF TypeOK, Fill
<1>10. ASSUME Tick
       PROVE  TypeOK'
  <2>1. latest' \in [exo : Sources, status : Statuses, fresh : BOOLEAN]
    BY <1>10 DEF TypeOK, Tick, Statuses
  <2>2. ASSUME NEW e \in Exophones
        PROVE  cache'[e] \in {Miss} \cup Copy
    <3>1. CASE cache[e].left <= 1
      BY <1>10, <3>1 DEF Tick
    <3>2. CASE ~(cache[e].left <= 1)
      <4>1. cache[e] \in Copy
        BY <3>2 DEF TypeOK, Miss
      <4>2. Older(cache[e], e) \in Nat
        BY <4>1 DEF Older, Copy
      <4>3. [cache[e] EXCEPT !.left = @ - 1, !.stale = Older(cache[e], e)] \in Copy
        BY <3>2, <4>1, <4>2, AgedCopy
      <4>4. cache'[e] = [cache[e] EXCEPT !.left = @ - 1, !.stale = Older(cache[e], e)]
        BY <1>10, <3>2 DEF Tick
      <4> QED BY <4>3, <4>4
    <3> QED BY <3>1, <3>2
  <2>3. ASSUME NEW r \in Readers
        PROVE  reader'[r] \in {Idle} \cup QueryState \cup FillState
    <3>1. CASE reader[r].pc # "fill"
      BY <1>10, <3>1 DEF TypeOK, Tick
    <3>2. CASE reader[r].pc = "fill"
      <4>1. reader[r] \in FillState
        BY <3>2 DEF TypeOK, Idle, QueryState
      <4>2. Older(reader[r], reader[r].exo) \in Nat
        BY <4>1 DEF Older, FillState
      <4>3. reader[r].held < Patience
        BY <1>10, <3>2 DEF Tick
      <4>4. [reader[r] EXCEPT !.held = @ + 1,
                              !.stale = Older(reader[r], reader[r].exo)] \in FillState
        BY <4>1, <4>2, <4>3, AgedRequest
      <4>5. reader'[r] = [reader[r] EXCEPT !.held = @ + 1,
                              !.stale = Older(reader[r], reader[r].exo)]
        BY <1>10, <3>2 DEF Tick
      <4> QED BY <4>4, <4>5
    <3> QED BY <3>1, <3>2
  <2>4. cache' \in [Exophones -> {Miss} \cup Copy]
    BY <1>10, <2>2 DEF Tick
  <2>5. reader' \in [Readers -> {Idle} \cup QueryState \cup FillState]
    BY <1>10, <2>3 DEF Tick
  <2> QED BY <1>10, <2>1, <2>4, <2>5 DEF TypeOK, Tick, Statuses
<1>11. ASSUME Crash
       PROVE  TypeOK'
  <2>1. cache' \in [Exophones -> {Miss} \cup Copy]
    BY <1>11, ExcuseType DEF TypeOK, Crash
  <2> QED BY <1>11, <2>1 DEF TypeOK, Crash
<1>12. CASE UNCHANGED vars
  BY <1>12 DEF TypeOK, vars
<1> QED
  BY <1>1, <1>2, <1>3, <1>4, <1>5, <1>6, <1>7, <1>8, <1>9, <1>10, <1>11, <1>12
     DEF Next, RefreshStep, ReaderStep

(* Every variable keeps its type, whatever the vendor answers or pushes.   *)
THEOREM HealthTypeCorrect == Spec => []TypeOK
<1>1. Init => TypeOK
  BY DEF Init, TypeOK, NoReading, Sources
<1>2. TypeOK /\ [Next]_vars => TypeOK'
  BY TypeStep
<1> QED BY <1>1, <1>2, PTL DEF Spec

-----------------------------------------------------------------------------
(* Staleness.                                                              *)

(* Excuse touches nothing but the excuse.                                  *)
LEMMA ExcuseKeeps ==
    ASSUME TypeOK, NEW e \in Exophones, Excuse(e) # Miss
    PROVE  /\ cache[e] # Miss
           /\ Excuse(e).row = cache[e].row
           /\ Excuse(e).left = cache[e].left
           /\ Excuse(e).stale = cache[e].stale
           /\ Excuse(e).excused
<1>1. cache[e] # Miss
  BY DEF Excuse
<1>2. cache[e] \in Copy
  BY <1>1 DEF TypeOK
<1>3. Excuse(e) = [cache[e] EXCEPT !.excused = TRUE]
  BY <1>1 DEF Excuse
<1> QED BY <1>1, <1>2, <1>3 DEF Copy

(* Every step but Fill and Tick leaves the copies as they are, takes them  *)
(* away or excuses them, and starts a request with a row of age zero.      *)
LEMMA CopiesOtherwiseKept ==
    ASSUME TypeOK, [Next]_vars, ~Tick, \A r \in Readers : ~Fill(r)
    PROVE  /\ \A e \in Exophones : cache'[e] \in {Miss, cache[e], Excuse(e)}
           /\ \A r \in Readers : reader'[r].pc = "fill" =>
                 \/ reader'[r] = reader[r]
                 \/ reader'[r].stale = 0 /\ reader'[r].held = 0
<1> DEFINE Goal ==
      /\ \A e \in Exophones : cache'[e] \in {Miss, cache[e], Excuse(e)}
      /\ \A r \in Readers : reader'[r].pc = "fill" =>
            \/ reader'[r] = reader[r]
            \/ reader'[r].stale = 0 /\ reader'[r].held = 0
<1>1. ASSUME NEW es \in SUBSET Exophones, NEW new, SilentWrite(es, new)
      PROVE  Goal
  BY <1>1 DEF SilentWrite
<1>2. ASSUME NEW e \in Exophones, SaveHeartbeatMetric(e)
      PROVE  Goal
  BY <1>2 DEF SaveHeartbeatMetric
<1>3. ASSUME NEW f \in Refreshes, NEW e \in Exophones, ReadHeartbeat(f, e)
      PROVE  Goal
  BY <1>3 DEF ReadHeartbeat
<1>4. ASSUME NEW f \in Refreshes, Upsert(f)
      PROVE  Goal
  BY <1>4 DEF Upsert
<1>5. ASSUME NEW f \in Refreshes, Invalidate(f)
      PROVE  Goal
  BY <1>5 DEF Invalidate, TypeOK
<1>6. ASSUME NEW e \in Exophones, CheckExophoneHeartbeat(e)
      PROVE  Goal
  BY <1>6, <1>1 DEF CheckExophoneHeartbeat
<1>7. ASSUME ExotelHeartbeat
      PROVE  Goal
  <2>1. PICK es \in SUBSET Exophones : \E new : SilentWrite(es, new)
    BY <1>7 DEF ExotelHeartbeat
  <2> QED BY <2>1, <1>1
<1>8. ASSUME NEW r \in Readers, NEW e \in Exophones, Lookup(r, e)
      PROVE  Goal
  BY <1>8 DEF Lookup, TypeOK
<1>9. ASSUME NEW r \in Readers, Query(r)
      PROVE  Goal
  BY <1>9 DEF Query, TypeOK, Idle
<1>10. ASSUME Crash
       PROVE  Goal
  BY <1>10 DEF Crash, Idle
<1>11. CASE UNCHANGED vars
  BY <1>11 DEF vars
<1> QED
  BY <1>2, <1>3, <1>4, <1>5, <1>6, <1>7, <1>8, <1>9, <1>10, <1>11
     DEF Next, RefreshStep, ReaderStep

LEMMA OlderBound ==
    ASSUME NEW s, NEW e, s.stale \in Nat
    PROVE  Older(s, e) \in Nat /\ Older(s, e) <= s.stale + 1
BY DEF Older

LEMMA AgeStep ==
    ASSUME TypeOK, AgeInv, [Next]_vars
    PROVE  AgeInv'
<1> USE HealthAssumption
<1>1. ASSUME Tick
      PROVE  AgeInv'
  <2>1. ASSUME NEW e \in Exophones, cache'[e] # Miss
        PROVE  cache'[e].stale + cache'[e].left <= TTL + Patience
    <3>1. ~(cache[e].left <= 1)
      BY <1>1, <2>1 DEF Tick
    <3>2. cache[e] \in Copy /\ cache[e] # Miss
      BY <3>1 DEF TypeOK, Miss
    <3>3. cache'[e] = [cache[e] EXCEPT !.left = @ - 1, !.stale = Older(cache[e], e)]
      BY <1>1, <3>1 DEF Tick
    <3>4. cache[e].stale \in Nat /\ cache[e].left \in Nat
      BY <3>2 DEF Copy
    <3>5. cache'[e].left = cache[e].left - 1 /\ cache'[e].stale = Older(cache[e], e)
      BY <3>2, <3>3, Zenon DEF Copy
    <3>6. cache[e].stale + cache[e].left <= TTL + Patience
      BY <3>2 DEF AgeInv
    <3> QED BY <3>4, <3>5, <3>6, OlderBound
  <2>2. ASSUME NEW r \in Readers, reader'[r].pc = "fill"
        PROVE  reader'[r].stale <= reader'[r].held
    <3>1. reader[r].pc = "fill"
      BY <1>1, <2>2 DEF Tick
    <3>2. reader[r] \in FillState
      BY <3>1 DEF TypeOK, Idle, QueryState
    <3>3. reader'[r] = [reader[r] EXCEPT !.held = @ + 1,
                                        !.stale = Older(reader[r], reader[r].exo)]
      BY <1>1, <3>1 DEF Tick
    <3>4. reader[r].stale \in Nat /\ reader[r].held \in Nat
      BY <3>2 DEF FillState
    <3>5. /\ reader'[r].held = reader[r].held + 1
          /\ reader'[r].stale = Older(reader[r], reader[r].exo)
      BY <3>2, <3>3, Zenon DEF FillState
    <3>6. reader[r].stale <= reader[r].held
      BY <3>1 DEF AgeInv
    <3> QED BY <3>4, <3>5, <3>6, OlderBound
  <2> QED BY <2>1, <2>2 DEF AgeInv
<1>2. ASSUME NEW r \in Readers, Fill(r)
      PROVE  AgeInv'
  <2>1. reader[r] \in FillState /\ reader[r].stale <= reader[r].held
    BY <1>2 DEF TypeOK, Fill, Idle, QueryState, AgeInv
  <2>2. reader[r].stale <= Patience /\ reader[r].stale \in Nat
    BY <2>1 DEF FillState
  <2>3. ASSUME NEW e \in Exophones, cache'[e] # Miss
        PROVE  cache'[e].stale + cache'[e].left <= TTL + Patience
    <3>1. CASE cache'[e] = cache[e]
      BY <2>3, <3>1 DEF AgeInv
    <3>2. CASE cache'[e] # cache[e]
      <4>1. cache'[e].left = TTL /\ cache'[e].stale = reader[r].stale
        BY <1>2, <3>2 DEF Fill, TypeOK
      <4> QED BY <4>1, <2>2
    <3> QED BY <3>1, <3>2
  <2>4. ASSUME NEW q \in Readers, reader'[q].pc = "fill"
        PROVE  reader'[q].stale <= reader'[q].held
    BY <1>2, <2>4 DEF Fill, TypeOK, AgeInv, Idle
  <2> QED BY <2>3, <2>4 DEF AgeInv
<1>3. CASE ~Tick /\ \A r \in Readers : ~Fill(r)
  <2>1. ASSUME NEW e \in Exophones, cache'[e] # Miss
        PROVE  cache'[e].stale + cache'[e].left <= TTL + Patience
    BY <1>3, <2>1, CopiesOtherwiseKept, ExcuseKeeps DEF AgeInv
  <2>2. ASSUME NEW r \in Readers, reader'[r].pc = "fill"
        PROVE  reader'[r].stale <= reader'[r].held
    BY <1>3, <2>2, CopiesOtherwiseKept DEF AgeInv
  <2> QED BY <2>1, <2>2 DEF AgeInv
<1> QED BY <1>1, <1>2, <1>3

(* Nobody is shown a row replaced longer ago than the TTL and the time a   *)
(* request lasts, even if Redis loses every invalidation.                  *)
THEOREM BoundedStalenessHolds == Spec => []BoundedStaleness
<1>1. Init => TypeOK /\ AgeInv
  BY DEF Init, TypeOK, NoReading, Sources, AgeInv, Idle
<1>2. TypeOK /\ AgeInv /\ [Next]_vars => (TypeOK /\ AgeInv)'
  BY TypeStep, AgeStep
<1>3. TypeOK /\ AgeInv => BoundedStaleness
  <2> SUFFICES ASSUME TypeOK, AgeInv, NEW e \in Exophones, cache[e] # Miss
               PROVE  cache[e].stale <= TTL + Patience
    BY DEF BoundedStaleness
  <2>1. cache[e].left \in Nat /\ cache[e].stale \in Nat
    BY HealthAssumption DEF TypeOK, Copy
  <2>2. cache[e].stale + cache[e].left <= TTL + Patience
    BY DEF AgeInv
  <2> QED BY <2>1, <2>2, HealthAssumption
<1> QED BY <1>1, <1>2, <1>3, PTL DEF Spec

-----------------------------------------------------------------------------
(* What a row claims of its status.                                        *)

Agrees(r) == r.avail = heartbeatToAvailability(r.status)

(* The rows that refreshes are about to write.                             *)
NewRowsAgree == \A f \in Refreshes : refresh[f].pc = "upsert" => Agrees(refresh[f].new)

LEMMA ConversionsAgree ==
    /\ \A s, o : Agrees([status |-> s, of |-> o, avail |-> heartbeatToAvailability(s)])
    /\ \A e, h : Agrees(CheckedRow(e, h))
    /\ \A c, d : \/ PushedStatus(c, d).avail = heartbeatToAvailability(PushedStatus(c, d).status)
                 \/ PushedStatus(c, d).status = "DEGRADED" /\ PushedStatus(c, d).avail = 0
<1>1. \A s, o : Agrees([status |-> s, of |-> o, avail |-> heartbeatToAvailability(s)])
  BY DEF Agrees
<1>2. \A e, h : Agrees(CheckedRow(e, h))
  BY DEF Agrees, CheckedRow, heartbeatToAvailability
<1>3. \A c, d : \/ PushedStatus(c, d).avail = heartbeatToAvailability(PushedStatus(c, d).status)
                \/ PushedStatus(c, d).status = "DEGRADED" /\ PushedStatus(c, d).avail = 0
  BY DEF PushedStatus, heartbeatToAvailability
<1> QED BY <1>1, <1>2, <1>3

(* For an answer that shows both directions of one number, the reading     *)
(* with its refresh, the manual check and the push come to the same status *)
(* and availability: the three classifications differ on other answers.    *)
THEOREM ClassificationsAgree ==
    ASSUME NEW d \in Directions, NEW e \in Exophones
    PROVE  LET h      == FetchHeartbeat([v2 |-> d, v1 |-> "not asked"], TRUE)
               pushed == PushedStatus(h.type = "CRITICAL", d) IN
           /\ pushed.status = ReadingOf(h)
           /\ pushed.avail = heartbeatToAvailability(ReadingOf(h))
           /\ CheckedRow(e, h) = [status |-> pushed.status, avail |-> pushed.avail, of |-> e]
<1> DEFINE h == FetchHeartbeat([v2 |-> d, v1 |-> "not asked"], TRUE)
<1>1. d # NoData
  BY DEF Directions, NoData
<1>2. d.inc \in {"active", "major_outage"} /\ d.out \in {"active", "major_outage"}
  BY DEF Directions
<1> SUFFICES /\ PushedStatus(h.type = "CRITICAL", d).status = ReadingOf(h)
             /\ PushedStatus(h.type = "CRITICAL", d).avail = heartbeatToAvailability(ReadingOf(h))
             /\ CheckedRow(e, h) = [status |-> PushedStatus(h.type = "CRITICAL", d).status,
                                    avail |-> PushedStatus(h.type = "CRITICAL", d).avail,
                                    of |-> e]
  OBVIOUS
<1> HIDE DEF h
<1>3. CASE Down(d.inc) /\ Down(d.out)
  <2>1. /\ h.type = "CRITICAL" /\ h.affected = TRUE /\ h.data = d
    BY <1>1, <1>2, <1>3 DEF h, FetchHeartbeat, Down
  <2>2. ReadingOf(h) = "OUTAGE"
    BY <2>1 DEF ReadingOf
  <2>3. /\ PushedStatus(h.type = "CRITICAL", d).status = "OUTAGE"
        /\ PushedStatus(h.type = "CRITICAL", d).avail = 0
    BY <1>2, <1>3, <2>1 DEF PushedStatus, Down, BothUp, OneUp
  <2>4. CheckedRow(e, h) = [status |-> "OUTAGE", avail |-> 0, of |-> e]
    BY <1>1, <1>2, <1>3, <2>1 DEF CheckedRow, Down
  <2>5. heartbeatToAvailability("OUTAGE") = 0
    BY DEF heartbeatToAvailability
  <2> QED BY <2>2, <2>3, <2>4, <2>5
<1>4. CASE Down(d.inc) /\ ~Down(d.out)
  <2>1. /\ h.type = "WARNING" /\ h.affected = TRUE /\ h.data = d
    BY <1>1, <1>2, <1>4 DEF h, FetchHeartbeat, Down
  <2>2. ReadingOf(h) = "DEGRADED"
    BY <2>1 DEF ReadingOf
  <2>3. /\ PushedStatus(h.type = "CRITICAL", d).status = "DEGRADED"
        /\ PushedStatus(h.type = "CRITICAL", d).avail = 50
    BY <1>2, <1>4, <2>1 DEF PushedStatus, Down, BothUp, OneUp
  <2>4. CheckedRow(e, h) = [status |-> "DEGRADED", avail |-> 50, of |-> e]
    BY <1>1, <1>2, <1>4, <2>1 DEF CheckedRow, Down
  <2>5. heartbeatToAvailability("DEGRADED") = 50
    BY DEF heartbeatToAvailability
  <2> QED BY <2>2, <2>3, <2>4, <2>5
<1>5. CASE ~Down(d.inc) /\ Down(d.out)
  <2>1. /\ h.type = "WARNING" /\ h.affected = TRUE /\ h.data = d
    BY <1>1, <1>2, <1>5 DEF h, FetchHeartbeat, Down
  <2>2. ReadingOf(h) = "DEGRADED"
    BY <2>1 DEF ReadingOf
  <2>3. /\ PushedStatus(h.type = "CRITICAL", d).status = "DEGRADED"
        /\ PushedStatus(h.type = "CRITICAL", d).avail = 50
    BY <1>2, <1>5, <2>1 DEF PushedStatus, Down, BothUp, OneUp
  <2>4. CheckedRow(e, h) = [status |-> "DEGRADED", avail |-> 50, of |-> e]
    BY <1>1, <1>2, <1>5, <2>1 DEF CheckedRow, Down
  <2>5. heartbeatToAvailability("DEGRADED") = 50
    BY DEF heartbeatToAvailability
  <2> QED BY <2>2, <2>3, <2>4, <2>5
<1>6. CASE ~Down(d.inc) /\ ~Down(d.out)
  <2>1. /\ h.type = "OK" /\ h.affected = FALSE /\ h.data = d
    BY <1>1, <1>2, <1>6 DEF h, FetchHeartbeat, Down
  <2>2. ReadingOf(h) = "OK"
    BY <2>1 DEF ReadingOf
  <2>3. /\ PushedStatus(h.type = "CRITICAL", d).status = "OK"
        /\ PushedStatus(h.type = "CRITICAL", d).avail = 100
    BY <1>2, <1>6, <2>1 DEF PushedStatus, Down, BothUp, OneUp
  <2>4. CheckedRow(e, h) = [status |-> "OK", avail |-> 100, of |-> e]
    BY <1>1, <1>2, <1>6, <2>1 DEF CheckedRow, Down
  <2>5. heartbeatToAvailability("OK") = 100
    BY DEF heartbeatToAvailability
  <2> QED BY <2>2, <2>3, <2>4, <2>5
<1> QED BY <1>3, <1>4, <1>5, <1>6

LEMMA NewRowsStep ==
    ASSUME TypeOK, NewRowsAgree, [Next]_vars
    PROVE  NewRowsAgree'
<1>1. ASSUME NEW f \in Refreshes, NEW e \in Exophones, ReadHeartbeat(f, e)
      PROVE  NewRowsAgree'
  <2>1. PICK hb : refresh' = [refresh EXCEPT ![f] =
                         [pc |-> "upsert", exo |-> e,
                          new |-> [status |-> hb.status, of |-> hb.exo,
                                   avail |-> heartbeatToAvailability(hb.status)]]]
    BY <1>1 DEF ReadHeartbeat
  <2> QED BY <2>1, ConversionsAgree DEF TypeOK, NewRowsAgree
<1>2. ASSUME NEW f \in Refreshes, RefreshStep(f)
      PROVE  NewRowsAgree'
  <2>1. \A g \in Refreshes : refresh'[g].pc = "upsert" => refresh'[g] = refresh[g]
    <3>1. CASE Upsert(f)
      <4>1. refresh[f] \in RefreshState
        BY <3>1 DEF TypeOK, Upsert, Idle
      <4> QED BY <3>1, <4>1 DEF Upsert, TypeOK, Idle, RefreshState
    <3>2. CASE Invalidate(f)
      BY <3>2 DEF Invalidate, TypeOK, Idle
    <3> QED BY <1>2, <3>1, <3>2 DEF RefreshStep
  <2> QED BY <2>1 DEF NewRowsAgree
<1>3. ASSUME UNCHANGED refresh
      PROVE  NewRowsAgree'
  BY <1>3 DEF NewRowsAgree
<1>4. ASSUME Crash
      PROVE  NewRowsAgree'
  BY <1>4 DEF Crash, Idle, NewRowsAgree
<1> QED
  BY <1>1, <1>2, <1>3, <1>4
     DEF Next, ReaderStep, SaveHeartbeatMetric, CheckExophoneHeartbeat, SilentWrite,
         ExotelHeartbeat, Lookup, Query, Fill, Tick, vars

(* A step that writes a row: the refresh, the manual check and the push.   *)
LEMMA WrittenRow ==
    ASSUME TypeOK, NewRowsAgree, [Next]_vars, NEW e \in Exophones, row'[e] # row[e]
    PROVE  \/ Agrees(row'[e])
           \/ ExotelHeartbeat /\ row'[e].status = "DEGRADED" /\ row'[e].avail = 0
<1>1. CASE \E f \in Refreshes : Upsert(f)
  <2>1. PICK f \in Refreshes : Upsert(f)
    BY <1>1
  <2>2. Agrees(refresh[f].new)
    BY <2>1 DEF Upsert, NewRowsAgree
  <2>3. row'[e] \in {row[e], refresh[f].new}
    BY <2>1 DEF Upsert, TypeOK
  <2> QED BY <2>2, <2>3
<1>2. CASE \E x \in Exophones : CheckExophoneHeartbeat(x)
  <2>0. PICK x \in Exophones : CheckExophoneHeartbeat(x)
    BY <1>2
  <2>1. PICK h : SilentWrite({x}, [y \in {x} |-> CheckedRow(x, h)])
    BY <2>0 DEF CheckExophoneHeartbeat
  <2>2. row'[e] = CheckedRow(x, h)
    BY <2>1 DEF SilentWrite
  <2> QED BY <2>2, ConversionsAgree
<1>3. CASE ExotelHeartbeat
  <2>1. PICK es \in SUBSET Exophones, c \in BOOLEAN :
          \E pushed \in [es -> {PushedStatus(c, d) : d \in Directions \cup {NoData}}] :
             SilentWrite(es, [x \in es |->
                [status |-> pushed[x].status, avail |-> pushed[x].avail, of |-> x]])
    BY <1>3 DEF ExotelHeartbeat
  <2>2. PICK pushed \in [es -> {PushedStatus(c, d) : d \in Directions \cup {NoData}}] :
          SilentWrite(es, [x \in es |->
             [status |-> pushed[x].status, avail |-> pushed[x].avail, of |-> x]])
    BY <2>1
  <2>3. /\ e \in es
        /\ row'[e] = [status |-> pushed[e].status, avail |-> pushed[e].avail, of |-> e]
    BY <2>2 DEF SilentWrite
  <2>4. PICK d : pushed[e] = PushedStatus(c, d)
    BY <2>2, <2>3
  <2> QED BY <1>3, <2>3, <2>4, ConversionsAgree DEF Agrees
<1>4. CASE UNCHANGED row
  BY <1>4
<1> QED
  BY <1>1, <1>2, <1>3, <1>4
     DEF Next, RefreshStep, Invalidate, ReaderStep, SaveHeartbeatMetric, ReadHeartbeat,
         Lookup, Query, Fill, Tick, Crash, vars

(* The refresh and the manual check give a status its availability; a push *)
(* departs from it by writing DEGRADED with nothing available, and in no   *)
(* other way, whatever readings were stored or lost in between.            *)
THEOREM OnlyPushesDisagreeHolds == Spec => OnlyPushesDisagree
<1>1. Init => TypeOK /\ NewRowsAgree
  BY DEF Init, TypeOK, NoReading, Sources, NewRowsAgree, Idle
<1>2. TypeOK /\ NewRowsAgree /\ [Next]_vars => (TypeOK /\ NewRowsAgree)'
  BY TypeStep, NewRowsStep
<1>3. TypeOK /\ NewRowsAgree /\ [Next]_vars =>
        [\A e \in Exophones : row'[e] # row[e] =>
            \/ row'[e].avail = heartbeatToAvailability(row'[e].status)
            \/ ExotelHeartbeat /\ row'[e].status = "DEGRADED" /\ row'[e].avail = 0]_vars
  BY WrittenRow DEF Agrees
<1> QED BY <1>1, <1>2, <1>3, PTL DEF Spec, OnlyPushesDisagree

-----------------------------------------------------------------------------
(* A refresh reaches the readers.                                          *)

Underway(e) ==
    \E f \in Refreshes : refresh[f].pc = "invalidate" /\ refresh[f].exo = e

LEMMA ReachStep ==
    ASSUME TypeOK, RefreshReachesReaders, [Next]_vars
    PROVE  RefreshReachesReaders'
<1> SUFFICES ASSUME NEW e \in Exophones, cache'[e] # Miss, cache'[e].row # row'[e],
                    ~cache'[e].excused
             PROVE  Underway(e)'
  BY DEF RefreshReachesReaders, Underway
<1>1. ASSUME NEW es \in SUBSET Exophones, NEW new, SilentWrite(es, new)
      PROVE  Underway(e)'
  <2>1. cache'[e] = cache[e] /\ row'[e] = row[e]
    BY <1>1, ExcuseKeeps DEF SilentWrite
  <2> QED BY <1>1, <2>1 DEF SilentWrite, RefreshReachesReaders, Underway
<1>2. ASSUME NEW f \in Refreshes, NEW d \in Exophones, ReadHeartbeat(f, d)
      PROVE  Underway(e)'
  <2>1. PICK g \in Refreshes : refresh[g].pc = "invalidate" /\ refresh[g].exo = e
    BY <1>2 DEF ReadHeartbeat, RefreshReachesReaders
  <2>2. refresh'[g] = refresh[g]
    BY <1>2, <2>1 DEF ReadHeartbeat, TypeOK
  <2> QED BY <2>1, <2>2 DEF Underway
<1>3. ASSUME NEW f \in Refreshes, Upsert(f)
      PROVE  Underway(e)'
  <2>1. refresh[f] \in RefreshState
    BY <1>3 DEF Upsert, TypeOK, Idle
  <2>2. CASE row'[e] = row[e]
    <3>1. PICK g \in Refreshes : refresh[g].pc = "invalidate" /\ refresh[g].exo = e
      BY <1>3, <2>2 DEF Upsert, RefreshReachesReaders
    <3>2. refresh'[g] = refresh[g]
      BY <1>3, <3>1 DEF Upsert, TypeOK
    <3> QED BY <3>1, <3>2 DEF Underway
  <2>3. CASE row'[e] # row[e]
    <3>1. refresh[f].exo = e /\ refresh' = [refresh EXCEPT ![f].pc = "invalidate"]
      BY <1>3, <2>3 DEF Upsert, TypeOK
    <3>2. refresh'[f].pc = "invalidate" /\ refresh'[f].exo = e
      BY <2>1, <3>1 DEF TypeOK, RefreshState
    <3> QED BY <3>2 DEF Underway
  <2> QED BY <2>2, <2>3
<1>4. ASSUME NEW f \in Refreshes, Invalidate(f)
      PROVE  Underway(e)'
  <2>1. refresh[f] \in RefreshState
    BY <1>4 DEF Invalidate, TypeOK, Idle
  <2>2. refresh[f].exo # e /\ cache'[e] = cache[e] /\ row' = row
    BY <1>4, <2>1, ExcuseKeeps DEF Invalidate, TypeOK, RefreshState
  <2>3. PICK g \in Refreshes : refresh[g].pc = "invalidate" /\ refresh[g].exo = e
    BY <2>2 DEF RefreshReachesReaders
  <2>4. refresh'[g] = refresh[g]
    BY <1>4, <2>2, <2>3 DEF Invalidate, TypeOK
  <2> QED BY <2>3, <2>4 DEF Underway
<1>5. ASSUME NEW d \in Exophones, CheckExophoneHeartbeat(d)
      PROVE  Underway(e)'
  BY <1>5, <1>1 DEF CheckExophoneHeartbeat
<1>6. ASSUME ExotelHeartbeat
      PROVE  Underway(e)'
  <2>1. PICK es \in SUBSET Exophones : \E new : SilentWrite(es, new)
    BY <1>6 DEF ExotelHeartbeat
  <2> QED BY <2>1, <1>1
<1>7. ASSUME NEW r \in Readers, Fill(r)
      PROVE  Underway(e)'
  <2>1. CASE cache'[e] = cache[e]
    BY <1>7, <2>1 DEF Fill, RefreshReachesReaders, Underway
  <2>2. CASE cache'[e] # cache[e]
    <3>1. /\ reader[r].exo = e
          /\ cache'[e] = [row |-> reader[r].row, left |-> TTL, stale |-> reader[r].stale,
                          excused |-> reader[r].row # row[reader[r].exo]]
      BY <1>7, <2>2 DEF Fill, TypeOK
    <3>2. cache'[e].excused = (reader[r].row # row[reader[r].exo])
      BY <3>1
    <3>3. reader[r].row = row[reader[r].exo]
      BY <3>2, Zenon
    <3>4. cache'[e].row = reader[r].row
      BY <3>1
    <3> QED BY <1>7, <3>1, <3>3, <3>4 DEF Fill
  <2> QED BY <2>1, <2>2
<1>8. ASSUME Tick
      PROVE  Underway(e)'
  <2>1. ~(cache[e].left <= 1)
    BY <1>8 DEF Tick
  <2>2. cache[e] \in Copy /\ cache[e] # Miss
    BY <2>1 DEF TypeOK, Miss
  <2>3. cache'[e] = [cache[e] EXCEPT !.left = @ - 1, !.stale = Older(cache[e], e)]
    BY <1>8, <2>1 DEF Tick
  <2>4. cache'[e].row = cache[e].row /\ cache'[e].excused = cache[e].excused
    BY <2>2, <2>3, Zenon DEF Copy
  <2>5. row' = row /\ refresh' = refresh
    BY <1>8 DEF Tick
  <2>6. cache[e].row # row[e] /\ ~cache[e].excused
    BY <2>4, <2>5
  <2>7. Underway(e)
    BY <2>2, <2>6 DEF RefreshReachesReaders, Underway
  <2> QED BY <2>5, <2>7 DEF Underway
<1>9. ASSUME Crash
      PROVE  Underway(e)'
  <2>1. cache'[e] = IF Underway(e) THEN Excuse(e) ELSE cache[e]
    BY <1>9 DEF Crash, Underway
  <2>2. ~Underway(e)
    BY <2>1, ExcuseKeeps
  <2> QED BY <1>9, <2>1, <2>2 DEF Crash, RefreshReachesReaders, Underway
<1>10. ASSUME UNCHANGED <<row, cache, refresh>>
       PROVE  Underway(e)'
  BY <1>10 DEF RefreshReachesReaders, Underway
<1> QED
  BY <1>2, <1>3, <1>4, <1>5, <1>6, <1>7, <1>8, <1>9, <1>10
     DEF Next, RefreshStep, ReaderStep, SaveHeartbeatMetric, Lookup, Query, vars

(* Unless its copy was stored late, or the last write was one that never   *)
(* invalidates, what a refresh replaces is on its way out of the cache.    *)
THEOREM RefreshReachesReadersHolds == Spec => []RefreshReachesReaders
<1>1. Init => TypeOK /\ RefreshReachesReaders
  BY DEF Init, TypeOK, NoReading, Sources, RefreshReachesReaders
<1>2. TypeOK /\ RefreshReachesReaders /\ [Next]_vars
        => (TypeOK /\ RefreshReachesReaders)'
  BY TypeStep, ReachStep
<1> QED BY <1>1, <1>2, PTL DEF Spec
=============================================================================
