------------------------- MODULE CallPipelineProofs -------------------------
(* Proofs about CallPipeline for every number of calls, exophones and       *)
(* concurrent executions: counting at most once, losing nothing, the ledger,*)
(* the dashboard, and that executions and repairs run out of steps.         *)
EXTENDS CallPipeline, FiniteSetTheorems, TLAPS

-----------------------------------------------------------------------------
(* Type correctness.                                                        *)

LEMMA RowTypes ==
    /\ Empty \in [Calls -> Nat]
    /\ \A S : RowOf(S) \in [Calls -> Nat]
    /\ \A f \in [Calls -> Nat] : \A S : Plus(f, S) \in [Calls -> Nat]
  BY DEF Empty, RowOf, Plus

(* The record of an execution that has started has all its fields.          *)
LEMMA StartedRun ==
    ASSUME TypeOK, NEW x \in Runs, run[x].pc # "idle"
    PROVE  run[x] \in RunState
  BY DEF TypeOK, Idle

LEMMA StartedRepair ==
    ASSUME TypeOK, NEW r \in Repairs, repair[r].pc # "idle"
    PROVE  repair[r] \in RepairState
  BY DEF TypeOK, Idle

LEMMA PagesType ==
    ASSUME NEW e \in Exophones, NEW S \in SUBSET Calls, NEW ok \in BOOLEAN
    PROVE  Pages(e, S, ok) \subseteq [exo : Exophones, call : Calls, ok : BOOLEAN]
  BY DEF Pages

LEMMA StoredType == ASSUME NEW S, NEW T \in Stored(S) PROVE T \subseteq S
  BY DEF Stored

LEMMA PipelineTypeInit == ASSUME Init PROVE TypeOK
<1>1. dashboard \in [Exophones -> [Calls -> Nat]] /\ snapshot \in [Exophones -> [Calls -> Nat]]
  BY RowTypes DEF Init
<1>2. skip \in [Exophones -> BOOLEAN] /\ skipAll \in BOOLEAN
  BY PipelineAssumption, Zenon DEF Init, PipelineAssumption
<1>3. run \in [Runs -> {Idle} \cup RunState] /\ repair \in [Repairs -> {Idle} \cup RepairState]
  BY DEF Init
<1>4. dedup \in [Exophones -> SUBSET Calls] /\ logs \in [Exophones -> SUBSET Calls]
  BY DEF Init
<1> QED
  BY <1>1, <1>2, <1>3, <1>4 DEF Init, TypeOK

(* The steps of one execution.                                              *)
LEMMA PipelineTypeRun ==
    ASSUME TypeOK, NEW x \in Runs, RunStep(x)
    PROVE  TypeOK'
<1> DEFINE s == run[x]
<1>0. s \in RunState
  BY StartedRun DEF RunStep, FetchCalls, FetchFails, Register, RegisterFails,
     SaveCallLogs, ReadSnapshot, UpsertSnapshot, UpdateDashboard
<1>e. s.exo \in Exophones
  BY <1>0 DEF RunState
<1>1. CASE FetchCalls(x)
  <2>1. PICK batch \in SUBSET Calls :
           /\ \E S \in Stored(batch) : pages' = pages \cup Pages(s.exo, S, TRUE)
           /\ run' = [run EXCEPT ![x].batch = batch, ![x].todo = batch,
                         ![x].pc = IF batch = {} THEN "logs" ELSE "register"]
    BY <1>1 DEF FetchCalls, Reported, Own, TypeOK
  <2>2. pages' \subseteq [exo : Exophones, call : Calls, ok : BOOLEAN]
    BY <1>e, <2>1, StoredType, PagesType DEF TypeOK
  <2>3. run' \in [Runs -> {Idle} \cup RunState]
    BY <1>0, <2>1 DEF TypeOK, RunState
  <2> QED
    BY <1>1, <2>2, <2>3 DEF FetchCalls, TypeOK, settings
<1>2. CASE FetchFails(x)
  <2>1. PICK S \in SUBSET Calls, ok \in BOOLEAN : pages' = pages \cup Pages(s.exo, S, ok)
    BY <1>2 DEF FetchFails, Reported, Own, TypeOK
  <2>2. pages' \subseteq [exo : Exophones, call : Calls, ok : BOOLEAN]
    BY <1>e, <2>1, PagesType DEF TypeOK
  <2>3. run' \in [Runs -> {Idle} \cup RunState]
    BY <1>2 DEF FetchFails, TypeOK
  <2> QED
    BY <1>2, <2>2, <2>3 DEF FetchFails, TypeOK, settings
<1>3. ASSUME NEW c \in Calls, Register(x, c) PROVE TypeOK'
  <2>1. run' \in [Runs -> {Idle} \cup RunState]
    <3> DEFINE rest == s.todo \ {c}
               fresh == IF c \in dedup[s.exo] THEN s.fresh ELSE s.fresh \cup {c}
               pc == IF rest = {} THEN "logs" ELSE "register"
    <3>1. run' = [run EXCEPT ![x] = [s EXCEPT !.todo = rest, !.fresh = fresh, !.pc = pc]]
      BY <1>3 DEF Register
    <3>2. rest \in SUBSET Calls /\ fresh \in SUBSET Calls /\ pc \in {"logs", "register"}
      BY <1>0 DEF RunState
    <3> HIDE DEF rest, fresh, pc
    <3>3. [s EXCEPT !.todo = rest, !.fresh = fresh, !.pc = pc] \in RunState
      BY <1>0, <3>2 DEF RunState
    <3> QED
      BY <3>1, <3>3 DEF TypeOK
  <2>2. dedup' \in [Exophones -> SUBSET Calls]
    BY <1>e, <1>3 DEF Register, TypeOK
  <2> QED
    BY <1>3, <2>1, <2>2 DEF Register, TypeOK, settings
<1>4. CASE RegisterFails(x)
  <2>1. run' \in [Runs -> {Idle} \cup RunState]
    BY <1>0, <1>4 DEF RegisterFails, TypeOK, RunState
  <2> QED
    BY <1>4, <2>1 DEF RegisterFails, TypeOK, settings, stores
<1>5. CASE SaveCallLogs(x)
  <2>1. run' \in [Runs -> {Idle} \cup RunState]
    BY <1>0, <1>5 DEF SaveCallLogs, TypeOK, RunState
  <2>2. logs' \in [Exophones -> SUBSET Calls]
    <3>1. s.fresh \subseteq Calls
      BY <1>0 DEF RunState
    <3>2. CASE UNCHANGED logs
      BY <3>2 DEF TypeOK
    <3>3. CASE \E S \in Stored(s.fresh) : logs' = [logs EXCEPT ![s.exo] = @ \cup S]
      BY <1>e, <3>1, <3>3, StoredType DEF TypeOK
    <3> QED
      BY <1>5, <3>2, <3>3 DEF SaveCallLogs
  <2> QED
    BY <1>5, <2>1, <2>2 DEF SaveCallLogs, TypeOK, settings
<1>6. CASE ReadSnapshot(x)
  <2>1. PICK row \in [Calls -> Nat] : run' = [run EXCEPT ![x].row = row, ![x].pc = "upsert"]
    BY <1>e, <1>6, RowTypes DEF ReadSnapshot, TypeOK
  <2>2. run' \in [Runs -> {Idle} \cup RunState]
    BY <1>0, <2>1 DEF TypeOK, RunState
  <2> QED
    BY <1>6, <2>2 DEF ReadSnapshot, TypeOK, settings, stores
<1>7. CASE UpsertSnapshot(x)
  <2>1. run' \in [Runs -> {Idle} \cup RunState]
    BY <1>0, <1>7 DEF UpsertSnapshot, TypeOK, RunState
  <2>2. Plus(s.row, s.fresh) \in [Calls -> Nat]
    BY <1>0, RowTypes DEF RunState
  <2>3. snapshot' \in [Exophones -> [Calls -> Nat]]
    BY <1>7, <2>2 DEF UpsertSnapshot, TypeOK
  <2> QED
    BY <1>7, <2>1, <2>3 DEF UpsertSnapshot, TypeOK, settings
<1>8. CASE UpdateDashboard(x)
  <2>1. dashboard' \in [Exophones -> [Calls -> Nat]]
    <3>1. [e \in Exophones |-> RowOf(logs[e])] \in [Exophones -> [Calls -> Nat]]
      BY RowTypes
    <3> QED
      BY <1>8, <3>1 DEF UpdateDashboard, TypeOK
  <2>2. run' \in [Runs -> {Idle} \cup RunState]
    BY <1>8 DEF UpdateDashboard, TypeOK
  <2> QED
    BY <1>8, <2>1, <2>2 DEF UpdateDashboard, TypeOK, settings
<1> QED
  BY <1>1, <1>2, <1>3, <1>4, <1>5, <1>6, <1>7, <1>8 DEF RunStep

(* The steps of one repair.                                                 *)
LEMMA PipelineTypeRepair ==
    ASSUME TypeOK, NEW r \in Repairs, RepairStep(r)
    PROVE  TypeOK'
<1> DEFINE s == repair[r]
<1>0. s \in RepairState
  BY StartedRepair DEF RepairStep, ReprocessFromLogs, RepairCallLogs, OverwriteSnapshot,
     RepairRegister, RepairRegisterFails, RepairDashboard
<1>e. s.exo \in Exophones /\ s.calls \in SUBSET Calls
  BY <1>0 DEF RepairState
<1>1. CASE ReprocessFromLogs(r)
  <2>1. logs[s.exo] \in SUBSET Calls
    BY <1>e DEF TypeOK
  <2>2. repair' \in [Repairs -> {Idle} \cup RepairState]
    BY <1>0, <1>1, <2>1 DEF ReprocessFromLogs, TypeOK, RepairState
  <2> QED
    BY <1>1, <2>2 DEF ReprocessFromLogs, TypeOK, settings, stores
<1>2. CASE RepairCallLogs(r)
  <2>1. repair' \in [Repairs -> {Idle} \cup RepairState]
    BY <1>0, <1>2 DEF RepairCallLogs, TypeOK, RepairState
  <2>2. logs' \in [Exophones -> SUBSET Calls]
    <3>1. CASE UNCHANGED logs
      BY <3>1 DEF TypeOK
    <3>2. CASE \E S \in Stored(s.calls) : logs' = [logs EXCEPT ![s.exo] = @ \cup S]
      BY <1>e, <3>2, StoredType DEF TypeOK
    <3> QED
      BY <1>2, <3>1, <3>2 DEF RepairCallLogs
  <2> QED
    BY <1>2, <2>1, <2>2 DEF RepairCallLogs, TypeOK, settings
<1>3. CASE OverwriteSnapshot(r)
  <2>1. repair' \in [Repairs -> {Idle} \cup RepairState]
    <3> DEFINE pc == IF s.calls = {} THEN "dashboard" ELSE "register"
               next == [s EXCEPT !.todo = s.calls, !.pc = pc]
    <3>1. pc \in {"dashboard", "register"}
      OBVIOUS
    <3>2. \E new \in {Idle, next} : repair' = [repair EXCEPT ![r] = new]
      BY <1>3 DEF OverwriteSnapshot
    <3> HIDE DEF pc
    <3>3. next \in RepairState
      BY <1>0, <3>1 DEF RepairState
    <3> QED
      BY <3>2, <3>3 DEF TypeOK
  <2>2. snapshot' \in [Exophones -> [Calls -> Nat]]
    <3>1. RowOf(s.calls) \in [Calls -> Nat]
      BY RowTypes
    <3>2. \/ snapshot' = [snapshot EXCEPT ![s.exo] = RowOf(s.calls)]
          \/ snapshot' = snapshot
      BY <1>3 DEF OverwriteSnapshot
    <3> QED
      BY <3>1, <3>2 DEF TypeOK
  <2> QED
    BY <1>3, <2>1, <2>2 DEF OverwriteSnapshot, TypeOK, settings
<1>4. ASSUME NEW c \in Calls, RepairRegister(r, c) PROVE TypeOK'
  <2>1. repair' \in [Repairs -> {Idle} \cup RepairState]
    BY <1>0, <1>4 DEF RepairRegister, TypeOK, RepairState
  <2>2. dedup' \in [Exophones -> SUBSET Calls]
    BY <1>e, <1>4 DEF RepairRegister, TypeOK
  <2> QED
    BY <1>4, <2>1, <2>2 DEF RepairRegister, TypeOK, settings
<1>5. CASE RepairRegisterFails(r)
  <2>1. repair' \in [Repairs -> {Idle} \cup RepairState]
    BY <1>0, <1>5 DEF RepairRegisterFails, TypeOK, RepairState
  <2> QED
    BY <1>5, <2>1 DEF RepairRegisterFails, TypeOK, settings, stores
<1>6. CASE RepairDashboard(r)
  <2>1. repair' \in [Repairs -> {Idle} \cup RepairState]
    BY <1>6 DEF RepairDashboard, TypeOK
  <2> QED
    BY <1>6, <2>1 DEF RepairDashboard, TypeOK, settings
<1> QED
  BY <1>1, <1>2, <1>3, <1>4, <1>5, <1>6 DEF RepairStep

LEMMA PipelineTypeNext == ASSUME TypeOK, [Next]_vars PROVE TypeOK'
<1>1. ASSUME NEW c \in Calls, CallHappens(c) PROVE TypeOK'
  BY <1>1 DEF CallHappens, TypeOK, stores, settings
<1>2. ASSUME NEW x \in Runs, NEW e \in Exophones, ResolveExophone(x, e) PROVE TypeOK'
  <2>1. PICK found \in BOOLEAN :
           run' = [run EXCEPT ![x] =
                     [pc |-> "fetch", exo |-> e, found |-> found,
                      skip |-> found /\ skip[e], batch |-> {}, todo |-> {},
                      fresh |-> {}, row |-> Empty]]
    BY <1>2 DEF ResolveExophone
  <2>2. (found /\ skip[e]) \in BOOLEAN
    BY DEF TypeOK
  <2>3. [pc |-> "fetch", exo |-> e, found |-> found, skip |-> found /\ skip[e],
         batch |-> {}, todo |-> {}, fresh |-> {}, row |-> Empty] \in RunState
    BY <2>2, RowTypes DEF RunState
  <2>4. run' \in [Runs -> {Idle} \cup RunState]
    BY <2>1, <2>3 DEF TypeOK
  <2> QED
    BY <1>2, <2>4 DEF ResolveExophone, TypeOK, stores, settings
<1>3. ASSUME NEW x \in Runs, RunStep(x) PROVE TypeOK'
  BY <1>3, PipelineTypeRun
<1>4. ASSUME NEW r \in Repairs, RepairStep(r) PROVE TypeOK'
  BY <1>4, PipelineTypeRepair
<1>5. ASSUME NEW r \in Repairs, NEW e \in Exophones, Reprocess(r, e) PROVE TypeOK'
  <2> DEFINE found == {c \in Own(e) : [exo |-> e, call |-> c, ok |-> TRUE] \in pages}
             new == [pc |-> IF found = {} THEN "fallback" ELSE "logs", exo |-> e,
                     kind |-> "reprocess", skip |-> skip[e],
                     calls |-> found, todo |-> {}]
  <2>1. repair' = [repair EXCEPT ![r] = new] /\ "reprocess" \in Kinds
    BY <1>5 DEF Reprocess, MayRequest
  <2>2. found \in SUBSET Calls /\ skip[e] \in BOOLEAN
    BY DEF Own, TypeOK
  <2>3. new \in RepairState
    BY <2>1, <2>2 DEF RepairState
  <2>4. repair' \in [Repairs -> {Idle} \cup RepairState]
    BY <2>1, <2>3 DEF TypeOK
  <2> QED
    BY <1>5, <2>4 DEF Reprocess, TypeOK, stores, settings
<1>6. ASSUME NEW r \in Repairs, NEW e \in Exophones, NEW kind \in Kinds,
             NEW skipLogs \in BOOLEAN, Backfill(r, e, kind, skipLogs)
      PROVE TypeOK'
  <2> DEFINE calls == happened \cap Own(e)
             new == [pc |-> "logs", exo |-> e, kind |-> kind, skip |-> skipLogs,
                     calls |-> calls, todo |-> {}]
  <2>1. repair' = [repair EXCEPT ![r] = new] /\ calls \in SUBSET Calls
    BY <1>6 DEF Backfill, TypeOK
  <2>2. new \in RepairState
    BY <2>1 DEF RepairState
  <2>3. repair' \in [Repairs -> {Idle} \cup RepairState]
    BY <2>1, <2>2 DEF TypeOK
  <2>4. PICK S \in Stored(calls) : pages' = pages \cup Pages(e, S, TRUE)
    BY <1>6 DEF Backfill
  <2>5. pages' \subseteq [exo : Exophones, call : Calls, ok : BOOLEAN]
    BY <2>1, <2>4, StoredType, PagesType DEF TypeOK
  <2> QED
    BY <1>6, <2>3, <2>5 DEF Backfill, TypeOK, settings
<1>7. ASSUME NEW v \in BOOLEAN, SetSkipCallLogsWrite(v) PROVE TypeOK'
  BY <1>7 DEF SetSkipCallLogsWrite, TypeOK, stores
<1>8. ASSUME NEW v \in BOOLEAN, NEW e \in Exophones, SetSkipCallLogs(e, v) PROVE TypeOK'
  BY <1>8 DEF SetSkipCallLogs, TypeOK, stores
<1>9. CASE Crash
  <2>1. skipAll' \in BOOLEAN
    BY <1>9, PipelineAssumption DEF Crash, PipelineAssumption
  <2> QED
    BY <1>9, <2>1 DEF Crash, TypeOK, stores
<1>10. ASSUME NEW e \in Exophones, RedisForgets(e) PROVE TypeOK'
  BY <1>10 DEF RedisForgets, TypeOK, settings
<1>11. CASE UNCHANGED vars
  BY <1>11 DEF TypeOK, vars, stores, settings
<1> QED
  BY <1>1, <1>2, <1>3, <1>4, <1>5, <1>6, <1>7, <1>8, <1>9, <1>10, <1>11 DEF Next

(* Every variable of the pipeline keeps its type, for all constants.        *)
THEOREM PipelineTypeCorrect == Spec => []TypeOK
  BY PipelineTypeInit, PipelineTypeNext, PTL DEF Spec

-----------------------------------------------------------------------------
(* Counting at most once.                                                   *)

(* Redis answers, and either nothing is repaired or repairs take turns with *)
(* executions and the process does not crash in the middle of one.          *)
Calm == /\ "redis" \notin Faults
        /\ \/ Repairs = {}
           \/ TakeTurns # "none" /\ "crash" \notin Faults

(* A step after which no execution holds or is about to write anything new  *)
(* keeps the invariant, if it leaves the stores and the repairs alone.      *)
LEMMA NothingNewHeld ==
    ASSUME CountInv, UNCHANGED <<dedup, snapshot, repair>>,
           \A x \in Runs : run'[x].pc = "fetch" => run'[x].fresh = {},
           \A x \in Runs, e \in Exophones : Busy(run'[x], e) => Busy(run[x], e),
           \A x \in Runs, e \in Exophones, c \in Calls : Holds(x, e, c)' => Holds(x, e, c),
           \A x \in Runs, e \in Exophones : Writes(x, e)' =>
               Writes(x, e) /\ run'[x].row = run[x].row
    PROVE  CountInv'
<1>1. TurnsTaken'
  BY DEF CountInv, TurnsTaken, NoRun
<1>2. \A e \in Exophones, c \in Calls :
         snapshot'[e][c] \in {0, 1} /\ (snapshot'[e][c] = 1 => Covered(e, c)')
  BY DEF CountInv, Covered
<1>3. HeldOnce'
  BY DEF CountInv, HeldOnce
<1>4. RowsReadOnce'
  BY DEF CountInv, RowsReadOnce
<1> QED
  BY <1>1, <1>2, <1>3, <1>4 DEF CountInv

(* While an execution of an exophone is busy no repair of it is, so what    *)
(* the row counts is registered.                                            *)
LEMMA BusyMeansRegistered ==
    ASSUME CountInv, NEW x \in Runs, NEW e \in Exophones, Busy(run[x], e),
           NEW c \in Calls, snapshot[e][c] = 1
    PROVE  c \in dedup[e]
<1>1. \A r \in Repairs : ~Busy(repair[r], e)
  BY DEF CountInv, TurnsTaken, NoRun
<1> QED
  BY <1>1 DEF CountInv, Covered, Busy

LEMMA CountInit == ASSUME Init PROVE CountInv
<1>1. \A x \in Runs : run[x].pc = "idle"
  BY DEF Init, Idle
<1>2. \A r \in Repairs : repair[r].pc = "idle"
  BY DEF Init, Idle
<1>3. \A e \in Exophones, c \in Calls : snapshot[e][c] = 0
  BY DEF Init, Empty
<1> QED
  BY <1>1, <1>2, <1>3
  DEF CountInv, TurnsTaken, HeldOnce, RowsReadOnce, Holds, Writes, Busy, NoRun

(* A new execution holds nothing, and takes its turn with repairs.          *)
LEMMA CountStart ==
    ASSUME Calm, TypeOK, CountInv, NEW x \in Runs, NEW e \in Exophones,
           ResolveExophone(x, e)
    PROVE  CountInv'
<1>1. PICK found \in BOOLEAN :
         run' = [run EXCEPT ![x] =
                   [pc |-> "fetch", exo |-> e, found |-> found,
                    skip |-> found /\ skip[e], batch |-> {}, todo |-> {},
                    fresh |-> {}, row |-> Empty]]
  BY DEF ResolveExophone
<1>2. /\ run'[x].pc = "fetch" /\ run'[x].exo = e /\ run'[x].fresh = {}
      /\ \A y \in Runs \ {x} : run'[y] = run[y]
  BY <1>1 DEF TypeOK
<1>3. UNCHANGED <<dedup, snapshot, repair>>
  BY DEF ResolveExophone, stores
<1>4. \A y \in Runs, f \in Exophones, c \in Calls : Holds(y, f, c)' => Holds(y, f, c)
  BY <1>2 DEF Holds
<1>5. \A y \in Runs, f \in Exophones : Writes(y, f)' =>
         Writes(y, f) /\ run'[y].row = run[y].row
  BY <1>2 DEF Writes
<1>6. \A r \in Repairs : ~Busy(repair[r], e)
  BY DEF ResolveExophone, MayRun, NoRepair, Calm
<1>7. TurnsTaken'
  BY <1>2, <1>3, <1>6 DEF CountInv, TurnsTaken, NoRun, Busy
<1>8. \A f \in Exophones, c \in Calls :
         snapshot'[f][c] \in {0, 1} /\ (snapshot'[f][c] = 1 => Covered(f, c)')
  BY <1>3 DEF CountInv, Covered
<1>9. HeldOnce' /\ RowsReadOnce'
  BY <1>3, <1>4, <1>5 DEF CountInv, HeldOnce, RowsReadOnce
<1> QED
  BY <1>2, <1>7, <1>8, <1>9 DEF CountInv

(* Register: the SID was in no set, so nobody held the call and no row      *)
(* counted it.                                                              *)
LEMMA CountRegister ==
    ASSUME TypeOK, CountInv, NEW x \in Runs, NEW c \in Calls, Register(x, c)
    PROVE  CountInv'
<1> DEFINE e == run[x].exo
           rest == run[x].todo \ {c}
           taken == c \notin dedup[e]
<1>0. run[x] \in RunState /\ run[x].pc = "register"
  BY StartedRun DEF Register
<1>1. e \in Exophones /\ Busy(run[x], e)
  BY <1>0 DEF RunState, Busy
<1>2. /\ dedup' = [dedup EXCEPT ![e] = @ \cup {c}]
      /\ UNCHANGED <<snapshot, repair>>
  BY DEF Register
<1>3. /\ run'[x].pc \in {"register", "logs"} /\ run'[x].exo = e
      /\ run'[x].fresh = IF taken THEN run[x].fresh \cup {c} ELSE run[x].fresh
      /\ \A y \in Runs \ {x} : run'[y] = run[y]
  <2>1. run' = [run EXCEPT ![x] =
                  [run[x] EXCEPT !.todo = rest,
                     !.fresh = IF taken THEN run[x].fresh \cup {c} ELSE run[x].fresh,
                     !.pc = IF rest = {} THEN "logs" ELSE "register"]]
    BY DEF Register
  <2> QED
    BY <1>0, <2>1 DEF TypeOK, RunState
<1> HIDE DEF taken, rest
<1>4. \A f \in Exophones : dedup[f] \subseteq dedup'[f]
  BY <1>2 DEF TypeOK
<1>5. \A y \in Runs, f \in Exophones : Busy(run'[y], f) <=> Busy(run[y], f)
  BY <1>0, <1>3 DEF Busy
<1>6. \A y \in Runs, f \in Exophones : Writes(y, f)' =>
         Writes(y, f) /\ run'[y].row = run[y].row
  BY <1>3 DEF Writes
<1>7. \A y \in Runs, f \in Exophones, d \in Calls : Holds(y, f, d)' =>
         Holds(y, f, d) \/ (y = x /\ f = e /\ d = c /\ taken)
  BY <1>0, <1>3 DEF Holds
<1>8. TurnsTaken'
  BY <1>2, <1>5 DEF CountInv, TurnsTaken, NoRun
<1>9. \A f \in Exophones, d \in Calls :
         snapshot'[f][d] \in {0, 1} /\ (snapshot'[f][d] = 1 => Covered(f, d)')
  BY <1>2, <1>4 DEF CountInv, Covered
<1>10. HeldOnce'
  <2> SUFFICES ASSUME NEW f \in Exophones, NEW d \in Calls, NEW y \in Runs, Holds(y, f, d)'
               PROVE  /\ d \in dedup'[f]
                      /\ snapshot'[f][d] = 0
                      /\ \A z \in Runs : Holds(z, f, d)' => z = y
                      /\ \A z \in Runs : Writes(z, f)' => run'[z].row[d] = 0
    BY DEF HeldOnce
  <2>1. CASE taken /\ f = e /\ d = c
    <3>1. \A z \in Runs : ~Holds(z, e, c)
      BY <1>1, <2>1 DEF CountInv, HeldOnce, taken
    <3>2. snapshot[e][c] = 0
      BY <1>1, <2>1, BusyMeansRegistered DEF CountInv, taken
    <3>3. \A z \in Runs : Writes(z, e) => run[z].row[c] = 0
      BY <1>1, <2>1 DEF CountInv, RowsReadOnce, taken
    <3>4. c \in dedup'[e]
      BY <1>1, <1>2 DEF TypeOK
    <3> QED
      BY <1>1, <1>2, <1>6, <1>7, <2>1, <3>1, <3>2, <3>3, <3>4
  <2>2. CASE ~(taken /\ f = e /\ d = c)
    <3>1. \A z \in Runs : Holds(z, f, d)' => Holds(z, f, d)
      BY <1>7, <2>2
    <3> QED
      BY <1>2, <1>4, <1>6, <3>1 DEF CountInv, HeldOnce
  <2> QED
    BY <2>1, <2>2
<1>11. RowsReadOnce'
  BY <1>4, <1>6 DEF CountInv, RowsReadOnce
<1>12. \A y \in Runs : run'[y].pc = "fetch" => run'[y].fresh = {}
  BY <1>3 DEF CountInv
<1> QED
  BY <1>8, <1>9, <1>10, <1>11, <1>12 DEF CountInv

(* ReadSnapshot: the copy counts what the row counts, or nothing.           *)
LEMMA CountRead ==
    ASSUME TypeOK, CountInv, NEW x \in Runs, ReadSnapshot(x)
    PROVE  CountInv'
<1> DEFINE e == run[x].exo
<1>0. run[x] \in RunState /\ run[x].pc = "read"
  BY StartedRun DEF ReadSnapshot
<1>1. e \in Exophones /\ Busy(run[x], e)
  BY <1>0 DEF RunState, Busy
<1>2. PICK row \in {snapshot[e], Empty} :
         run' = [run EXCEPT ![x].row = row, ![x].pc = "upsert"]
  BY DEF ReadSnapshot
<1>3. /\ run'[x].pc = "upsert" /\ run'[x].exo = e /\ run'[x].row = row
      /\ run'[x].fresh = run[x].fresh
      /\ \A y \in Runs \ {x} : run'[y] = run[y]
  BY <1>0, <1>2 DEF TypeOK, RunState
<1>4. UNCHANGED <<dedup, snapshot, repair>>
  BY DEF ReadSnapshot, stores
<1>5. \A d \in Calls : row[d] \in {0, snapshot[e][d]}
  BY <1>2 DEF Empty
<1>6. \A y \in Runs, f \in Exophones : Busy(run'[y], f) <=> Busy(run[y], f)
  BY <1>0, <1>3 DEF Busy
<1>7. \A y \in Runs, f \in Exophones, d \in Calls : Holds(y, f, d)' <=> Holds(y, f, d)
  BY <1>0, <1>3 DEF Holds
<1>8. \A y \in Runs, f \in Exophones : Writes(y, f)' =>
         \/ Writes(y, f) /\ run'[y].row = run[y].row
         \/ y = x /\ f = e /\ run'[y].row = row
  BY <1>3 DEF Writes
<1>9. TurnsTaken'
  BY <1>4, <1>6 DEF CountInv, TurnsTaken, NoRun
<1>10. \A f \in Exophones, d \in Calls :
         snapshot'[f][d] \in {0, 1} /\ (snapshot'[f][d] = 1 => Covered(f, d)')
  BY <1>4 DEF CountInv, Covered
<1>11. HeldOnce'
  <2>1. \A f \in Exophones, d \in Calls, y, z \in Runs :
           Holds(y, f, d) /\ Writes(z, f)' => run'[z].row[d] = 0
    BY <1>5, <1>8 DEF CountInv, HeldOnce
  <2> QED
    BY <1>4, <1>7, <2>1 DEF CountInv, HeldOnce
<1>12. RowsReadOnce'
  <2>1. \A d \in Calls : row[d] \in {0, 1} /\ (row[d] = 1 => d \in dedup[e])
    BY <1>1, <1>5, BusyMeansRegistered DEF CountInv
  <2> QED
    BY <1>4, <1>8, <2>1 DEF CountInv, RowsReadOnce
<1>13. \A y \in Runs : run'[y].pc = "fetch" => run'[y].fresh = {}
  BY <1>3 DEF CountInv
<1> QED
  BY <1>9, <1>10, <1>11, <1>12, <1>13 DEF CountInv

(* UpsertSnapshot: the calls it adds were in no row and are held by nobody  *)
(* else.                                                                    *)
LEMMA CountUpsert ==
    ASSUME TypeOK, CountInv, NEW x \in Runs, UpsertSnapshot(x)
    PROVE  CountInv'
<1> DEFINE e == run[x].exo
           row == run[x].row
           fresh == run[x].fresh
<1>0. run[x] \in RunState /\ run[x].pc = "upsert"
  BY StartedRun DEF UpsertSnapshot
<1>1. e \in Exophones /\ Busy(run[x], e) /\ Writes(x, e)
  BY <1>0 DEF RunState, Busy, Writes
<1>2. /\ run'[x].pc = "dashboard" /\ run'[x].exo = e
      /\ \A y \in Runs \ {x} : run'[y] = run[y]
      /\ UNCHANGED <<dedup, repair>>
  BY <1>0 DEF UpsertSnapshot, TypeOK, RunState
<1>3. \A d \in Calls : d \in fresh => Holds(x, e, d)
  BY <1>0 DEF Holds
<1>4. /\ \A f \in Exophones \ {e} : snapshot'[f] = snapshot[f]
      /\ \/ snapshot'[e] = snapshot[e]
         \/ \A d \in Calls : snapshot'[e][d] = IF d \in fresh THEN row[d] + 1 ELSE row[d]
  BY <1>1 DEF UpsertSnapshot, Plus, TypeOK
<1>5. \A d \in Calls : /\ row[d] \in {0, 1} /\ (row[d] = 1 => d \in dedup[e])
                       /\ d \in fresh => row[d] = 0 /\ d \in dedup[e]
  BY <1>1, <1>3 DEF CountInv, HeldOnce, RowsReadOnce
<1>6. \A y \in Runs, f \in Exophones : Busy(run'[y], f) <=> Busy(run[y], f)
  BY <1>0, <1>2 DEF Busy
<1>7. \A y \in Runs, f \in Exophones, d \in Calls : Holds(y, f, d)' =>
         y # x /\ Holds(y, f, d)
  BY <1>2 DEF Holds
<1>8. \A y \in Runs, f \in Exophones : Writes(y, f)' =>
         Writes(y, f) /\ run'[y].row = run[y].row
  BY <1>2 DEF Writes
<1>9. TurnsTaken'
  BY <1>2, <1>6 DEF CountInv, TurnsTaken, NoRun
<1>10. ASSUME NEW f \in Exophones, NEW d \in Calls
       PROVE  snapshot'[f][d] \in {0, 1} /\ (snapshot'[f][d] = 1 => Covered(f, d)')
  <2>1. CASE snapshot'[f] = snapshot[f]
    BY <1>2, <2>1 DEF CountInv, Covered
  <2>2. CASE f = e /\ \A b \in Calls :
                snapshot'[e][b] = IF b \in fresh THEN row[b] + 1 ELSE row[b]
    BY <1>2, <1>5, <2>2 DEF Covered
  <2> QED
    BY <1>4, <2>1, <2>2
<1>11. HeldOnce'
  <2> SUFFICES ASSUME NEW f \in Exophones, NEW d \in Calls, NEW y \in Runs, Holds(y, f, d)'
               PROVE  /\ d \in dedup'[f]
                      /\ snapshot'[f][d] = 0
                      /\ \A z \in Runs : Holds(z, f, d)' => z = y
                      /\ \A z \in Runs : Writes(z, f)' => run'[z].row[d] = 0
    BY DEF HeldOnce
  <2>1. y # x /\ Holds(y, f, d)
    BY <1>7
  <2>2. snapshot'[f][d] = 0
    <3>1. f = e => d \notin fresh /\ row[d] = 0
      BY <1>1, <1>3, <2>1 DEF CountInv, HeldOnce
    <3> QED
      BY <1>4, <2>1, <3>1 DEF CountInv, HeldOnce
  <2> QED
    BY <1>2, <1>7, <1>8, <2>1, <2>2 DEF CountInv, HeldOnce
<1>12. RowsReadOnce'
  BY <1>2, <1>8 DEF CountInv, RowsReadOnce
<1>13. \A y \in Runs : run'[y].pc = "fetch" => run'[y].fresh = {}
  BY <1>2 DEF CountInv
<1> QED
  BY <1>9, <1>10, <1>11, <1>12, <1>13 DEF CountInv

(* The other steps of an execution give it nothing new.                     *)
LEMMA CountRun ==
    ASSUME Calm, TypeOK, CountInv, NEW x \in Runs, RunStep(x)
    PROVE  CountInv'
<1>0. run[x] \in RunState
  BY StartedRun DEF RunStep, FetchCalls, FetchFails, Register, RegisterFails,
     SaveCallLogs, ReadSnapshot, UpsertSnapshot, UpdateDashboard
<1>1. ASSUME UNCHANGED <<dedup, snapshot, repair>>,
             \A y \in Runs \ {x} : run'[y] = run[y],
             \/ run'[x] = Idle
             \/ /\ run'[x].pc \in {"register", "logs", "read", "dashboard"}
                /\ run'[x].exo = run[x].exo
                /\ run'[x].fresh = {} \/ (run[x].pc = "logs" /\ run'[x].fresh = run[x].fresh)
      PROVE  CountInv'
  <2>1. \A y \in Runs : run'[y].pc = "fetch" => run'[y].fresh = {}
    BY <1>1 DEF CountInv, Idle
  <2>2. \A y \in Runs, e \in Exophones : Busy(run'[y], e) => Busy(run[y], e)
    BY <1>0, <1>1 DEF Busy, Idle, RunState
  <2>3. \A y \in Runs, e \in Exophones, c \in Calls : Holds(y, e, c)' => Holds(y, e, c)
    BY <1>1 DEF Holds, Idle
  <2>4. \A y \in Runs, e \in Exophones : Writes(y, e)' =>
           Writes(y, e) /\ run'[y].row = run[y].row
    BY <1>1 DEF Writes, Idle
  <2> QED
    BY <1>1, <2>1, <2>2, <2>3, <2>4, NothingNewHeld
<1>2. CASE FetchCalls(x)
  <2>1. PICK batch \in SUBSET Calls :
           run' = [run EXCEPT ![x].batch = batch, ![x].todo = batch,
                         ![x].pc = IF batch = {} THEN "logs" ELSE "register"]
    BY <1>2 DEF FetchCalls, Reported, Own, TypeOK
  <2>2. /\ run'[x].pc \in {"logs", "register"} /\ run'[x].exo = run[x].exo
        /\ run'[x].fresh = run[x].fresh
        /\ \A y \in Runs \ {x} : run'[y] = run[y]
    BY <1>0, <2>1 DEF TypeOK, RunState
  <2>3. run[x].fresh = {}
    BY <1>2 DEF FetchCalls, CountInv
  <2>4. UNCHANGED <<dedup, snapshot, repair>>
    BY <1>2 DEF FetchCalls
  <2> QED
    BY <1>1, <2>2, <2>3, <2>4
<1>3. CASE FetchFails(x)
  BY <1>1, <1>3 DEF FetchFails, TypeOK
<1>4. ASSUME NEW c \in Calls, Register(x, c) PROVE CountInv'
  BY <1>4, CountRegister
<1>5. CASE RegisterFails(x)
  BY <1>5 DEF RegisterFails, Calm
<1>6. CASE SaveCallLogs(x)
  <2>1. run' = [run EXCEPT ![x] =
                  [run[x] EXCEPT !.pc = IF run[x].fresh = {} THEN "dashboard" ELSE "read"]]
    BY <1>6 DEF SaveCallLogs
  <2>2. /\ run'[x].pc \in {"read", "dashboard"} /\ run'[x].exo = run[x].exo
        /\ run'[x].fresh = run[x].fresh
        /\ \A y \in Runs \ {x} : run'[y] = run[y]
    BY <1>0, <2>1 DEF TypeOK, RunState
  <2> QED
    BY <1>1, <1>6, <2>2 DEF SaveCallLogs
<1>7. CASE ReadSnapshot(x)
  BY <1>7, CountRead
<1>8. CASE UpsertSnapshot(x)
  BY <1>8, CountUpsert
<1>9. CASE UpdateDashboard(x)
  BY <1>1, <1>9 DEF UpdateDashboard, TypeOK
<1> QED
  BY <1>2, <1>3, <1>4, <1>5, <1>6, <1>7, <1>8, <1>9 DEF RunStep

(* A repair starts on an exophone that is at rest.                          *)
LEMMA CountRepairStarts ==
    ASSUME TypeOK, CountInv, NEW r \in Repairs, NEW e \in Exophones,
           repair[r].pc = "idle", AtRest(e),
           repair'[r].exo = e, \A q \in Repairs \ {r} : repair'[q] = repair[q],
           UNCHANGED <<dedup, snapshot, run>>
    PROVE  CountInv'
<1>1. TurnsTaken'
  <2>1. \A q \in Repairs, f \in Exophones : Busy(repair'[q], f) =>
           (q = r /\ f = e) \/ (q # r /\ f # e /\ Busy(repair[q], f))
    BY DEF AtRest, NoRepair, Busy
  <2> QED
    BY <2>1 DEF CountInv, TurnsTaken, AtRest, NoRun
<1>2. \A f \in Exophones, d \in Calls : Covered(f, d) => Covered(f, d)'
  BY DEF Covered
<1>3. \A f \in Exophones, d \in Calls :
         snapshot'[f][d] \in {0, 1} /\ (snapshot'[f][d] = 1 => Covered(f, d)')
  BY <1>2 DEF CountInv
<1>4. HeldOnce' /\ RowsReadOnce'
  BY DEF CountInv, HeldOnce, RowsReadOnce, Holds, Writes
<1> QED
  BY <1>1, <1>3, <1>4 DEF CountInv

(* A step of a repair of an exophone: no execution of it is busy, so only   *)
(* the row and the set of that exophone have to be looked at.               *)
LEMMA CountRepairMoves ==
    ASSUME TypeOK, CountInv, NEW r \in Repairs, NEW e \in Exophones,
           Busy(repair[r], e), UNCHANGED run,
           \A f \in Exophones : Busy(repair'[r], f) => f = e,
           \A q \in Repairs \ {r} : repair'[q] = repair[q],
           \A f \in Exophones \ {e} : dedup'[f] = dedup[f] /\ snapshot'[f] = snapshot[f],
           \A d \in Calls : snapshot'[e][d] \in {0, 1} /\ (snapshot'[e][d] = 1 => Covered(e, d)')
    PROVE  CountInv'
<1>1. TurnsTaken'
  <2>1. \A q \in Repairs, f \in Exophones : Busy(repair'[q], f) => Busy(repair[q], f)
    OBVIOUS
  <2> QED
    BY <2>1 DEF CountInv, TurnsTaken, NoRun
<1>2. NoRun(e)
  BY DEF CountInv, TurnsTaken
<1>3. \A f \in Exophones \ {e}, d \in Calls : Covered(f, d) => Covered(f, d)'
  BY DEF Covered, Busy
<1>4. \A f \in Exophones, d \in Calls :
         snapshot'[f][d] \in {0, 1} /\ (snapshot'[f][d] = 1 => Covered(f, d)')
  BY <1>3 DEF CountInv
<1>5. \A x \in Runs, f \in Exophones, d \in Calls :
         Holds(x, f, d)' => Holds(x, f, d) /\ f # e
  BY <1>2 DEF Holds, NoRun, Busy
<1>6. \A x \in Runs, f \in Exophones :
         Writes(x, f)' => Writes(x, f) /\ f # e /\ run'[x].row = run[x].row
  BY <1>2 DEF Writes, NoRun, Busy
<1>7. HeldOnce'
  BY <1>5, <1>6 DEF CountInv, HeldOnce
<1>8. RowsReadOnce'
  BY <1>6 DEF CountInv, RowsReadOnce
<1> QED
  BY <1>1, <1>4, <1>7, <1>8 DEF CountInv

LEMMA CountRepair ==
    ASSUME Calm, TypeOK, CountInv, NEW r \in Repairs, RepairStep(r)
    PROVE  CountInv'
<1>0. repair[r] \in RepairState
  BY StartedRepair DEF RepairStep, ReprocessFromLogs, RepairCallLogs, OverwriteSnapshot,
     RepairRegister, RepairRegisterFails, RepairDashboard
<1>e. PICK e \in Exophones : repair[r].exo = e
  BY <1>0 DEF RepairState
<1>1. repair[r].exo = e /\ Busy(repair[r], e) /\ repair[r].calls \in SUBSET Calls
  BY <1>0, <1>e DEF RepairState, Busy
(* Steps that leave the row and the set alone, outside of "register".       *)
<1>2. ASSUME repair[r].pc # "register", UNCHANGED <<dedup, snapshot, run>>,
             repair'[r].pc = "idle" \/ repair'[r].exo = e,
             \A q \in Repairs \ {r} : repair'[q] = repair[q]
      PROVE  CountInv'
  <2>1. \A d \in Calls : Covered(e, d) => Covered(e, d)'
    BY <1>1, <1>2 DEF Covered
  <2>2. \A f \in Exophones : Busy(repair'[r], f) => f = e
    BY <1>2 DEF Busy
  <2>3. \A d \in Calls : snapshot'[e][d] \in {0, 1} /\ (snapshot'[e][d] = 1 => Covered(e, d)')
    BY <1>1, <1>2, <2>1 DEF CountInv
  <2> QED
    BY <1>1, <1>2, <2>2, <2>3, CountRepairMoves
<1>3. CASE ReprocessFromLogs(r)
  <2>1. repair' = [repair EXCEPT ![r] =
                     IF logs[e] = {} THEN Idle
                                     ELSE [repair[r] EXCEPT !.pc = "logs", !.calls = logs[e]]]
    BY <1>1, <1>3 DEF ReprocessFromLogs
  <2>2. /\ repair'[r].pc = "idle" \/ repair'[r].exo = e
        /\ \A q \in Repairs \ {r} : repair'[q] = repair[q]
    BY <1>0, <1>1, <2>1 DEF TypeOK, RepairState, Idle
  <2> QED
    BY <1>2, <1>3, <2>2 DEF ReprocessFromLogs, stores
<1>4. CASE RepairCallLogs(r)
  <2>1. repair' = [repair EXCEPT ![r] = [repair[r] EXCEPT !.pc = "upsert"]]
    BY <1>4 DEF RepairCallLogs
  <2>2. repair'[r].exo = e /\ \A q \in Repairs \ {r} : repair'[q] = repair[q]
    BY <1>0, <1>1, <2>1 DEF TypeOK, RepairState
  <2> QED
    BY <1>2, <1>4, <2>2 DEF RepairCallLogs
<1>5. CASE OverwriteSnapshot(r)
  <2> DEFINE calls == repair[r].calls
             pc == IF calls = {} THEN "dashboard" ELSE "register"
             next == [repair[r] EXCEPT !.todo = calls, !.pc = pc]
  <2>0. /\ next.exo = e /\ next.todo = calls /\ next.pc = pc
        /\ pc \in {"dashboard", "register"}
    BY <1>0, <1>1 DEF RepairState
  <2>1. PICK new \in {Idle, next} :
           /\ repair' = [repair EXCEPT ![r] = new]
           /\ snapshot' = snapshot \/ (new = next /\ snapshot' = [snapshot EXCEPT ![e] = RowOf(calls)])
    BY <1>1, <1>5 DEF OverwriteSnapshot
  <2> HIDE DEF next
  <2>2. repair'[r] = new /\ (\A q \in Repairs \ {r} : repair'[q] = repair[q])
    BY <2>1 DEF TypeOK
  <2>3. repair'[r].pc = "idle" \/ repair'[r].exo = e
    BY <2>0, <2>2 DEF Idle
  <2>4. CASE snapshot' = snapshot
    BY <1>2, <1>5, <2>2, <2>3, <2>4 DEF OverwriteSnapshot
  <2>5. CASE new = next /\ snapshot' = [snapshot EXCEPT ![e] = RowOf(calls)]
    <3>1. \A d \in Calls : snapshot'[e][d] = IF d \in calls THEN 1 ELSE 0
      BY <1>1, <2>5 DEF RowOf, TypeOK
    <3>2. \A d \in calls : Covered(e, d)'
      BY <2>0, <2>2, <2>5 DEF Covered
    <3>3. \A f \in Exophones \ {e} : dedup'[f] = dedup[f] /\ snapshot'[f] = snapshot[f]
      BY <1>5, <2>5 DEF OverwriteSnapshot, TypeOK
    <3>4. UNCHANGED run
      BY <1>5 DEF OverwriteSnapshot
    <3>5. \A f \in Exophones : Busy(repair'[r], f) => f = e
      BY <2>3 DEF Busy
    <3>6. \A d \in Calls : snapshot'[e][d] \in {0, 1} /\ (snapshot'[e][d] = 1 => Covered(e, d)')
      BY <3>1, <3>2
    <3> QED
      BY <1>1, <2>2, <3>3, <3>4, <3>5, <3>6, CountRepairMoves
  <2> QED
    BY <2>1, <2>4, <2>5
<1>6. ASSUME NEW c \in Calls, RepairRegister(r, c) PROVE CountInv'
  <2> DEFINE rest == repair[r].todo \ {c}
             pc == IF rest = {} THEN "dashboard" ELSE "register"
  <2>1. repair' = [repair EXCEPT ![r] = [repair[r] EXCEPT !.todo = rest, !.pc = pc]]
    BY <1>6 DEF RepairRegister
  <2>2. pc = "register" \/ rest = {}
    OBVIOUS
  <2> HIDE DEF pc
  <2>3. /\ repair'[r].exo = e /\ repair'[r].todo = rest /\ repair'[r].pc = pc
        /\ \A q \in Repairs \ {r} : repair'[q] = repair[q]
    BY <1>0, <1>1, <2>1 DEF TypeOK, RepairState
  <2>4. /\ dedup'[e] = dedup[e] \cup {c}
        /\ \A f \in Exophones \ {e} : dedup'[f] = dedup[f]
        /\ UNCHANGED <<snapshot, run>>
    BY <1>1, <1>6 DEF RepairRegister, TypeOK
  <2>5. \A d \in Calls : Covered(e, d) => Covered(e, d)'
    BY <1>1, <2>2, <2>3, <2>4 DEF Covered
  <2>6. \A f \in Exophones : Busy(repair'[r], f) => f = e
    BY <2>3 DEF Busy
  <2>7. \A d \in Calls : snapshot'[e][d] \in {0, 1} /\ (snapshot'[e][d] = 1 => Covered(e, d)')
    BY <1>1, <2>4, <2>5 DEF CountInv
  <2> QED
    BY <1>1, <2>3, <2>4, <2>6, <2>7, CountRepairMoves
<1>7. CASE RepairRegisterFails(r)
  BY <1>7 DEF RepairRegisterFails, Calm
<1>8. CASE RepairDashboard(r)
  <2>1. repair'[r].pc = "idle" /\ \A q \in Repairs \ {r} : repair'[q] = repair[q]
    BY <1>8 DEF RepairDashboard, TypeOK, Idle
  <2> QED
    BY <1>2, <1>8, <2>1 DEF RepairDashboard
<1> QED
  BY <1>3, <1>4, <1>5, <1>6, <1>7, <1>8 DEF RepairStep

LEMMA CountNext == ASSUME Calm, TypeOK, CountInv, [Next]_vars PROVE CountInv'
(* Steps that leave the set, the row, the executions and the repairs alone. *)
<1>0. ASSUME UNCHANGED <<dedup, snapshot, run, repair>> PROVE CountInv'
  <2>1. \A x \in Runs : run'[x].pc = "fetch" => run'[x].fresh = {}
    BY <1>0 DEF CountInv
  <2>2. \A x \in Runs, e \in Exophones, c \in Calls : Holds(x, e, c)' => Holds(x, e, c)
    BY <1>0 DEF Holds
  <2>3. \A x \in Runs, e \in Exophones : Writes(x, e)' =>
           Writes(x, e) /\ run'[x].row = run[x].row
    BY <1>0 DEF Writes
  <2> QED
    BY <1>0, <2>1, <2>2, <2>3, NothingNewHeld
<1>1. ASSUME NEW c \in Calls, CallHappens(c) PROVE CountInv'
  BY <1>0, <1>1 DEF CallHappens, stores
<1>2. ASSUME NEW x \in Runs, NEW e \in Exophones, ResolveExophone(x, e) PROVE CountInv'
  BY <1>2, CountStart
<1>3. ASSUME NEW x \in Runs, RunStep(x) PROVE CountInv'
  BY <1>3, CountRun
<1>4. ASSUME NEW r \in Repairs, RepairStep(r) PROVE CountInv'
  BY <1>4, CountRepair
<1>5. ASSUME NEW r \in Repairs, NEW e \in Exophones, Reprocess(r, e) PROVE CountInv'
  <2>1. repair[r].pc = "idle" /\ AtRest(e)
    BY <1>5 DEF Reprocess, MayRequest, MayRepair, Calm
  <2>2. /\ repair'[r].exo = e /\ \A q \in Repairs \ {r} : repair'[q] = repair[q]
        /\ UNCHANGED <<dedup, snapshot, run>>
    BY <1>5 DEF Reprocess, TypeOK, stores
  <2> QED
    BY <2>1, <2>2, CountRepairStarts
<1>6. ASSUME NEW r \in Repairs, NEW e \in Exophones, NEW kind \in Kinds,
             NEW skipLogs \in BOOLEAN, Backfill(r, e, kind, skipLogs)
      PROVE CountInv'
  <2>1. repair[r].pc = "idle" /\ AtRest(e)
    BY <1>6 DEF Backfill, MayRequest, MayRepair, Calm
  <2>2. /\ repair'[r].exo = e /\ \A q \in Repairs \ {r} : repair'[q] = repair[q]
        /\ UNCHANGED <<dedup, snapshot, run>>
    BY <1>6 DEF Backfill, TypeOK
  <2> QED
    BY <2>1, <2>2, CountRepairStarts
<1>7. ASSUME NEW v \in BOOLEAN, SetSkipCallLogsWrite(v) PROVE CountInv'
  BY <1>0, <1>7 DEF SetSkipCallLogsWrite, stores
<1>8. ASSUME NEW v \in BOOLEAN, NEW e \in Exophones, SetSkipCallLogs(e, v) PROVE CountInv'
  BY <1>0, <1>8 DEF SetSkipCallLogs, stores
<1>9. CASE Crash
  <2>1. Repairs = {}
    BY <1>9 DEF Crash, Calm
  <2>2. UNCHANGED <<dedup, snapshot, repair>>
    BY <1>9, <2>1 DEF Crash, stores, TypeOK
  <2>3. \A x \in Runs : run'[x].pc = "idle"
    BY <1>9 DEF Crash, Idle
  <2> QED
    BY <2>2, <2>3, NothingNewHeld DEF Holds, Writes, Busy
<1>10. ASSUME NEW e \in Exophones, RedisForgets(e) PROVE CountInv'
  BY <1>10 DEF RedisForgets, Calm
<1>11. CASE UNCHANGED vars
  BY <1>0, <1>11 DEF vars, stores
<1> QED
  BY <1>1, <1>2, <1>3, <1>4, <1>5, <1>6, <1>7, <1>8, <1>9, <1>10, <1>11 DEF Next

(* When Redis answers and repairs take turns with executions, no call is    *)
(* added twice to a row, whatever executions overlap and whatever else      *)
(* fails.                                                                   *)
THEOREM CountedAtMostOnceHolds == ASSUME Calm PROVE Spec => []CountedAtMostOnce
<1>1. Init => TypeOK /\ CountInv
  BY PipelineTypeInit, CountInit
<1>2. TypeOK /\ CountInv /\ [Next]_vars => TypeOK' /\ CountInv'
  BY PipelineTypeNext, CountNext
<1>3. CountInv => CountedAtMostOnce
  BY DEF CountInv, CountedAtMostOnce
<1> QED
  BY <1>1, <1>2, <1>3, PTL DEF Spec

-----------------------------------------------------------------------------
(* Losing nothing.                                                          *)

(* Everything but Redis answers, the process stays up, and executions and   *)
(* repairs of an exophone take turns.                                       *)
Orderly == Faults \subseteq {"redis"} /\ TakeTurns = "all"

(* What a reprocess would rebuild the row from.                             *)
Paged(e) == {c \in Own(e) : [exo |-> e, call |-> c, ok |-> TRUE] \in pages}

(* A call is on its way into the row: it is fresh in an execution, or will  *)
(* be when its SID is registered, or a repair is about to write it.         *)
Pending(x, e, c) ==
    /\ Busy(run[x], e)
    /\ \/ run[x].pc \in {"register", "logs", "read", "upsert"} /\ c \in run[x].fresh
       \/ run[x].pc = "register" /\ c \in run[x].todo /\ c \notin dedup[e]

Mending(r, e) == Busy(repair[r], e) /\ repair[r].pc \in {"logs", "upsert"}

OneAtWork(e) ==
    /\ \A x, y \in Runs : Busy(run[x], e) /\ Busy(run[y], e) => x = y
    /\ \A q, r \in Repairs : Busy(repair[q], e) /\ Busy(repair[r], e) => q = r
    /\ \A x \in Runs, r \in Repairs : ~(Busy(run[x], e) /\ Busy(repair[r], e))

RunFits(x, e) ==
    /\ run[x].found
    /\ run[x].batch \subseteq Paged(e)
    /\ run[x].todo \subseteq run[x].batch
    /\ run[x].fresh \subseteq run[x].batch
    /\ run[x].pc = "fetch" => run[x].batch = {}
    /\ run[x].pc = "upsert" => run[x].row = snapshot[e]

RepairFits(r, e) ==
    /\ repair[r].pc \in {"logs", "upsert"} => repair[r].calls = Paged(e)
    /\ repair[r].pc = "fallback" => Paged(e) = {}
    /\ repair[r].pc = "register" => repair[r].todo \subseteq Paged(e)

KeptOf(e) ==
    /\ OneAtWork(e)
    /\ dedup[e] \subseteq Paged(e)
    /\ logs[e] \subseteq Paged(e)
    /\ \A x \in Runs : Busy(run[x], e) => RunFits(x, e)
    /\ \A r \in Repairs : Busy(repair[r], e) => RepairFits(r, e)
    /\ \A c \in Paged(e) : \/ snapshot[e][c] >= 1
                           \/ \E x \in Runs : Pending(x, e, c)
                           \/ \E r \in Repairs : Mending(r, e)

KeptInv == \A e \in Exophones : KeptOf(e)

LEMMA KeptInit == ASSUME Init PROVE KeptInv
<1>1. /\ \A x \in Runs, e \in Exophones : ~Busy(run[x], e)
      /\ \A r \in Repairs, e \in Exophones : ~Busy(repair[r], e)
  BY DEF Init, Busy, Idle
<1>2. \A e \in Exophones : Paged(e) = {} /\ dedup[e] = {} /\ logs[e] = {}
  BY DEF Init, Paged
<1> QED
  BY <1>1, <1>2 DEF KeptInv, KeptOf, OneAtWork

(* An exophone that a step does not touch.                                  *)
LEMMA Untouched ==
    ASSUME NEW e \in Exophones, KeptOf(e),
           dedup'[e] = dedup[e], snapshot'[e] = snapshot[e], logs'[e] = logs[e],
           Paged(e)' = Paged(e),
           \A x \in Runs : Busy(run[x], e) \/ Busy(run'[x], e) => run'[x] = run[x],
           \A r \in Repairs : Busy(repair[r], e) \/ Busy(repair'[r], e) => repair'[r] = repair[r]
    PROVE  KeptOf(e)'
<1>1. \A x \in Runs : Busy(run'[x], e) <=> Busy(run[x], e)
  OBVIOUS
<1>2. \A r \in Repairs : Busy(repair'[r], e) <=> Busy(repair[r], e)
  OBVIOUS
<1>3. OneAtWork(e)'
  BY <1>1, <1>2 DEF KeptOf, OneAtWork
<1>4. \A x \in Runs : Busy(run'[x], e) => RunFits(x, e)'
  BY <1>1 DEF KeptOf, RunFits
<1>5. \A r \in Repairs : Busy(repair'[r], e) => RepairFits(r, e)'
  BY <1>2 DEF KeptOf, RepairFits
<1>6. \A x \in Runs, c \in Calls : Pending(x, e, c) => Pending(x, e, c)'
  BY <1>1 DEF Pending
<1>7. \A r \in Repairs : Mending(r, e) => Mending(r, e)'
  BY <1>2 DEF Mending
<1>8. Paged(e) \subseteq Calls
  BY DEF Paged, Own
<1>9. \A c \in Paged(e)' : \/ snapshot'[e][c] >= 1
                           \/ \E x \in Runs : Pending(x, e, c)'
                           \/ \E r \in Repairs : Mending(r, e)'
  BY <1>6, <1>7, <1>8 DEF KeptOf
<1> QED
  BY <1>3, <1>4, <1>5, <1>9 DEF KeptOf

(* The one execution that is at work on an exophone moves.                  *)
LEMMA RunMoves ==
    ASSUME KeptInv, NEW x \in Runs, NEW e \in Exophones, Busy(run[x], e),
           \A y \in Runs \ {x} : run'[y] = run[y], UNCHANGED repair,
           \A f \in Exophones : Busy(run'[x], f) => f = e,
           \A f \in Exophones \ {e} : /\ dedup'[f] = dedup[f] /\ snapshot'[f] = snapshot[f]
                                      /\ logs'[f] = logs[f] /\ Paged(f)' = Paged(f),
           dedup'[e] \subseteq Paged(e)', logs'[e] \subseteq Paged(e)',
           Busy(run'[x], e) => RunFits(x, e)',
           \A c \in Paged(e)' : snapshot'[e][c] >= 1 \/ Pending(x, e, c)'
    PROVE  KeptInv'
<1>1. KeptOf(e)
  BY DEF KeptInv
<1>2. \A y \in Runs \ {x} : ~Busy(run'[y], e)
  BY <1>1 DEF KeptOf, OneAtWork
<1>3. \A r \in Repairs : ~Busy(repair'[r], e)
  BY <1>1 DEF KeptOf, OneAtWork
<1>4. OneAtWork(e)'
  BY <1>2, <1>3 DEF OneAtWork
<1>5. KeptOf(e)'
  BY <1>2, <1>3, <1>4 DEF KeptOf
<1>6. ASSUME NEW f \in Exophones \ {e} PROVE KeptOf(f)'
  <2>1. ~Busy(run[x], f) /\ ~Busy(run'[x], f)
    BY DEF Busy
  <2> QED
    BY <2>1, Untouched DEF KeptInv
<1> QED
  BY <1>5, <1>6 DEF KeptInv

(* The one repair moves.                                                    *)
LEMMA RepairMoves ==
    ASSUME KeptInv, NEW r \in Repairs, NEW e \in Exophones, Busy(repair[r], e),
           \A q \in Repairs \ {r} : repair'[q] = repair[q], UNCHANGED run,
           \A f \in Exophones : Busy(repair'[r], f) => f = e,
           \A f \in Exophones \ {e} : /\ dedup'[f] = dedup[f] /\ snapshot'[f] = snapshot[f]
                                      /\ logs'[f] = logs[f],
           UNCHANGED pages,
           dedup'[e] \subseteq Paged(e), logs'[e] \subseteq Paged(e),
           Busy(repair'[r], e) => RepairFits(r, e)',
           \A c \in Paged(e) : snapshot'[e][c] >= 1 \/ Mending(r, e)'
    PROVE  KeptInv'
<1>1. KeptOf(e)
  BY DEF KeptInv
<1>2. \A q \in Repairs \ {r} : ~Busy(repair'[q], e)
  BY <1>1 DEF KeptOf, OneAtWork
<1>3. \A x \in Runs : ~Busy(run'[x], e)
  BY <1>1 DEF KeptOf, OneAtWork
<1>4. \A f \in Exophones : Paged(f)' = Paged(f)
  BY DEF Paged
<1>5. OneAtWork(e)'
  BY <1>2, <1>3 DEF OneAtWork
<1>6. KeptOf(e)'
  BY <1>2, <1>3, <1>4, <1>5 DEF KeptOf
<1>7. ASSUME NEW f \in Exophones \ {e} PROVE KeptOf(f)'
  <2>1. ~Busy(repair[r], f) /\ ~Busy(repair'[r], f)
    BY DEF Busy
  <2> QED
    BY <1>4, <2>1, Untouched DEF KeptInv
<1> QED
  BY <1>6, <1>7 DEF KeptInv

LEMMA PagesOf ==
    ASSUME NEW e \in Exophones, NEW S \in SUBSET Own(e), pages' = pages \cup Pages(e, S, TRUE)
    PROVE  /\ Paged(e)' = Paged(e) \cup S
           /\ \A f \in Exophones \ {e} : Paged(f)' = Paged(f)
  BY DEF Paged, Pages, Own

(* The row, the set and the logs of an exophone hold nothing that is not    *)
(* in its pages, and no repair is at work on it beside an execution.        *)
LEMMA KeptRun ==
    ASSUME Orderly, TypeOK, KeptInv, NEW x \in Runs, RunStep(x)
    PROVE  KeptInv'
<1>0. run[x] \in RunState
  BY StartedRun DEF RunStep, FetchCalls, FetchFails, Register, RegisterFails,
     SaveCallLogs, ReadSnapshot, UpsertSnapshot, UpdateDashboard
<1>x. PICK e \in Exophones : run[x].exo = e
  BY <1>0 DEF RunState
<1>e. e \in Exophones /\ run[x].exo = e /\ Busy(run[x], e)
  BY <1>0, <1>x DEF RunState, Busy
<1>k. KeptOf(e) /\ RunFits(x, e)
  BY <1>e DEF KeptInv, KeptOf
<1>u. /\ \A y \in Runs : Busy(run[y], e) => y = x
      /\ \A r \in Repairs : ~Mending(r, e)
  BY <1>e, <1>k DEF KeptOf, OneAtWork, Mending
<1>p. \A c \in Paged(e) : snapshot[e][c] >= 1 \/ Pending(x, e, c)
  BY <1>u, <1>k DEF KeptOf, Pending
<1>s. \A S, T : T \in Stored(S) => T = S
  BY DEF Stored, Orderly
<1>b. e \in Exophones /\ Paged(e) \subseteq Calls
  BY <1>e DEF Paged, Own
<1>1. CASE FetchCalls(x)
  <2>1. PICK batch \in SUBSET Reported(x) :
           /\ \E S \in Stored(batch) : pages' = pages \cup Pages(e, S, TRUE)
           /\ run' = [run EXCEPT ![x] = [run[x] EXCEPT !.batch = batch, !.todo = batch,
                         !.pc = IF batch = {} THEN "logs" ELSE "register"]]
    BY ZenonT(60), <1>e, <1>1 DEF FetchCalls
  <2>2. batch \subseteq Own(e) /\ pages' = pages \cup Pages(e, batch, TRUE)
    BY <1>e, <1>k, <1>s, <2>1 DEF RunFits, Reported
  <2>3. /\ Paged(e)' = Paged(e) \cup batch
        /\ \A f \in Exophones \ {e} : Paged(f)' = Paged(f)
    BY <1>e, <2>2, PagesOf
  <2>4. /\ run'[x].batch = batch /\ run'[x].todo = batch /\ run'[x].found = run[x].found
        /\ run'[x].exo = e /\ run'[x].fresh = run[x].fresh
        /\ run'[x].pc = (IF batch = {} THEN "logs" ELSE "register")
        /\ \A y \in Runs \ {x} : run'[y] = run[y]
    BY <1>e, <1>0, <2>1 DEF RunState, TypeOK
  <2>5. UNCHANGED <<dedup, snapshot, logs, repair>> /\ run[x].pc = "fetch"
    BY <1>e, <1>1 DEF FetchCalls
  <2>6. run[x].fresh = {} /\ run[x].todo = {}
    BY <1>k, <2>5 DEF RunFits
  <2>7. RunFits(x, e)'
    BY <1>k, <2>3, <2>4, <2>6 DEF RunFits
  <2>8. \A c \in Paged(e) : snapshot'[e][c] >= 1
    BY <1>p, <2>5, <2>6 DEF Pending
  <2>9. ASSUME NEW c \in Paged(e)' PROVE snapshot'[e][c] >= 1 \/ Pending(x, e, c)'
    <3>1. CASE c \in Paged(e)
      BY <2>8, <3>1
    <3>2. CASE c \in batch /\ c \notin Paged(e)
      <4>1. c \notin dedup'[e] /\ run'[x].pc = "register"
        BY <1>k, <2>4, <2>5, <3>2 DEF KeptOf
      <4> QED
        BY <2>4, <3>2, <4>1 DEF Pending, Busy
    <3> QED
      BY <2>3, <3>1, <3>2
  <2>10. dedup'[e] \subseteq Paged(e)' /\ logs'[e] \subseteq Paged(e)'
    BY <1>k, <2>3, <2>5 DEF KeptOf
  <2>11. \A f \in Exophones : Busy(run'[x], f) => f = e
    BY <2>4 DEF Busy
  <2> QED
    BY <1>e, <2>3, <2>4, <2>5, <2>7, <2>9, <2>10, <2>11, RunMoves
<1>2. CASE FetchFails(x)
  BY <1>2 DEF FetchFails, Orderly
(* The other steps leave the pages alone.                                   *)
<1>3. ASSUME UNCHANGED <<pages, repair>>, \A y \in Runs \ {x} : run'[y] = run[y],
             run'[x].pc = "idle" \/ run'[x].exo = e,
             \A f \in Exophones \ {e} : /\ dedup'[f] = dedup[f] /\ snapshot'[f] = snapshot[f]
                                        /\ logs'[f] = logs[f],
             dedup'[e] \subseteq Paged(e), logs'[e] \subseteq Paged(e),
             run'[x].pc # "idle" => RunFits(x, e)',
             \A c \in Paged(e) : snapshot'[e][c] >= 1 \/ Pending(x, e, c)'
      PROVE  KeptInv'
  <2>1. \A f \in Exophones : Paged(f)' = Paged(f)
    BY <1>3 DEF Paged
  <2>2. \A f \in Exophones : Busy(run'[x], f) => f = e
    BY <1>3 DEF Busy
  <2>3. Busy(run'[x], e) => RunFits(x, e)'
    BY <1>3 DEF Busy
  <2> QED
    BY <1>3, <1>e, <2>1, <2>2, <2>3, RunMoves
<1>4. ASSUME NEW c \in Calls, Register(x, c) PROVE KeptInv'
  <2> DEFINE rest == run[x].todo \ {c}
             fresh == IF c \in dedup[e] THEN run[x].fresh ELSE run[x].fresh \cup {c}
             pc == IF rest = {} THEN "logs" ELSE "register"
  <2>1. run' = [run EXCEPT ![x] = [run[x] EXCEPT !.todo = rest, !.fresh = fresh, !.pc = pc]]
    BY <1>e, <1>4 DEF Register
  <2>2. /\ run[x].pc = "register" /\ c \in run[x].todo
        /\ UNCHANGED <<snapshot, logs, pages, repair>>
    BY <1>e, <1>4 DEF Register
  <2>3. (pc = "logs" /\ rest = {}) \/ pc = "register"
    OBVIOUS
  <2>4. /\ run[x].fresh \subseteq fresh /\ fresh \subseteq run[x].fresh \cup {c}
        /\ c \in fresh \/ c \in dedup[e]
    OBVIOUS
  <2> HIDE DEF pc, fresh
  <2>5. /\ run'[x].batch = run[x].batch /\ run'[x].todo = rest /\ run'[x].found = run[x].found
        /\ run'[x].exo = e /\ run'[x].fresh = fresh /\ run'[x].pc = pc
        /\ \A y \in Runs \ {x} : run'[y] = run[y]
    BY <1>e, <1>0, <2>1 DEF RunState, TypeOK
  <2>6. /\ dedup'[e] = dedup[e] \cup {c}
        /\ \A f \in Exophones \ {e} : dedup'[f] = dedup[f]
    BY <1>e, <1>4 DEF Register, TypeOK
  <2>7. RunFits(x, e)' /\ c \in Paged(e)
    <3>1. c \in Paged(e) /\ fresh \subseteq run[x].batch
      BY <1>k, <2>2, <2>4 DEF RunFits
    <3>2. run[x].batch \subseteq Paged(e)'
      BY <1>k, <2>2 DEF RunFits, Paged
    <3> QED
      BY <1>k, <2>3, <2>5, <3>1, <3>2 DEF RunFits
  <2>8. ASSUME NEW d \in Paged(e), ~(snapshot'[e][d] >= 1) PROVE Pending(x, e, d)'
    <3>1. Pending(x, e, d)
      BY <1>p, <2>2, <2>8
    <3>2. Busy(run'[x], e)
      BY <2>3, <2>5 DEF Busy
    <3>3. CASE d \in fresh
      BY <2>3, <2>5, <3>2, <3>3 DEF Pending
    <3>4. CASE d \notin fresh
      <4>1. d \in run[x].todo /\ d \notin dedup[e] /\ d # c
        BY <2>4, <3>1, <3>4 DEF Pending
      <4>2. d \in rest /\ pc = "register" /\ d \notin dedup'[e]
        BY <2>3, <2>6, <4>1
      <4> QED
        BY <2>5, <3>2, <4>2 DEF Pending
    <3> QED
      BY <3>3, <3>4
  <2>9. dedup'[e] \subseteq Paged(e) /\ logs'[e] \subseteq Paged(e)
    BY <1>k, <2>2, <2>6, <2>7 DEF KeptOf
  <2> QED
    BY <1>3, <2>2, <2>5, <2>6, <2>7, <2>8, <2>9
<1>5. CASE RegisterFails(x)
  <2>1. /\ run' = [run EXCEPT ![x] = [run[x] EXCEPT !.todo = {}, !.fresh = run[x].batch,
                                                    !.pc = "logs"]]
        /\ UNCHANGED <<dedup, snapshot, logs, pages, repair>>
        /\ run[x].pc = "register"
    BY <1>e, <1>5 DEF RegisterFails, stores
  <2>2. /\ run'[x].batch = run[x].batch /\ run'[x].todo = {} /\ run'[x].found = run[x].found
        /\ run'[x].exo = e /\ run'[x].fresh = run[x].batch /\ run'[x].pc = "logs"
        /\ \A y \in Runs \ {x} : run'[y] = run[y]
    BY <1>e, <1>0, <2>1 DEF RunState, TypeOK
  <2>3. RunFits(x, e)'
    BY <1>k, <2>1, <2>2 DEF RunFits, Paged
  <2>4. \A c \in Paged(e) : snapshot'[e][c] >= 1 \/ Pending(x, e, c)'
    BY <1>k, <1>p, <2>1, <2>2 DEF Pending, Busy, RunFits
  <2> QED
    BY <1>3, <1>k, <2>1, <2>2, <2>3, <2>4 DEF KeptOf
<1>6. CASE SaveCallLogs(x)
  <2> DEFINE pc == IF run[x].fresh = {} THEN "dashboard" ELSE "read"
  <2>1. /\ run' = [run EXCEPT ![x] = [run[x] EXCEPT !.pc = pc]]
        /\ UNCHANGED <<dedup, snapshot, pages, repair>>
        /\ run[x].pc = "logs"
    BY <1>e, <1>6 DEF SaveCallLogs
  <2>2. (pc = "dashboard" /\ run[x].fresh = {}) \/ pc = "read"
    OBVIOUS
  <2> HIDE DEF pc
  <2>3. /\ run'[x].batch = run[x].batch /\ run'[x].todo = run[x].todo
        /\ run'[x].found = run[x].found /\ run'[x].exo = e
        /\ run'[x].fresh = run[x].fresh /\ run'[x].pc = pc
        /\ \A y \in Runs \ {x} : run'[y] = run[y]
    BY <1>e, <1>0, <2>1 DEF RunState, TypeOK
  <2>4. /\ logs'[e] \subseteq logs[e] \cup run[x].fresh
        /\ \A f \in Exophones \ {e} : logs'[f] = logs[f]
    <3>1. CASE UNCHANGED logs
      BY <3>1
    <3>2. CASE logs' = [logs EXCEPT ![e] = @ \cup run[x].fresh]
      BY <1>e, <3>2 DEF TypeOK
    <3> QED
      BY <1>e, <1>6, <1>s, <3>1, <3>2 DEF SaveCallLogs
  <2>5. RunFits(x, e)'
    BY <1>k, <2>1, <2>2, <2>3 DEF RunFits, Paged
  <2>6. \A c \in Paged(e) : snapshot'[e][c] >= 1 \/ Pending(x, e, c)'
    BY <1>p, <2>1, <2>2, <2>3 DEF Pending, Busy
  <2>7. dedup'[e] \subseteq Paged(e) /\ logs'[e] \subseteq Paged(e)
    BY <1>k, <2>1, <2>4 DEF KeptOf, RunFits
  <2> QED
    BY <1>3, <2>1, <2>3, <2>4, <2>5, <2>6, <2>7
<1>7. CASE ReadSnapshot(x)
  <2>1. /\ run' = [run EXCEPT ![x] = [run[x] EXCEPT !.row = snapshot[e], !.pc = "upsert"]]
        /\ UNCHANGED <<dedup, snapshot, logs, pages, repair>>
        /\ run[x].pc = "read"
    BY <1>e, <1>7 DEF ReadSnapshot, stores, Orderly
  <2>2. /\ run'[x].batch = run[x].batch /\ run'[x].todo = run[x].todo
        /\ run'[x].found = run[x].found /\ run'[x].exo = e
        /\ run'[x].fresh = run[x].fresh /\ run'[x].pc = "upsert"
        /\ run'[x].row = snapshot[e]
        /\ \A y \in Runs \ {x} : run'[y] = run[y]
    BY <1>e, <1>0, <2>1 DEF RunState, TypeOK
  <2>3. RunFits(x, e)'
    BY <1>k, <2>1, <2>2 DEF RunFits, Paged
  <2>4. \A c \in Paged(e) : snapshot'[e][c] >= 1 \/ Pending(x, e, c)'
    BY <1>p, <2>1, <2>2 DEF Pending, Busy
  <2> QED
    BY <1>3, <1>k, <2>1, <2>2, <2>3, <2>4 DEF KeptOf
<1>8. CASE UpsertSnapshot(x)
  <2>1. /\ run' = [run EXCEPT ![x] = [run[x] EXCEPT !.pc = "dashboard"]]
        /\ snapshot' = [snapshot EXCEPT ![e] = Plus(run[x].row, run[x].fresh)]
        /\ UNCHANGED <<dedup, logs, pages, repair>>
        /\ run[x].pc = "upsert"
    BY <1>e, <1>8 DEF UpsertSnapshot, Orderly
  <2>2. /\ run'[x].batch = run[x].batch /\ run'[x].todo = run[x].todo
        /\ run'[x].found = run[x].found /\ run'[x].exo = e
        /\ run'[x].fresh = run[x].fresh /\ run'[x].pc = "dashboard"
        /\ \A y \in Runs \ {x} : run'[y] = run[y]
    BY <1>e, <1>0, <2>1 DEF RunState, TypeOK
  <2>3. /\ snapshot'[e] = Plus(snapshot[e], run[x].fresh)
        /\ \A f \in Exophones \ {e} : snapshot'[f] = snapshot[f]
    BY <1>e, <1>k, <2>1 DEF RunFits, TypeOK
  <2>4. ASSUME NEW c \in Paged(e) PROVE snapshot'[e][c] >= 1
    <3>1. snapshot[e][c] >= 1 \/ c \in run[x].fresh
      BY <1>p, <2>1 DEF Pending
    <3>2. c \in Calls /\ snapshot[e][c] \in Nat
      BY <1>b DEF TypeOK
    <3>3. snapshot'[e][c] = IF c \in run[x].fresh THEN snapshot[e][c] + 1 ELSE snapshot[e][c]
      BY <2>3, <3>2 DEF Plus
    <3> QED
      BY <3>1, <3>2, <3>3
  <2>5. RunFits(x, e)'
    BY <1>k, <2>1, <2>2 DEF RunFits, Paged
  <2> QED
    BY <1>3, <1>k, <2>1, <2>2, <2>3, <2>4, <2>5 DEF KeptOf
<1>9. CASE UpdateDashboard(x)
  <2>1. /\ run'[x].pc = "idle" /\ \A y \in Runs \ {x} : run'[y] = run[y]
        /\ UNCHANGED <<dedup, snapshot, logs, pages, repair>>
        /\ run[x].pc = "dashboard"
    BY <1>9 DEF UpdateDashboard, TypeOK, Idle
  <2>2. \A c \in Paged(e) : snapshot'[e][c] >= 1
    BY <1>p, <2>1 DEF Pending
  <2> QED
    BY <1>3, <1>k, <2>1, <2>2 DEF KeptOf
<1> QED
  BY <1>1, <1>2, <1>4, <1>5, <1>6, <1>7, <1>8, <1>9 DEF RunStep

(* A repair knows every call the row has to have, and writes them all.      *)
LEMMA KeptRepair ==
    ASSUME Orderly, TypeOK, KeptInv, NEW r \in Repairs, RepairStep(r)
    PROVE  KeptInv'
<1>0. repair[r] \in RepairState
  BY StartedRepair DEF RepairStep, ReprocessFromLogs, RepairCallLogs, OverwriteSnapshot,
     RepairRegister, RepairRegisterFails, RepairDashboard
<1>x. PICK e \in Exophones : repair[r].exo = e
  BY <1>0 DEF RepairState
<1>e. e \in Exophones /\ repair[r].exo = e /\ Busy(repair[r], e)
  BY <1>0, <1>x DEF RepairState, Busy
<1>k. KeptOf(e) /\ RepairFits(r, e)
  BY <1>e DEF KeptInv, KeptOf
<1>u. /\ \A x \in Runs : ~Busy(run[x], e)
      /\ \A q \in Repairs : Busy(repair[q], e) => q = r
  BY <1>e, <1>k DEF KeptOf, OneAtWork
<1>p. \A c \in Paged(e) : snapshot[e][c] >= 1 \/ Mending(r, e)
  BY <1>u, <1>k DEF KeptOf, Pending, Mending
<1>s. \A S, T : T \in Stored(S) => T = S
  BY DEF Stored, Orderly
<1>1. ASSUME UNCHANGED <<pages, run>>, \A q \in Repairs \ {r} : repair'[q] = repair[q],
             repair'[r].pc = "idle" \/ repair'[r].exo = e,
             \A f \in Exophones \ {e} : /\ dedup'[f] = dedup[f] /\ snapshot'[f] = snapshot[f]
                                        /\ logs'[f] = logs[f],
             dedup'[e] \subseteq Paged(e), logs'[e] \subseteq Paged(e),
             repair'[r].pc # "idle" => RepairFits(r, e)',
             \A c \in Paged(e) : snapshot'[e][c] >= 1 \/ Mending(r, e)'
      PROVE  KeptInv'
  <2>1. \A f \in Exophones : Busy(repair'[r], f) => f = e
    BY <1>1 DEF Busy
  <2>2. Busy(repair'[r], e) => RepairFits(r, e)'
    BY <1>1 DEF Busy
  <2> QED
    BY <1>1, <1>e, <2>1, <2>2, RepairMoves
(* Without pages there are no call logs either.                             *)
<1>2. CASE ReprocessFromLogs(r)
  <2>1. /\ repair[r].pc = "fallback"
        /\ UNCHANGED <<dedup, snapshot, logs, pages, run>>
    BY <1>2 DEF ReprocessFromLogs, stores
  <2>2. Paged(e) = {} /\ logs[e] = {} /\ dedup[e] = {}
    BY <1>k, <2>1 DEF KeptOf, RepairFits
  <2>3. repair'[r].pc = "idle" /\ \A q \in Repairs \ {r} : repair'[q] = repair[q]
    BY <1>e, <1>2, <2>2 DEF ReprocessFromLogs, TypeOK, Idle
  <2> QED
    BY <1>1, <2>1, <2>2, <2>3
<1>3. CASE RepairCallLogs(r)
  <2>1. /\ repair' = [repair EXCEPT ![r] = [repair[r] EXCEPT !.pc = "upsert"]]
        /\ UNCHANGED <<dedup, snapshot, pages, run>>
        /\ repair[r].pc = "logs"
    BY <1>3 DEF RepairCallLogs
  <2>2. /\ repair'[r].exo = e /\ repair'[r].pc = "upsert"
        /\ repair'[r].calls = repair[r].calls
        /\ \A q \in Repairs \ {r} : repair'[q] = repair[q]
    BY <1>0, <1>e, <2>1 DEF TypeOK, RepairState
  <2>3. /\ logs'[e] \subseteq logs[e] \cup repair[r].calls
        /\ \A f \in Exophones \ {e} : logs'[f] = logs[f]
    <3>1. CASE UNCHANGED logs
      BY <3>1
    <3>2. CASE logs' = [logs EXCEPT ![e] = @ \cup repair[r].calls]
      BY <1>e, <3>2 DEF TypeOK
    <3> QED
      BY <1>3, <1>e, <1>s, <3>1, <3>2 DEF RepairCallLogs
  <2>4. repair[r].calls = Paged(e) /\ dedup[e] \subseteq Paged(e) /\ logs[e] \subseteq Paged(e)
    BY <1>k, <2>1 DEF KeptOf, RepairFits
  <2>5. Paged(e)' = Paged(e)
    BY <2>1 DEF Paged
  <2>6. RepairFits(r, e)' /\ Mending(r, e)'
    BY <2>2, <2>4, <2>5 DEF RepairFits, Mending, Busy
  <2> QED
    BY <1>1, <2>1, <2>2, <2>3, <2>4, <2>6
<1>4. CASE OverwriteSnapshot(r)
  <2> DEFINE calls == repair[r].calls
             pc == IF calls = {} THEN "dashboard" ELSE "register"
             next == [repair[r] EXCEPT !.todo = calls, !.pc = pc]
  <2>0. /\ next.exo = e /\ next.todo = calls /\ next.pc = pc
        /\ pc \in {"dashboard", "register"}
    BY <1>0, <1>e DEF RepairState
  <2>1. /\ UNCHANGED <<dedup, logs, pages, run>>
        /\ repair[r].pc = "upsert"
        /\ \/ calls # {} /\ snapshot' = [snapshot EXCEPT ![e] = RowOf(calls)]
           \/ calls = {} /\ snapshot' = snapshot
    BY <1>4, <1>e DEF OverwriteSnapshot, Orderly
  <2>2. PICK new \in {Idle, next} : repair' = [repair EXCEPT ![r] = new]
    BY <1>4 DEF OverwriteSnapshot
  <2> HIDE DEF next
  <2>3. /\ repair'[r] = new
        /\ \A q \in Repairs \ {r} : repair'[q] = repair[q]
    BY <2>2 DEF TypeOK
  <2>4. calls = Paged(e) /\ Paged(e)' = Paged(e) /\ Paged(e) \subseteq Calls
    BY <1>k, <2>1 DEF RepairFits, Paged, Own
  <2>5. \A f \in Exophones \ {e} : snapshot'[f] = snapshot[f]
    BY <1>e, <2>1 DEF TypeOK
  <2>6. \A c \in Paged(e) : snapshot'[e][c] >= 1
    BY <1>e, <2>1, <2>4 DEF RowOf, TypeOK
  <2>7. /\ repair'[r].pc = "idle" \/ repair'[r].exo = e
        /\ repair'[r].pc # "idle" => RepairFits(r, e)'
    <3>1. CASE new = Idle
      BY <2>3, <3>1 DEF Idle
    <3>2. CASE new = next
      BY <2>0, <2>3, <2>4, <3>2 DEF RepairFits
    <3> QED
      BY <2>2, <3>1, <3>2
  <2> QED
    BY <1>1, <1>k, <2>1, <2>3, <2>5, <2>6, <2>7 DEF KeptOf
<1>5. ASSUME NEW c \in Calls, RepairRegister(r, c) PROVE KeptInv'
  <2> DEFINE rest == repair[r].todo \ {c}
             pc == IF rest = {} THEN "dashboard" ELSE "register"
  <2>1. /\ repair' = [repair EXCEPT ![r] = [repair[r] EXCEPT !.todo = rest, !.pc = pc]]
        /\ UNCHANGED <<snapshot, logs, pages, run>>
        /\ repair[r].pc = "register" /\ c \in repair[r].todo
    BY <1>5 DEF RepairRegister
  <2>2. pc \in {"register", "dashboard"}
    OBVIOUS
  <2> HIDE DEF pc
  <2>3. /\ repair'[r].exo = e /\ repair'[r].todo = rest /\ repair'[r].pc = pc
        /\ \A q \in Repairs \ {r} : repair'[q] = repair[q]
    BY <1>0, <1>e, <2>1 DEF TypeOK, RepairState
  <2>4. /\ dedup'[e] = dedup[e] \cup {c}
        /\ \A f \in Exophones \ {e} : dedup'[f] = dedup[f]
    BY <1>e, <1>5 DEF RepairRegister, TypeOK
  <2>5. repair[r].todo \subseteq Paged(e) /\ Paged(e)' = Paged(e)
    BY <1>k, <2>1 DEF RepairFits, Paged
  <2>6. RepairFits(r, e)'
    BY <2>2, <2>3, <2>5 DEF RepairFits
  <2>7. \A d \in Paged(e) : snapshot'[e][d] >= 1
    BY <1>p, <2>1 DEF Mending
  <2> QED
    BY <1>1, <1>k, <2>1, <2>3, <2>4, <2>5, <2>6, <2>7 DEF KeptOf
<1>6. CASE RepairRegisterFails(r)
  <2>1. /\ repair' = [repair EXCEPT ![r] = [repair[r] EXCEPT !.todo = {}, !.pc = "dashboard"]]
        /\ UNCHANGED <<dedup, snapshot, logs, pages, run>>
        /\ repair[r].pc = "register"
    BY <1>6 DEF RepairRegisterFails, stores
  <2>2. /\ repair'[r].exo = e /\ repair'[r].pc = "dashboard"
        /\ \A q \in Repairs \ {r} : repair'[q] = repair[q]
    BY <1>0, <1>e, <2>1 DEF TypeOK, RepairState
  <2>3. \A d \in Paged(e) : snapshot'[e][d] >= 1
    BY <1>p, <2>1 DEF Mending
  <2>4. RepairFits(r, e)'
    BY <2>2 DEF RepairFits
  <2> QED
    BY <1>1, <1>k, <2>1, <2>2, <2>3, <2>4 DEF KeptOf
<1>7. CASE RepairDashboard(r)
  <2>1. /\ repair'[r].pc = "idle" /\ \A q \in Repairs \ {r} : repair'[q] = repair[q]
        /\ UNCHANGED <<dedup, snapshot, logs, pages, run>>
        /\ repair[r].pc = "dashboard"
    BY <1>7 DEF RepairDashboard, TypeOK, Idle
  <2>2. \A d \in Paged(e) : snapshot'[e][d] >= 1
    BY <1>p, <2>1 DEF Mending
  <2> QED
    BY <1>1, <1>k, <2>1, <2>2 DEF KeptOf
<1> QED
  BY <1>2, <1>3, <1>4, <1>5, <1>6, <1>7 DEF RepairStep

(* An execution starts on an exophone that is at rest.                      *)
LEMMA KeptStart ==
    ASSUME Orderly, TypeOK, KeptInv, NEW x \in Runs, NEW e \in Exophones, ResolveExophone(x, e)
    PROVE  KeptInv'
<1>1. /\ run[x].pc = "idle" /\ NoRun(e) /\ NoRepair(e)
      /\ UNCHANGED <<dedup, snapshot, logs, pages, repair>>
  BY DEF ResolveExophone, MayRun, Orderly, stores
<1>2. /\ run'[x].pc = "fetch" /\ run'[x].exo = e /\ run'[x].found = TRUE
      /\ run'[x].batch = {} /\ run'[x].todo = {} /\ run'[x].fresh = {}
      /\ \A y \in Runs \ {x} : run'[y] = run[y]
  <2> DEFINE started(found) == [pc |-> "fetch", exo |-> e, found |-> found,
                                skip |-> found /\ skip[e], batch |-> {}, todo |-> {},
                                fresh |-> {}, row |-> Empty]
  <2>1. \E found \in {TRUE} \cup {f \in {FALSE} : "db" \in Faults} :
           run' = [run EXCEPT ![x] = started(found)]
    BY DEF ResolveExophone
  <2>2. run' = [run EXCEPT ![x] = started(TRUE)]
    <3> HIDE DEF started
    <3> QED BY <2>1 DEF Orderly
  <2>3. /\ started(TRUE).pc = "fetch" /\ started(TRUE).exo = e /\ started(TRUE).found = TRUE
        /\ started(TRUE).batch = {} /\ started(TRUE).todo = {} /\ started(TRUE).fresh = {}
    OBVIOUS
  <2> HIDE DEF started
  <2> QED
    BY <2>2, <2>3 DEF TypeOK
<1>3. \A f \in Exophones : Paged(f)' = Paged(f)
  BY <1>1 DEF Paged
<1>4. KeptOf(e)'
  <2>1. /\ \A y \in Runs : Busy(run'[y], e) => y = x
        /\ \A r \in Repairs : ~Busy(repair'[r], e)
    BY <1>1, <1>2 DEF NoRun, NoRepair
  <2>2. RunFits(x, e)'
    BY <1>2 DEF RunFits
  <2>3. \A c \in Paged(e) : snapshot[e][c] >= 1
    BY <1>1 DEF KeptInv, KeptOf, Pending, Mending, NoRun, NoRepair
  <2>4. dedup'[e] \subseteq Paged(e)' /\ logs'[e] \subseteq Paged(e)'
    BY <1>1, <1>3 DEF KeptInv, KeptOf
  <2> QED
    BY <1>1, <1>3, <2>1, <2>2, <2>3, <2>4 DEF KeptOf, OneAtWork
<1>5. ASSUME NEW f \in Exophones \ {e} PROVE KeptOf(f)'
  <2>1. \A y \in Runs : Busy(run[y], f) \/ Busy(run'[y], f) => run'[y] = run[y]
    BY <1>1, <1>2 DEF Busy
  <2> QED
    BY <1>1, <1>3, <2>1, Untouched DEF KeptInv
<1> QED
  BY <1>4, <1>5 DEF KeptInv

(* So does a repair, with every call that is in the pages.                  *)
LEMMA KeptRepairStarts ==
    ASSUME TypeOK, KeptInv, NEW r \in Repairs, NEW e \in Exophones,
           repair[r].pc = "idle", AtRest(e),
           \A q \in Repairs \ {r} : repair'[q] = repair[q],
           repair'[r].exo = e, RepairFits(r, e)',
           UNCHANGED <<dedup, snapshot, logs, run>>,
           \A f \in Exophones \ {e} : Paged(f)' = Paged(f),
           Paged(e) \subseteq Paged(e)',
           Paged(e)' = Paged(e) \/ Mending(r, e)'
    PROVE  KeptInv'
<1>1. /\ \A x \in Runs : ~Busy(run'[x], e)
      /\ \A q \in Repairs : Busy(repair'[q], e) => q = r
  BY DEF AtRest, NoRun, NoRepair
<1>2. \A c \in Paged(e) : snapshot[e][c] >= 1
  BY DEF KeptInv, KeptOf, Pending, Mending, AtRest, NoRun, NoRepair
<1>3. dedup'[e] \subseteq Paged(e)' /\ logs'[e] \subseteq Paged(e)'
  BY DEF KeptInv, KeptOf
<1>4. KeptOf(e)'
  BY <1>1, <1>2, <1>3 DEF KeptOf, OneAtWork
<1>5. ASSUME NEW f \in Exophones \ {e} PROVE KeptOf(f)'
  <2>1. \A q \in Repairs : Busy(repair[q], f) \/ Busy(repair'[q], f) => repair'[q] = repair[q]
    BY DEF Busy
  <2> QED
    BY <2>1, Untouched DEF KeptInv
<1> QED
  BY <1>4, <1>5 DEF KeptInv

(* The vendor has reported every call that is in the pages.                 *)
PagesInv == \A p \in pages : p.call \in happened

LEMMA PagesKept == ASSUME TypeOK, PagesInv, [Next]_vars PROVE PagesInv'
<1>1. happened \subseteq happened'
  BY ZenonT(60) DEF Next, CallHappens, RunStep, FetchCalls, FetchFails, Register, RegisterFails, SaveCallLogs,
     ReadSnapshot, UpsertSnapshot, UpdateDashboard, ResolveExophone, RepairStep, ReprocessFromLogs,
     RepairCallLogs, OverwriteSnapshot, RepairRegister, RepairRegisterFails, RepairDashboard,
     Reprocess, Backfill, SetSkipCallLogsWrite, SetSkipCallLogs, Crash, RedisForgets, vars
<1>2. \/ UNCHANGED pages
      \/ \E e, ok : \E S \in SUBSET happened : pages' = pages \cup Pages(e, S, ok)
  <2>1. ASSUME NEW x \in Runs, FetchCalls(x)
        PROVE  \E e, ok : \E S \in SUBSET happened : pages' = pages \cup Pages(e, S, ok)
    BY <2>1, StoredType DEF FetchCalls, Reported
  <2>2. ASSUME NEW x \in Runs, FetchFails(x)
        PROVE  \E e, ok : \E S \in SUBSET happened : pages' = pages \cup Pages(e, S, ok)
    BY <2>2 DEF FetchFails, Reported
  <2>3. ASSUME NEW r \in Repairs, NEW e \in Exophones, NEW kind \in Kinds,
               NEW skipLogs \in BOOLEAN, Backfill(r, e, kind, skipLogs)
        PROVE  \E f, ok : \E S \in SUBSET happened : pages' = pages \cup Pages(f, S, ok)
    BY <2>3, StoredType DEF Backfill
  <2> QED
    BY ZenonT(60), <2>1, <2>2, <2>3
    DEF Next, CallHappens, RunStep, Register, RegisterFails, SaveCallLogs,
     ReadSnapshot, UpsertSnapshot, UpdateDashboard, ResolveExophone, RepairStep, ReprocessFromLogs,
     RepairCallLogs, OverwriteSnapshot, RepairRegister, RepairRegisterFails, RepairDashboard,
     Reprocess, SetSkipCallLogsWrite, SetSkipCallLogs, Crash, RedisForgets, vars, stores
<1> QED
  BY <1>1, <1>2 DEF PagesInv, Pages

LEMMA KeptNext ==
    ASSUME Orderly, TypeOK, PagesInv, KeptInv, [Next]_vars
    PROVE  KeptInv'
<1>0. ASSUME UNCHANGED <<snapshot, logs, pages, run, repair>>,
             \A e \in Exophones : dedup'[e] = dedup[e] \/ dedup'[e] = {}
      PROVE  KeptInv'
  <2> SUFFICES ASSUME NEW e \in Exophones PROVE KeptOf(e)'
    BY DEF KeptInv
  <2>1. Paged(e)' = Paged(e)
    BY <1>0 DEF Paged
  <2>2. \A x \in Runs, c \in Calls : Pending(x, e, c) => Pending(x, e, c)'
    BY <1>0 DEF Pending
  <2>3. Paged(e) \subseteq Calls
    BY DEF Paged, Own
  <2>4. KeptOf(e)
    BY DEF KeptInv
  <2>5. /\ OneAtWork(e)'
        /\ \A x \in Runs : RunFits(x, e) => RunFits(x, e)'
        /\ \A r \in Repairs : (RepairFits(r, e) => RepairFits(r, e)') /\ (Mending(r, e) => Mending(r, e)')
    BY <1>0, <2>1, <2>4 DEF KeptOf, OneAtWork, RunFits, RepairFits, Mending
  <2>6. dedup'[e] \subseteq Paged(e)' /\ logs'[e] \subseteq Paged(e)'
    BY <1>0, <2>1, <2>4 DEF KeptOf
  <2> QED
    BY <1>0, <2>1, <2>2, <2>3, <2>4, <2>5, <2>6 DEF KeptOf
<1>1. ASSUME NEW c \in Calls, CallHappens(c) PROVE KeptInv'
  BY <1>0, <1>1 DEF CallHappens, stores
<1>2. ASSUME NEW x \in Runs, NEW e \in Exophones, ResolveExophone(x, e) PROVE KeptInv'
  BY <1>2, KeptStart
<1>3. ASSUME NEW x \in Runs, RunStep(x) PROVE KeptInv'
  BY <1>3, KeptRun
<1>4. ASSUME NEW r \in Repairs, RepairStep(r) PROVE KeptInv'
  BY <1>4, KeptRepair
<1>5. ASSUME NEW r \in Repairs, NEW e \in Exophones, Reprocess(r, e) PROVE KeptInv'
  <2>1. repair[r].pc = "idle" /\ AtRest(e) /\ UNCHANGED <<dedup, snapshot, logs, pages, run>>
    BY <1>5 DEF Reprocess, MayRequest, MayRepair, Orderly, stores
  <2>2. repair' = [repair EXCEPT ![r] =
                     [pc |-> IF Paged(e) = {} THEN "fallback" ELSE "logs", exo |-> e,
                      kind |-> "reprocess", skip |-> skip[e],
                      calls |-> Paged(e), todo |-> {}]]
    BY <1>5 DEF Reprocess, Paged
  <2>3. /\ repair'[r].exo = e /\ repair'[r].calls = Paged(e)
        /\ repair'[r].pc = (IF Paged(e) = {} THEN "fallback" ELSE "logs")
        /\ \A q \in Repairs \ {r} : repair'[q] = repair[q]
    BY <2>2 DEF TypeOK
  <2>4. \A f \in Exophones : Paged(f)' = Paged(f)
    BY <2>1 DEF Paged
  <2>5. RepairFits(r, e)'
    BY <2>3, <2>4 DEF RepairFits
  <2> QED
    BY <2>1, <2>3, <2>4, <2>5, KeptRepairStarts
<1>6. ASSUME NEW r \in Repairs, NEW e \in Exophones, NEW kind \in Kinds,
             NEW skipLogs \in BOOLEAN, Backfill(r, e, kind, skipLogs)
      PROVE KeptInv'
  <2> DEFINE calls == happened \cap Own(e)
  <2>1. repair[r].pc = "idle" /\ AtRest(e) /\ UNCHANGED <<dedup, snapshot, logs, run>>
    BY <1>6 DEF Backfill, MayRequest, MayRepair, Orderly
  <2>2. pages' = pages \cup Pages(e, calls, TRUE)
    BY <1>6 DEF Backfill, Stored, Orderly
  <2>3. /\ repair'[r].exo = e /\ repair'[r].calls = calls /\ repair'[r].pc = "logs"
        /\ \A q \in Repairs \ {r} : repair'[q] = repair[q]
    BY <1>6 DEF Backfill, TypeOK
  <2>s. calls \in SUBSET Own(e)
    OBVIOUS
  <2> HIDE DEF calls
  <2>4. /\ Paged(e)' = Paged(e) \cup calls
        /\ \A f \in Exophones \ {e} : Paged(f)' = Paged(f)
    BY <2>2, <2>s, PagesOf
  <2>5. Paged(e) \subseteq calls
    BY DEF PagesInv, Paged, calls
  <2>6. RepairFits(r, e)' /\ Mending(r, e)'
    BY <2>3, <2>4, <2>5 DEF RepairFits, Mending, Busy
  <2> QED
    BY <2>1, <2>3, <2>4, <2>6, KeptRepairStarts
<1>7. ASSUME NEW v \in BOOLEAN, SetSkipCallLogsWrite(v) PROVE KeptInv'
  BY <1>0, <1>7 DEF SetSkipCallLogsWrite, stores
<1>8. ASSUME NEW v \in BOOLEAN, NEW e \in Exophones, SetSkipCallLogs(e, v) PROVE KeptInv'
  BY <1>0, <1>8 DEF SetSkipCallLogs, stores
<1>9. CASE Crash
  BY <1>9 DEF Crash, Orderly
<1>10. ASSUME NEW e \in Exophones, RedisForgets(e) PROVE KeptInv'
  BY <1>0, <1>10 DEF RedisForgets, TypeOK
<1>11. CASE UNCHANGED vars
  BY <1>0, <1>11 DEF vars, stores
<1> QED
  BY <1>1, <1>2, <1>3, <1>4, <1>5, <1>6, <1>7, <1>8, <1>9, <1>10, <1>11 DEF Next

(* While only Redis fails and executions and repairs take turns, every call *)
(* a reprocess would rebuild from the stored pages is in the row of its     *)
(* exophone whenever nothing is at work on it, however often Redis forgets  *)
(* its sets or fails in the middle of a pipeline.                           *)
THEOREM NothingLostHolds == ASSUME Orderly PROVE Spec => []NothingLostAtRest
<1>1. Init => TypeOK /\ PagesInv /\ KeptInv
  BY PipelineTypeInit, KeptInit DEF Init, PagesInv
<1>2. TypeOK /\ PagesInv /\ KeptInv /\ [Next]_vars => TypeOK' /\ PagesInv' /\ KeptInv'
  BY PipelineTypeNext, PagesKept, KeptNext
<1>3. KeptInv => NothingLostAtRest
  <2>1. ASSUME KeptInv, NEW e \in Exophones, AtRest(e), NEW c \in Paged(e)
        PROVE  snapshot[e][c] >= 1
    BY <2>1 DEF KeptInv, KeptOf, Pending, Mending, AtRest, NoRun, NoRepair
  <2> QED
    BY <2>1 DEF NothingLostAtRest, Paged
<1> QED
  BY <1>1, <1>2, <1>3, PTL DEF Spec

(* A registered SID is not forgotten: the call is in the row, or the        *)
(* execution that registered it still has it, or a repair is about to write *)
(* it.                                                                      *)
RegisteredIsKept ==
    \A e \in Exophones : \A c \in dedup[e] :
        \/ snapshot[e][c] >= 1
        \/ \E x \in Runs : Pending(x, e, c)
        \/ \E r \in Repairs : Mending(r, e) /\ c \in repair[r].calls

(* The safety half of RegisteredIsCounted: while only Redis fails and       *)
(* executions and repairs take turns, a SID that stands in the set, and so  *)
(* keeps its call from being taken again, never stands there in vain.       *)
THEOREM RegisteredIsKeptHolds == ASSUME Orderly PROVE Spec => []RegisteredIsKept
<1>1. Init => TypeOK /\ PagesInv /\ KeptInv
  BY PipelineTypeInit, KeptInit DEF Init, PagesInv
<1>2. TypeOK /\ PagesInv /\ KeptInv /\ [Next]_vars => TypeOK' /\ PagesInv' /\ KeptInv'
  BY PipelineTypeNext, PagesKept, KeptNext
<1>3. KeptInv => RegisteredIsKept
  <2> SUFFICES ASSUME KeptInv, NEW e \in Exophones, NEW c \in dedup[e]
               PROVE  \/ snapshot[e][c] >= 1
                      \/ \E x \in Runs : Pending(x, e, c)
                      \/ \E r \in Repairs : Mending(r, e) /\ c \in repair[r].calls
    BY DEF RegisteredIsKept
  <2>1. KeptOf(e) /\ c \in Paged(e)
    BY DEF KeptInv, KeptOf
  <2>2. ASSUME NEW r \in Repairs, Mending(r, e) PROVE c \in repair[r].calls
    BY <2>1, <2>2 DEF KeptOf, Mending, RepairFits
  <2> QED
    BY <2>1, <2>2 DEF KeptOf
<1> QED
  BY <1>1, <1>2, <1>3, PTL DEF Spec

-----------------------------------------------------------------------------
(* Executions that take turns implement CallLedger.                         *)

(* Redis answers, executions of an exophone take turns, nothing is repaired.*)
Alone == Repairs = {} /\ TakeTurns = "all" /\ "redis" \notin Faults

Stage == [e \in Exophones |-> [c \in Calls |-> StageOf(e, c)]]

Held(e, c) == \E x \in Runs : Holds(x, e, c)

(* One execution works on an exophone, and the row it is about to write is  *)
(* the stored one, or none when that could not be read.                     *)
TurnInv ==
    /\ \A e \in Exophones : \A x, y \in Runs : Busy(run[x], e) /\ Busy(run[y], e) => x = y
    /\ \A e \in Exophones, x \in Runs : Writes(x, e) =>
          \/ run[x].row = snapshot[e]
          \/ run[x].row = Empty /\ "db" \in Faults

StageFits(e, c) ==
    /\ snapshot[e][c] = 1 => StageOf(e, c) = "counted"
    /\ snapshot[e][c] = 0 =>
          /\ Held(e, c) => StageOf(e, c) = "pending"
          /\ ~Held(e, c) /\ c \in dedup[e] => StageOf(e, c) = "lost"
          /\ ~Held(e, c) /\ c \notin dedup[e] => StageOf(e, c) = "unseen"

LEMMA StagesFit ==
    ASSUME NEW e \in Exophones, NEW c \in Calls,
           snapshot[e][c] \in {0, 1}, snapshot'[e][c] \in {0, 1}
    PROVE  StageFits(e, c) /\ StageFits(e, c)'
<1>1. StageFits(e, c)
  BY DEF StageFits, StageOf, Held
<1>2. StageFits(e, c)'
  BY DEF StageFits, StageOf, Held
<1> QED
  BY <1>1, <1>2

(* What the counting invariant says of a call when nothing is repaired.     *)
LEMMA AloneFacts ==
    ASSUME Alone, CountInv, NEW e \in Exophones, NEW c \in Calls
    PROVE  /\ snapshot[e][c] \in {0, 1}
           /\ snapshot[e][c] = 1 => c \in dedup[e]
           /\ Held(e, c) => c \in dedup[e] /\ snapshot[e][c] = 0
  BY DEF Alone, CountInv, Covered, HeldOnce, Held

LEMMA StageUnchanged ==
    ASSUME CountInv, CountInv', UNCHANGED <<dedup, snapshot>>,
           \A e \in Exophones, c \in Calls : Held(e, c)' <=> Held(e, c)
    PROVE  UNCHANGED Stage
<1>1. ASSUME NEW e \in Exophones, NEW c \in Calls PROVE StageOf(e, c)' = StageOf(e, c)
  <2>1. StageFits(e, c) /\ StageFits(e, c)'
    BY StagesFit DEF CountInv
  <2> QED
    BY <1>1, <2>1 DEF StageFits, CountInv
<1> QED
  BY <1>1 DEF Stage

(* The taken calls of some exophones are gone.                              *)
LEMMA StageLost ==
    ASSUME Alone, CountInv, CountInv', UNCHANGED <<dedup, snapshot>>,
           Faults \cap {"crash", "db"} # {}, NEW es \in SUBSET Exophones,
           \A e \in Exophones, c \in Calls : Held(e, c)' <=> (Held(e, c) /\ e \notin es)
    PROVE  Ledger!Lose
<1>1. ASSUME NEW e \in Exophones, NEW c \in Calls
      PROVE  StageOf(e, c)' = IF e \in es /\ StageOf(e, c) = "pending" THEN "lost"
                                                                     ELSE StageOf(e, c)
  <2>1. StageFits(e, c) /\ StageFits(e, c)'
    BY StagesFit DEF CountInv
  <2>2. /\ snapshot[e][c] \in {0, 1} /\ snapshot'[e][c] = snapshot[e][c]
        /\ dedup'[e] = dedup[e]
        /\ Held(e, c) => c \in dedup[e] /\ snapshot[e][c] = 0
    BY AloneFacts
  <2>3. Held(e, c)' <=> (Held(e, c) /\ e \notin es)
    OBVIOUS
  <2> QED
    BY <2>1, <2>2, <2>3 DEF StageFits
<1>2. Stage' = [e \in Exophones |-> [c \in Calls |->
                  IF e \in es /\ Stage[e][c] = "pending" THEN "lost" ELSE Stage[e][c]]]
  BY <1>1 DEF Stage
<1> QED
  BY <1>2 DEF Ledger!Lose, Stage

(* filterNewRecords takes a call, or finds it taken.                        *)
LEMMA StageRegister ==
    ASSUME Alone, TypeOK, CountInv, CountInv', NEW x \in Runs, NEW c \in Calls, Register(x, c)
    PROVE  Ledger!Next \/ UNCHANGED Stage
<1>0. run[x] \in RunState /\ run[x].pc = "register"
  BY StartedRun DEF Register
<1>x. PICK e \in Exophones : run[x].exo = e
  BY <1>0 DEF RunState
<1> DEFINE rest == run[x].todo \ {c}
           pc == IF rest = {} THEN "logs" ELSE "register"
           fresh == IF c \in dedup[e] THEN run[x].fresh ELSE run[x].fresh \cup {c}
<1>1. /\ dedup' = [dedup EXCEPT ![e] = @ \cup {c}]
      /\ run' = [run EXCEPT ![x].todo = rest, ![x].fresh = fresh, ![x].pc = pc]
      /\ UNCHANGED snapshot
  BY <1>x DEF Register
<1>2. pc \in {"register", "logs"}
  OBVIOUS
<1> HIDE DEF pc
<1>3. /\ run'[x].exo = e /\ run'[x].fresh = fresh /\ run'[x].pc = pc
      /\ \A y \in Runs \ {x} : run'[y] = run[y]
  BY <1>0, <1>x, <1>1 DEF TypeOK, RunState
<1>4. \A f \in Exophones, d \in Calls :
         Held(f, d)' <=> (Held(f, d) \/ (f = e /\ d = c /\ c \notin dedup[e]))
  <2>1. \A f \in Exophones, d \in Calls :
           Holds(x, f, d)' <=> (Holds(x, f, d) \/ (f = e /\ d = c /\ c \notin dedup[e]))
    BY <1>0, <1>x, <1>2, <1>3 DEF Holds
  <2>2. \A y \in Runs \ {x}, f \in Exophones, d \in Calls : Holds(y, f, d)' <=> Holds(y, f, d)
    BY <1>3 DEF Holds
  <2> QED
    BY <2>1, <2>2 DEF Held
<1>5. CASE c \in dedup[e]
  <2>1. UNCHANGED dedup
    BY <1>1, <1>5 DEF TypeOK
  <2> QED
    BY <1>1, <1>4, <1>5, <2>1, StageUnchanged
<1>6. CASE c \notin dedup[e]
  <2>0. /\ dedup'[e] = dedup[e] \cup {c}
        /\ \A f \in Exophones \ {e} : dedup'[f] = dedup[f]
    BY <1>1 DEF TypeOK
  <2>1. StageOf(e, c) = "unseen" /\ StageOf(e, c)' = "pending"
    <3>1. StageFits(e, c) /\ StageFits(e, c)'
      BY StagesFit DEF CountInv
    <3>2. snapshot[e][c] = 0 /\ snapshot'[e][c] = 0 /\ ~Held(e, c) /\ Held(e, c)'
      BY <1>1, <1>4, <1>6, AloneFacts
    <3> QED
      BY <1>6, <3>1, <3>2 DEF StageFits
  <2>2. ASSUME NEW f \in Exophones, NEW d \in Calls, f # e \/ d # c
        PROVE  StageOf(f, d)' = StageOf(f, d)
    <3>1. StageFits(f, d) /\ StageFits(f, d)'
      BY StagesFit DEF CountInv
    <3>2. /\ snapshot[f][d] \in {0, 1} /\ snapshot'[f][d] = snapshot[f][d]
          /\ d \in dedup'[f] <=> d \in dedup[f]
          /\ Held(f, d)' <=> Held(f, d)
      BY <1>1, <1>4, <2>0, <2>2, AloneFacts
    <3> QED
      BY <3>1, <3>2 DEF StageFits
  <2>3. Stage[e][c] = "unseen" /\ Stage' = [Stage EXCEPT ![e][c] = "pending"]
    BY <2>1, <2>2 DEF Stage
  <2>4. Ledger!Take(e, c)
    BY <2>3 DEF Ledger!Take, Stage
  <2> QED
    BY <2>4 DEF Ledger!Next
<1> QED
  BY <1>5, <1>6

(* The batch of an execution is counted as a whole, or the row is started   *)
(* afresh with it, or it is lost as a whole.                                *)
LEMMA StageUpsert ==
    ASSUME Alone, TypeOK, CountInv, CountInv', TurnInv, NEW x \in Runs, UpsertSnapshot(x)
    PROVE  Ledger!Next
<1>0. run[x] \in RunState /\ run[x].pc = "upsert"
  BY StartedRun DEF UpsertSnapshot
<1>x. PICK e \in Exophones : run[x].exo = e
  BY <1>0 DEF RunState
<1> DEFINE fresh == run[x].fresh
           row == run[x].row
<1>1. /\ \/ snapshot' = [snapshot EXCEPT ![e] = Plus(row, fresh)]
         \/ "db" \in Faults /\ UNCHANGED snapshot
      /\ run' = [run EXCEPT ![x].pc = "dashboard"]
      /\ UNCHANGED dedup
  BY <1>x DEF UpsertSnapshot
<1>2. /\ run'[x].pc = "dashboard" /\ run'[x].exo = e
      /\ \A y \in Runs \ {x} : run'[y] = run[y]
  BY <1>0, <1>x, <1>1 DEF TypeOK, RunState
<1>3. \A y \in Runs : Busy(run[y], e) => y = x
  BY <1>0, <1>x DEF TurnInv, Busy
<1>4. \A d \in Calls : (Held(e, d) <=> d \in fresh) /\ ~Held(e, d)'
  <2>1. \A y \in Runs, d \in Calls : Holds(y, e, d) => y = x
    BY <1>3 DEF Holds, Busy
  <2>2. \A y \in Runs, d \in Calls : Holds(y, e, d)' => y = x
    BY <1>2, <1>3 DEF Holds, Busy
  <2>3. \A d \in Calls : (Holds(x, e, d) <=> d \in fresh) /\ ~Holds(x, e, d)'
    BY <1>0, <1>x, <1>2 DEF Holds
  <2> QED
    BY <2>1, <2>2, <2>3 DEF Held
<1>5. \A f \in Exophones \ {e}, d \in Calls : Held(f, d)' <=> Held(f, d)
  <2>1. \A y \in Runs, f \in Exophones \ {e}, d \in Calls : Holds(y, f, d)' <=> Holds(y, f, d)
    BY <1>x, <1>2 DEF Holds
  <2> QED
    BY <2>1 DEF Held
<1>6. ASSUME NEW f \in Exophones, NEW d \in Calls
      PROVE  /\ StageFits(f, d) /\ StageFits(f, d)'
             /\ snapshot[f][d] \in {0, 1} /\ snapshot'[f][d] \in {0, 1}
             /\ snapshot[f][d] = 1 => d \in dedup[f]
             /\ Held(f, d) => d \in dedup[f] /\ snapshot[f][d] = 0
  BY StagesFit, AloneFacts DEF CountInv
<1>7. ASSUME NEW f \in Exophones \ {e}, NEW d \in Calls, snapshot'[f] = snapshot[f]
      PROVE  StageOf(f, d)' = StageOf(f, d)
  <2>1. Held(f, d)' <=> Held(f, d)
    BY <1>5
  <2> QED
    BY <1>1, <1>6, <1>7, <2>1 DEF StageFits
<1>w. Writes(x, e)
  BY <1>0, <1>x DEF Writes
<1>8. CASE snapshot' = [snapshot EXCEPT ![e] = Plus(row, fresh)] /\ row = snapshot[e]
  <2>1. /\ \A f \in Exophones \ {e} : snapshot'[f] = snapshot[f]
        /\ \A d \in Calls : snapshot'[e][d] = IF d \in fresh THEN snapshot[e][d] + 1
                                                             ELSE snapshot[e][d]
    BY <1>8 DEF TypeOK, Plus
  <2>2. ASSUME NEW d \in Calls
        PROVE  StageOf(e, d)' = IF StageOf(e, d) = "pending" THEN "counted" ELSE StageOf(e, d)
    BY <1>1, <1>4, <1>6, <2>1 DEF StageFits
  <2>3. Stage' = [Stage EXCEPT ![e] =
                    [d \in Calls |-> IF Stage[e][d] = "pending" THEN "counted" ELSE Stage[e][d]]]
    <3>1. \A f \in Exophones \ {e}, d \in Calls : StageOf(f, d)' = StageOf(f, d)
      BY <1>7, <2>1
    <3> QED
      BY <2>2, <3>1 DEF Stage
  <2>4. Ledger!Settle(e)
    BY <2>3 DEF Ledger!Settle, Ledger!Move, Stage
  <2> QED
    BY <2>4 DEF Ledger!Next
<1>9. CASE snapshot' = [snapshot EXCEPT ![e] = Plus(row, fresh)] /\ row = Empty /\ "db" \in Faults
  <2>1. /\ \A f \in Exophones \ {e} : snapshot'[f] = snapshot[f]
        /\ \A d \in Calls : snapshot'[e][d] = IF d \in fresh THEN 1 ELSE 0
    BY <1>9 DEF TypeOK, Plus, Empty
  <2>2. ASSUME NEW d \in Calls
        PROVE  StageOf(e, d)' = IF StageOf(e, d) = "pending" THEN "counted"
                                ELSE IF StageOf(e, d) = "counted" THEN "lost"
                                ELSE StageOf(e, d)
    BY <1>1, <1>4, <1>6, <2>1 DEF StageFits
  <2>3. Stage' = [Stage EXCEPT ![e] =
                    [d \in Calls |-> IF Stage[e][d] = "pending" THEN "counted"
                                     ELSE IF Stage[e][d] = "counted" THEN "lost"
                                     ELSE Stage[e][d]]]
    BY ZenonT(60), <1>7, <2>1, <2>2 DEF Stage
  <2>4. Ledger!Wipe(e)
    BY <1>9, <2>3 DEF Ledger!Wipe, Stage
  <2> QED
    BY <2>4 DEF Ledger!Next
<1>10. CASE UNCHANGED snapshot /\ "db" \in Faults
  <2>1. Faults \cap {"crash", "db"} # {} /\ {e} \in SUBSET Exophones
    BY <1>10
  <2>2. \A f \in Exophones, d \in Calls : Held(f, d)' <=> (Held(f, d) /\ f \notin {e})
    BY <1>4, <1>5
  <2>3. Ledger!Lose
    BY <1>1, <1>10, <2>1, <2>2, StageLost
  <2> QED
    BY <2>3 DEF Ledger!Next
<1> QED
  BY <1>1, <1>8, <1>9, <1>10, <1>w DEF TurnInv

LEMMA TurnInit == ASSUME Init PROVE TurnInv
  BY DEF Init, TurnInv, Busy, Writes, Idle

LEMMA TurnNext == ASSUME Alone, TypeOK, TurnInv, [Next]_vars PROVE TurnInv'
(* A step of an execution that does not read leaves the others' rows true.  *)
<1>1. ASSUME UNCHANGED snapshot,
             \A x \in Runs, e \in Exophones : Busy(run'[x], e) => Busy(run[x], e),
             \A x \in Runs, e \in Exophones : Writes(x, e)' =>
                \/ Writes(x, e) /\ run'[x].row = run[x].row
                \/ run'[x].row = snapshot[e]
                \/ run'[x].row = Empty /\ "db" \in Faults
      PROVE  TurnInv'
  BY <1>1 DEF TurnInv, Writes, Empty
<1>2. ASSUME UNCHANGED <<snapshot, run>> PROVE TurnInv'
  BY <1>1, <1>2 DEF Writes
<1>3. ASSUME NEW x \in Runs, NEW e \in Exophones, ResolveExophone(x, e) PROVE TurnInv'
  <2>1. run[x].pc = "idle" /\ NoRun(e) /\ UNCHANGED snapshot
    BY <1>3 DEF ResolveExophone, MayRun, Alone, stores
  <2>2. /\ run'[x].pc = "fetch" /\ run'[x].exo = e
        /\ \A y \in Runs \ {x} : run'[y] = run[y]
    BY <1>3 DEF ResolveExophone, TypeOK
  <2> QED
    BY <2>1, <2>2 DEF TurnInv, NoRun, Busy, Writes
<1>4. ASSUME NEW x \in Runs, RunStep(x) PROVE TurnInv'
  <2>0. run[x] \in RunState
    BY <1>4, StartedRun DEF RunStep, FetchCalls, FetchFails, Register, RegisterFails,
       SaveCallLogs, ReadSnapshot, UpsertSnapshot, UpdateDashboard
  <2>x. PICK e \in Exophones : run[x].exo = e /\ Busy(run[x], e)
    BY <2>0 DEF RunState, Busy
  <2>1. CASE FetchCalls(x)
    <3>1. /\ UNCHANGED snapshot /\ run'[x].exo = e /\ run'[x].pc \in {"logs", "register"}
          /\ \A y \in Runs \ {x} : run'[y] = run[y]
      BY <2>0, <2>1, <2>x DEF FetchCalls, TypeOK, RunState
    <3> QED
      BY <1>1, <2>x, <3>1 DEF Busy, Writes
  <2>2. CASE FetchFails(x) \/ UpdateDashboard(x)
    <3>1. /\ UNCHANGED snapshot /\ run'[x].pc = "idle"
          /\ \A y \in Runs \ {x} : run'[y] = run[y]
      BY <2>2 DEF FetchFails, UpdateDashboard, TypeOK, Idle
    <3> QED
      BY <1>1, <3>1 DEF Busy, Writes
  <2>3. ASSUME NEW c \in Calls, Register(x, c) PROVE TurnInv'
    <3>1. /\ UNCHANGED snapshot /\ run'[x].exo = e /\ run'[x].pc \in {"logs", "register"}
          /\ \A y \in Runs \ {x} : run'[y] = run[y]
      BY <2>0, <2>3, <2>x DEF Register, TypeOK, RunState
    <3> QED
      BY <1>1, <2>x, <3>1 DEF Busy, Writes
  <2>4. CASE SaveCallLogs(x)
    <3>1. /\ UNCHANGED snapshot /\ run'[x].exo = e /\ run'[x].pc \in {"dashboard", "read"}
          /\ \A y \in Runs \ {x} : run'[y] = run[y]
      BY <2>0, <2>4, <2>x DEF SaveCallLogs, TypeOK, RunState
    <3> QED
      BY <1>1, <2>x, <3>1 DEF Busy, Writes
  <2>5. CASE ReadSnapshot(x)
    <3>1. PICK row : /\ row = snapshot[e] \/ (row = Empty /\ "db" \in Faults)
                     /\ run' = [run EXCEPT ![x].row = row, ![x].pc = "upsert"]
      BY <2>5, <2>x DEF ReadSnapshot
    <3>2. /\ UNCHANGED snapshot /\ run'[x].exo = e /\ run'[x].row = row
          /\ \A y \in Runs \ {x} : run'[y] = run[y]
      BY <2>0, <2>5, <2>x, <3>1 DEF ReadSnapshot, TypeOK, RunState, stores
    <3> QED
      BY <1>1, <2>x, <3>1, <3>2 DEF Busy, Writes
  <2>6. CASE UpsertSnapshot(x)
    <3>1. /\ run'[x].exo = e /\ run'[x].pc = "dashboard"
          /\ \A y \in Runs \ {x} : run'[y] = run[y]
          /\ \A f \in Exophones \ {e} : snapshot'[f] = snapshot[f]
      BY <2>0, <2>6, <2>x DEF UpsertSnapshot, TypeOK, RunState
    <3>2. \A y \in Runs, f \in Exophones : Writes(y, f)' => Writes(y, f) /\ f # e /\ y # x
      BY <2>x, <3>1 DEF TurnInv, Writes, Busy
    <3> QED
      BY <2>x, <3>1, <3>2 DEF TurnInv, Busy, Empty
  <2> QED
    BY <1>4, <2>1, <2>2, <2>3, <2>4, <2>5, <2>6 DEF RunStep, RegisterFails, Alone
<1>5. CASE Crash
  <2>1. UNCHANGED snapshot /\ \A x \in Runs : run'[x].pc = "idle"
    BY <1>5 DEF Crash, stores, Idle
  <2> QED
    BY <1>1, <2>1 DEF Busy, Writes
<1> QED
  BY <1>2, <1>3, <1>4, <1>5 DEF Next, vars, Alone, CallHappens, SetSkipCallLogsWrite,
     SetSkipCallLogs, RedisForgets, stores

LEMMA LedgerNext ==
    ASSUME Alone, TypeOK, CountInv, CountInv', TurnInv, [Next]_vars
    PROVE  Ledger!Next \/ UNCHANGED Stage
(* Steps after which the same calls are held.                               *)
<1>1. ASSUME UNCHANGED <<dedup, snapshot>>,
             \A x \in Runs, e \in Exophones, c \in Calls : Holds(x, e, c)' <=> Holds(x, e, c)
      PROVE  UNCHANGED Stage
  BY <1>1, StageUnchanged DEF Held
<1>2. ASSUME UNCHANGED <<dedup, snapshot, run>> PROVE UNCHANGED Stage
  BY <1>1, <1>2 DEF Holds
<1>3. ASSUME NEW x \in Runs, NEW e \in Exophones, ResolveExophone(x, e) PROVE UNCHANGED Stage
  <2>1. run[x].pc = "idle" /\ UNCHANGED <<dedup, snapshot>>
    BY <1>3 DEF ResolveExophone, stores
  <2>2. run'[x].pc = "fetch" /\ \A y \in Runs \ {x} : run'[y] = run[y]
    BY <1>3 DEF ResolveExophone, TypeOK
  <2> QED
    BY <1>1, <2>1, <2>2 DEF Holds
<1>4. ASSUME NEW x \in Runs, RunStep(x) PROVE Ledger!Next \/ UNCHANGED Stage
  <2>0. run[x] \in RunState
    BY <1>4, StartedRun DEF RunStep, FetchCalls, FetchFails, Register, RegisterFails,
       SaveCallLogs, ReadSnapshot, UpsertSnapshot, UpdateDashboard
  <2>1. CASE FetchCalls(x)
    <3>0. PICK batch : run' = [run EXCEPT ![x].batch = batch, ![x].todo = batch,
                                 ![x].pc = IF batch = {} THEN "logs" ELSE "register"]
      BY <2>1 DEF FetchCalls
    <3>1. /\ run[x].pc = "fetch" /\ run[x].fresh = {} /\ run'[x].fresh = run[x].fresh
          /\ \A y \in Runs \ {x} : run'[y] = run[y]
      BY <2>0, <2>1, <3>0 DEF FetchCalls, TypeOK, RunState, CountInv
    <3>2. \A y \in Runs, e \in Exophones, c \in Calls : Holds(y, e, c)' <=> Holds(y, e, c)
      BY <3>1 DEF Holds
    <3> QED
      BY <1>1, <2>1, <3>2 DEF FetchCalls
  <2>2. CASE FetchFails(x) \/ UpdateDashboard(x)
    <3>1. /\ run[x].pc \in {"fetch", "dashboard"} /\ run'[x].pc = "idle"
          /\ \A y \in Runs \ {x} : run'[y] = run[y]
          /\ UNCHANGED <<dedup, snapshot>>
      BY <2>2 DEF FetchFails, UpdateDashboard, TypeOK, Idle
    <3> QED
      BY <1>1, <3>1 DEF Holds
  <2>3. ASSUME NEW c \in Calls, Register(x, c) PROVE Ledger!Next \/ UNCHANGED Stage
    BY <2>3, StageRegister
  <2>4. CASE SaveCallLogs(x)
    <3>1. /\ run'[x].exo = run[x].exo /\ run'[x].fresh = run[x].fresh /\ run[x].pc = "logs"
          /\ run'[x].pc = IF run[x].fresh = {} THEN "dashboard" ELSE "read"
          /\ \A y \in Runs \ {x} : run'[y] = run[y]
          /\ UNCHANGED <<dedup, snapshot>>
      BY <2>0, <2>4 DEF SaveCallLogs, TypeOK, RunState
    <3>2. \A y \in Runs, e \in Exophones, c \in Calls : Holds(y, e, c)' <=> Holds(y, e, c)
      BY <3>1 DEF Holds
    <3> QED
      BY <1>1, <3>1, <3>2
  <2>5. CASE ReadSnapshot(x)
    <3>1. PICK row : run' = [run EXCEPT ![x].row = row, ![x].pc = "upsert"]
      BY <2>5 DEF ReadSnapshot
    <3>2. /\ run'[x].exo = run[x].exo /\ run'[x].fresh = run[x].fresh
          /\ run[x].pc = "read" /\ run'[x].pc = "upsert"
          /\ \A y \in Runs \ {x} : run'[y] = run[y]
          /\ UNCHANGED <<dedup, snapshot>>
      BY <2>0, <2>5, <3>1 DEF ReadSnapshot, TypeOK, RunState, stores
    <3> QED
      BY <1>1, <3>2 DEF Holds
  <2>6. CASE UpsertSnapshot(x)
    BY <2>6, StageUpsert
  <2> QED
    BY <1>4, <2>1, <2>2, <2>3, <2>4, <2>5, <2>6 DEF RunStep, RegisterFails, Alone
<1>5. CASE Crash
  <2>1. /\ "crash" \in Faults /\ UNCHANGED <<dedup, snapshot>>
        /\ \A x \in Runs : run'[x].pc = "idle"
    BY <1>5 DEF Crash, stores, Idle
  <2>2. \A e \in Exophones, c \in Calls : Held(e, c)' <=> (Held(e, c) /\ e \notin Exophones)
    BY <2>1 DEF Held, Holds
  <2>3. Faults \cap {"crash", "db"} # {} /\ Exophones \in SUBSET Exophones
    BY <2>1
  <2>4. Ledger!Lose
    BY <2>1, <2>2, <2>3, StageLost
  <2> QED
    BY <2>4 DEF Ledger!Next
<1> QED
  BY <1>2, <1>3, <1>4, <1>5 DEF Next, vars, Alone, CallHappens, SetSkipCallLogsWrite,
     SetSkipCallLogs, RedisForgets, stores

(* Executions that take turns implement CallLedger: whatever of the         *)
(* database, the vendor and the process fails, a call is taken once and the *)
(* calls an execution took are counted, or lost, together.                  *)
THEOREM PipelineImplementsLedger == ASSUME Alone PROVE Spec => ImplementsLedger
<1>c. Calm
  BY DEF Alone, Calm
<1>1. Init => TypeOK /\ CountInv /\ TurnInv
  BY PipelineTypeInit, CountInit, TurnInit
<1>2. TypeOK /\ CountInv /\ TurnInv /\ [Next]_vars => TypeOK' /\ CountInv' /\ TurnInv'
  BY <1>c, PipelineTypeNext, CountNext, TurnNext
<1>3. Init => Ledger!Init
  <2> SUFFICES ASSUME Init PROVE Ledger!Init
    OBVIOUS
  <2>1. ASSUME NEW e \in Exophones, NEW c \in Calls PROVE StageOf(e, c) = "unseen"
    BY DEF Init, StageOf, Holds, Idle, Empty
  <2> QED
    BY <2>1 DEF Ledger!Init
<1>4. TypeOK /\ CountInv /\ CountInv' /\ TurnInv /\ [Next]_vars => [Ledger!Next]_Stage
  BY LedgerNext
<1> QED
  BY <1>1, <1>2, <1>3, <1>4, PTL DEF Spec, ImplementsLedger, Ledger!Spec, Stage

(* The calls an execution took share their fate.                            *)
BatchTogether ==
    \A e \in Exophones, c, d \in Calls :
        Stage[e][c] = "pending" /\ Stage[e][d] = "pending" => Stage'[e][c] = Stage'[e][d]

(* No call goes back: one that was lost is never counted, none becomes      *)
(* unseen again, and one that was counted is lost only by starting the row  *)
(* afresh after a failed read.                                              *)
StagesAdvance ==
    \A e \in Exophones, c \in Calls :
        /\ Stage[e][c] = "lost" => Stage'[e][c] = "lost"
        /\ Stage[e][c] = "counted" /\ Stage'[e][c] # "counted" =>
              Stage'[e][c] = "lost" /\ "db" \in Faults
        /\ Stage[e][c] # "unseen" => Stage'[e][c] # "unseen"

LEMMA LedgerStep ==
    ASSUME Ledger!Next \/ UNCHANGED Stage
    PROVE  BatchTogether /\ StagesAdvance
<1>0. Stage = [e \in Exophones |-> [c \in Calls |-> Stage[e][c]]]
  BY DEF Stage
<1> DEFINE Goal == BatchTogether /\ StagesAdvance
<1>1. ASSUME NEW e \in Exophones, NEW c \in Calls, Ledger!Take(e, c) PROVE Goal
  <2>1. /\ Stage[e][c] = "unseen"
        /\ Stage' = [Stage EXCEPT ![e][c] = "pending"]
    BY <1>1, Zenon DEF Ledger!Take, Stage
  <2>2. \A f \in Exophones, d \in Calls :
           Stage'[f][d] = IF f = e /\ d = c THEN "pending" ELSE Stage[f][d]
    BY <1>0, <2>1
  <2> QED
    BY <2>1, <2>2 DEF BatchTogether, StagesAdvance
<1>2. ASSUME NEW e \in Exophones, Ledger!Settle(e) PROVE Goal
  <2>1. Stage' = [Stage EXCEPT ![e] =
                    [c \in Calls |-> IF Stage[e][c] = "pending" THEN "counted" ELSE Stage[e][c]]]
    BY <1>2, Zenon DEF Ledger!Settle, Ledger!Move, Stage
  <2>2. \A f \in Exophones, d \in Calls :
           Stage'[f][d] = IF f = e /\ Stage[e][d] = "pending" THEN "counted" ELSE Stage[f][d]
    BY <1>0, <2>1
  <2> QED
    BY <2>2 DEF BatchTogether, StagesAdvance
<1>3. ASSUME NEW e \in Exophones, Ledger!Wipe(e) PROVE Goal
  <2>1. /\ "db" \in Faults
        /\ Stage' = [Stage EXCEPT ![e] =
                       [c \in Calls |-> IF Stage[e][c] = "pending" THEN "counted"
                                        ELSE IF Stage[e][c] = "counted" THEN "lost"
                                        ELSE Stage[e][c]]]
    BY <1>3, Zenon DEF Ledger!Wipe, Stage
  <2>2. \A f \in Exophones, d \in Calls :
           Stage'[f][d] = IF f # e THEN Stage[f][d]
                          ELSE IF Stage[e][d] = "pending" THEN "counted"
                          ELSE IF Stage[e][d] = "counted" THEN "lost" ELSE Stage[e][d]
    BY <1>0, <2>1
  <2> QED
    BY <2>1, <2>2 DEF BatchTogether, StagesAdvance
<1>4. CASE Ledger!Lose
  <2>1. PICK es \in SUBSET Exophones :
           Stage' = [e \in Exophones |-> [c \in Calls |->
                       IF e \in es /\ Stage[e][c] = "pending" THEN "lost" ELSE Stage[e][c]]]
    BY <1>4, Zenon DEF Ledger!Lose, Stage
  <2>2. \A f \in Exophones, d \in Calls :
           Stage'[f][d] = IF f \in es /\ Stage[f][d] = "pending" THEN "lost" ELSE Stage[f][d]
    BY <2>1
  <2> QED
    BY <2>2 DEF BatchTogether, StagesAdvance
<1>5. CASE UNCHANGED Stage
  BY <1>5 DEF BatchTogether, StagesAdvance
<1> QED
  BY <1>1, <1>2, <1>3, <1>4, <1>5 DEF Ledger!Next

(* While Redis answers, executions of an exophone take turns and nothing is *)
(* repaired, the calls taken by an execution are counted or lost together,  *)
(* and no call is counted after it was lost, whatever of the database, the  *)
(* vendor and the process fails.                                            *)
THEOREM BatchesShareTheirFate ==
    ASSUME Alone
    PROVE  Spec => [][BatchTogether /\ StagesAdvance]_vars
<1>c. Calm
  BY DEF Alone, Calm
<1>1. Init => TypeOK /\ CountInv /\ TurnInv
  BY PipelineTypeInit, CountInit, TurnInit
<1>2. TypeOK /\ CountInv /\ TurnInv /\ [Next]_vars => TypeOK' /\ CountInv' /\ TurnInv'
  BY <1>c, PipelineTypeNext, CountNext, TurnNext
<1>3. TypeOK /\ CountInv /\ CountInv' /\ TurnInv /\ [Next]_vars
      => [BatchTogether /\ StagesAdvance]_vars
  BY LedgerNext, LedgerStep
<1> QED
  BY <1>1, <1>2, <1>3, PTL DEF Spec

-----------------------------------------------------------------------------
(* The dashboard of the account.                                            *)

(* Has written what the dashboard is computed from, and not the dashboard.  *)
DueRun(x) == run[x].pc \in {"read", "upsert", "dashboard"}
DueRepair(r) == \/ repair[r].pc = "upsert" /\ repair[r].calls # {}
                \/ repair[r].pc \in {"register", "dashboard"}

Settled == (\A x \in Runs : ~DueRun(x)) /\ (\A r \in Repairs : ~DueRepair(r))

DashboardInv ==
    /\ \A x \in Runs, e \in Exophones : Busy(run[x], e) => run[x].skip = skip[e]
    /\ Settled => \/ dashboard = snapshot
                  \/ /\ dashboard = [e \in Exophones |-> RowOf(logs[e])]
                     /\ ~skipAll /\ \E e \in Exophones : ~skip[e]

LEMMA DashboardInit == ASSUME Init PROVE DashboardInv
  BY DEF Init, DashboardInv, Busy, Idle

LEMMA DashboardNext ==
    ASSUME Orderly, Requests = {}, TypeOK, DashboardInv, [Next]_vars
    PROVE  DashboardInv'
(* What an execution knows of its flag stays true, ...                      *)
<1>s. /\ UNCHANGED <<skip, skipAll>>
      /\ \A x \in Runs, e \in Exophones : Busy(run'[x], e) => run'[x].skip = skip[e]
  <2>0. UNCHANGED <<skip, skipAll>>
    BY ZenonT(60) DEF Next, vars, CallHappens, RunStep, FetchCalls, FetchFails, Register, RegisterFails,
       SaveCallLogs, ReadSnapshot, UpsertSnapshot, UpdateDashboard, ResolveExophone, RepairStep,
       ReprocessFromLogs, RepairCallLogs, OverwriteSnapshot, RepairRegister, RepairRegisterFails,
       RepairDashboard, Reprocess, Backfill, SetSkipCallLogsWrite, SetSkipCallLogs, Crash,
       RedisForgets, stores, settings, Orderly
  <2>1. ASSUME NEW x \in Runs, NEW e \in Exophones, ResolveExophone(x, e)
        PROVE  \A y \in Runs, f \in Exophones : Busy(run'[y], f) => run'[y].skip = skip[f]
    <3> DEFINE started(found) == [pc |-> "fetch", exo |-> e, found |-> found,
                                  skip |-> found /\ skip[e], batch |-> {}, todo |-> {},
                                  fresh |-> {}, row |-> Empty]
    <3>1. \E found \in {TRUE} \cup {f \in {FALSE} : "db" \in Faults} :
             run' = [run EXCEPT ![x] = started(found)]
      BY <2>1 DEF ResolveExophone
    <3>2. run' = [run EXCEPT ![x] = started(TRUE)]
      <4> HIDE DEF started
      <4> QED BY <3>1 DEF Orderly
    <3>3. started(TRUE).exo = e /\ started(TRUE).skip = skip[e]
      <4>1. skip[e] \in BOOLEAN
        BY DEF TypeOK
      <4> QED
        BY <4>1
    <3> HIDE DEF started
    <3>4. run'[x] = started(TRUE) /\ \A y \in Runs \ {x} : run'[y] = run[y]
      BY <3>2 DEF TypeOK
    <3> QED
      BY ZenonT(60), <3>3, <3>4 DEF DashboardInv, Busy
  <2>2. ASSUME NEW x \in Runs, RunStep(x)
        PROVE  \A y \in Runs, f \in Exophones : Busy(run'[y], f) => run'[y].skip = skip[f]
    <3>0. run[x] \in RunState
      BY <2>2, StartedRun DEF RunStep, FetchCalls, FetchFails, Register, RegisterFails,
         SaveCallLogs, ReadSnapshot, UpsertSnapshot, UpdateDashboard
    <3>1. /\ \A y \in Runs \ {x} : run'[y] = run[y]
          /\ \/ run'[x].pc = "idle"
             \/ run'[x].exo = run[x].exo /\ run'[x].skip = run[x].skip
      <4>1. CASE FetchCalls(x)
        <5>1. PICK batch, pc : run' = [run EXCEPT ![x].batch = batch, ![x].todo = batch,
                                                  ![x].pc = pc]
          BY <4>1 DEF FetchCalls
        <5> QED
          BY <3>0, <5>1 DEF TypeOK, RunState
      <4>2. CASE FetchFails(x) \/ UpdateDashboard(x)
        BY <4>2 DEF FetchFails, UpdateDashboard, TypeOK, Idle
      <4>3. ASSUME NEW c \in Calls, Register(x, c)
            PROVE  \E todo, fresh, pc : run' = [run EXCEPT ![x].todo = todo,
                                                  ![x].fresh = fresh, ![x].pc = pc]
        BY <4>3 DEF Register
      <4>4. CASE \E todo, fresh, pc : run' = [run EXCEPT ![x].todo = todo,
                                                ![x].fresh = fresh, ![x].pc = pc]
        BY <3>0, <4>4 DEF TypeOK, RunState
      <4>5. CASE SaveCallLogs(x) \/ UpsertSnapshot(x)
        BY <3>0, <4>5 DEF SaveCallLogs, UpsertSnapshot, TypeOK, RunState
      <4>6. CASE ReadSnapshot(x)
        <5>1. PICK row : run' = [run EXCEPT ![x].row = row, ![x].pc = "upsert"]
          BY <4>6 DEF ReadSnapshot
        <5> QED
          BY <3>0, <5>1 DEF TypeOK, RunState
      <4>7. CASE RegisterFails(x)
        BY <4>4, <4>7 DEF RegisterFails
      <4> QED
        BY <2>2, <4>1, <4>2, <4>3, <4>4, <4>5, <4>6, <4>7 DEF RunStep
    <3>2. run[x].pc # "idle"
      BY <3>0 DEF RunState
    <3> QED
      BY <3>1, <3>2 DEF DashboardInv, Busy
  <2>3. ASSUME UNCHANGED run
        PROVE  \A y \in Runs, f \in Exophones : Busy(run'[y], f) => run'[y].skip = skip[f]
    BY <2>3 DEF DashboardInv
  <2> QED
    BY <2>0, <2>1, <2>2, <2>3 DEF Next, vars, CallHappens, RepairStep, ReprocessFromLogs,
       RepairCallLogs, OverwriteSnapshot, RepairRegister, RepairRegisterFails, RepairDashboard,
       Reprocess, Backfill, SetSkipCallLogsWrite, SetSkipCallLogs, Crash, RedisForgets, Orderly
(* ... who owes the dashboard keeps owing it, ...                           *)
<1>1. ASSUME UNCHANGED <<snapshot, logs, dashboard>>,
             \A x \in Runs : DueRun(x) => DueRun(x)',
             \A r \in Repairs : DueRepair(r) => DueRepair(r)'
      PROVE  DashboardInv'
  <2>1. Settled' => Settled
    BY <1>1 DEF Settled
  <2> QED
    BY <1>1, <1>s, <2>1 DEF DashboardInv
(* ... and writes it at last.                                               *)
<1>2. ASSUME NEW x \in Runs, DueRun(x)' PROVE DashboardInv'
  BY <1>2, <1>s DEF DashboardInv, Settled
<1>3. ASSUME NEW r \in Repairs, DueRepair(r)' PROVE DashboardInv'
  BY <1>3, <1>s DEF DashboardInv, Settled
<1>4. ASSUME NEW x \in Runs, NEW e \in Exophones, ResolveExophone(x, e) PROVE DashboardInv'
  <2>1. /\ run[x].pc = "idle" /\ \A y \in Runs \ {x} : run'[y] = run[y]
        /\ UNCHANGED <<snapshot, logs, dashboard, repair>>
    BY <1>4 DEF ResolveExophone, stores
  <2> QED
    BY <1>1, <2>1 DEF DueRun, DueRepair
<1>5. ASSUME NEW x \in Runs, RunStep(x) PROVE DashboardInv'
  <2>0. run[x] \in RunState
    BY <1>5, StartedRun DEF RunStep, FetchCalls, FetchFails, Register, RegisterFails,
       SaveCallLogs, ReadSnapshot, UpsertSnapshot, UpdateDashboard
  <2>1. ASSUME NEW c \in Calls, Register(x, c) PROVE DashboardInv'
    <3>1. /\ run[x].pc \in {"fetch", "register"} /\ \A y \in Runs \ {x} : run'[y] = run[y]
          /\ UNCHANGED <<snapshot, logs, dashboard, repair>>
      BY <2>1 DEF Register, TypeOK
    <3> QED
      BY <1>1, <3>1 DEF DueRun, DueRepair
  <2>2. CASE FetchCalls(x)
    <3>1. /\ run[x].pc \in {"fetch", "register"} /\ \A y \in Runs \ {x} : run'[y] = run[y]
          /\ UNCHANGED <<snapshot, logs, dashboard, repair>>
      BY <2>2 DEF FetchCalls, TypeOK
    <3> QED
      BY <1>1, <3>1 DEF DueRun, DueRepair
  <2>7. CASE RegisterFails(x)
    <3>1. /\ run[x].pc \in {"fetch", "register"} /\ \A y \in Runs \ {x} : run'[y] = run[y]
          /\ UNCHANGED <<snapshot, logs, dashboard, repair>>
      BY <2>7 DEF RegisterFails, stores, TypeOK
    <3> QED
      BY <1>1, <3>1 DEF DueRun, DueRepair
  <2>3. CASE SaveCallLogs(x)
    <3>1. run'[x].pc \in {"dashboard", "read"}
      BY <2>0, <2>3 DEF SaveCallLogs, TypeOK, RunState
    <3> QED
      BY <1>2, <3>1 DEF DueRun
  <2>4. CASE UpsertSnapshot(x)
    <3>1. run'[x].pc = "dashboard"
      BY <2>0, <2>4 DEF UpsertSnapshot, TypeOK, RunState
    <3> QED
      BY <1>2, <3>1 DEF DueRun
  <2>6. CASE ReadSnapshot(x)
    <3>0. PICK row : run' = [run EXCEPT ![x].row = row, ![x].pc = "upsert"]
      BY <2>6 DEF ReadSnapshot
    <3>1. run'[x].pc = "upsert"
      BY <2>0, <3>0 DEF TypeOK, RunState
    <3> QED
      BY <1>2, <3>1 DEF DueRun
  <2>5. CASE UpdateDashboard(x)
    <3>1. UNCHANGED <<snapshot, logs>>
      BY <2>5 DEF UpdateDashboard
    <3>2. CASE dashboard' = snapshot
      BY <1>s, <3>1, <3>2 DEF DashboardInv
    <3>3. CASE ~skipAll /\ ~run[x].skip /\ dashboard' = [e \in Exophones |-> RowOf(logs[e])]
      <4>1. PICK e \in Exophones : run[x].exo = e
        BY <2>0 DEF RunState
      <4>2. ~skip[e]
        BY <2>0, <3>3, <4>1 DEF DashboardInv, Busy, RunState
      <4> QED
        BY <1>s, <3>1, <3>3, <4>2 DEF DashboardInv, RowOf
    <3> QED
      BY <2>5, <3>2, <3>3 DEF UpdateDashboard, Orderly
  <2> QED
    BY <1>5, <2>1, <2>2, <2>3, <2>4, <2>5, <2>6, <2>7 DEF RunStep, FetchFails, Orderly
<1>6. ASSUME NEW r \in Repairs, RepairStep(r) PROVE DashboardInv'
  <2>0. repair[r] \in RepairState
    BY <1>6, StartedRepair DEF RepairStep, ReprocessFromLogs, RepairCallLogs, OverwriteSnapshot,
       RepairRegister, RepairRegisterFails, RepairDashboard
  <2>x. PICK e \in Exophones : repair[r].exo = e
    BY <2>0 DEF RepairState
  <2>1. CASE ReprocessFromLogs(r)
    <3>1. /\ repair[r].pc = "fallback" /\ \A q \in Repairs \ {r} : repair'[q] = repair[q]
          /\ UNCHANGED <<snapshot, logs, dashboard, run>>
      BY <2>1 DEF ReprocessFromLogs, stores
    <3> QED
      BY <1>1, <3>1 DEF DueRun, DueRepair
  <2>2. CASE RepairCallLogs(r)
    <3>1. /\ repair[r].pc = "logs" /\ \A q \in Repairs \ {r} : repair'[q] = repair[q]
          /\ repair'[r].pc = "upsert" /\ repair'[r].calls = repair[r].calls
          /\ UNCHANGED <<snapshot, dashboard, run>>
      BY <2>0, <2>2 DEF RepairCallLogs, TypeOK, RepairState
    <3>2. CASE repair[r].calls # {}
      BY <1>3, <3>1, <3>2 DEF DueRepair
    <3>3. CASE repair[r].calls = {}
      <4>1. UNCHANGED logs
        <5>1. CASE logs' = [logs EXCEPT ![e] = @ \cup {}]
          BY <5>1 DEF TypeOK
        <5> QED
          BY <2>2, <2>x, <3>3, <5>1 DEF RepairCallLogs, Stored
      <4> QED
        BY <1>1, <3>1, <4>1 DEF DueRun, DueRepair
    <3> QED
      BY <3>2, <3>3
  <2>3. CASE OverwriteSnapshot(r)
    <3> DEFINE pc == IF repair[r].calls = {} THEN "dashboard" ELSE "register"
               next == [repair[r] EXCEPT !.todo = repair[r].calls, !.pc = pc]
    <3>1. next.pc = pc /\ pc \in {"dashboard", "register"}
      BY <2>0 DEF RepairState
    <3>2. repair[r].pc = "upsert" /\ UNCHANGED <<logs, dashboard, run>>
      BY <2>3 DEF OverwriteSnapshot
    <3>3. \/ repair' = [repair EXCEPT ![r] = next]
          \/ /\ repair[r].calls = {} /\ UNCHANGED snapshot
             /\ repair' = [repair EXCEPT ![r] = Idle]
      BY <2>3 DEF OverwriteSnapshot, Orderly
    <3> HIDE DEF next, pc
    <3>4. CASE repair' = [repair EXCEPT ![r] = next]
      <4>1. repair'[r] = next
        BY <3>4 DEF TypeOK
      <4> QED
        BY <1>3, <3>1, <4>1 DEF DueRepair
    <3>5. CASE /\ repair[r].calls = {} /\ UNCHANGED snapshot
               /\ repair' = [repair EXCEPT ![r] = Idle]
      <4>1. \A q \in Repairs \ {r} : repair'[q] = repair[q]
        BY <3>5
      <4> QED
        BY <1>1, <3>2, <3>5, <4>1 DEF DueRun, DueRepair
    <3> QED
      BY <3>3, <3>4, <3>5
  <2>4. ASSUME NEW c \in Calls, RepairRegister(r, c) PROVE DashboardInv'
    <3>1. repair'[r].pc \in {"dashboard", "register"}
      BY <2>0, <2>4 DEF RepairRegister, TypeOK, RepairState
    <3> QED
      BY <1>3, <3>1 DEF DueRepair
  <2>5. CASE RepairRegisterFails(r)
    <3>1. repair'[r].pc = "dashboard"
      BY <2>0, <2>5 DEF RepairRegisterFails, TypeOK, RepairState
    <3> QED
      BY <1>3, <3>1 DEF DueRepair
  <2>6. CASE RepairDashboard(r)
    <3>1. dashboard' = snapshot /\ UNCHANGED snapshot
      BY <2>6 DEF RepairDashboard, Orderly
    <3> QED
      BY <1>s, <3>1 DEF DashboardInv
  <2> QED
    BY <1>6, <2>1, <2>2, <2>3, <2>4, <2>5, <2>6 DEF RepairStep
<1>7. ASSUME NEW r \in Repairs, repair[r].pc = "idle",
             \A q \in Repairs \ {r} : repair'[q] = repair[q],
             UNCHANGED <<snapshot, logs, dashboard, run>>
      PROVE  DashboardInv'
  BY <1>1, <1>7 DEF DueRun, DueRepair
<1>8. ASSUME NEW r \in Repairs, NEW e \in Exophones, Reprocess(r, e) PROVE DashboardInv'
  BY <1>7, <1>8 DEF Reprocess, MayRequest, stores
<1>9. ASSUME NEW r \in Repairs, NEW e \in Exophones, NEW kind \in Kinds,
             NEW skipLogs \in BOOLEAN, Backfill(r, e, kind, skipLogs)
      PROVE  DashboardInv'
  BY <1>7, <1>9 DEF Backfill, MayRequest
<1>10. ASSUME UNCHANGED <<snapshot, logs, dashboard, run, repair>> PROVE DashboardInv'
  BY <1>1, <1>10 DEF DueRun, DueRepair
<1> QED
  BY <1>4, <1>5, <1>6, <1>8, <1>9, <1>10 DEF Next, vars, CallHappens, SetSkipCallLogsWrite,
     SetSkipCallLogs, Crash, RedisForgets, stores, Orderly

(* While only Redis fails, executions and repairs take turns and the flags  *)
(* stay as they are, the dashboard of the account is that of the rows       *)
(* whenever nothing is at work on any exophone of it.  In an account where  *)
(* some write call logs it may leave out calls, only those of exophones     *)
(* whose calls are not all logged.                                          *)
THEOREM DashboardAgreesHolds ==
    ASSUME Orderly, Requests = {}
    PROVE  Spec => []DashboardAgreesAtRest
<1>1. Init => TypeOK /\ PagesInv /\ KeptInv /\ DashboardInv
  BY PipelineTypeInit, KeptInit, DashboardInit DEF Init, PagesInv
<1>2. /\ TypeOK /\ PagesInv /\ KeptInv /\ DashboardInv /\ [Next]_vars
      => TypeOK' /\ PagesInv' /\ KeptInv' /\ DashboardInv'
  BY PipelineTypeNext, PagesKept, KeptNext, DashboardNext
<1>3. TypeOK /\ KeptInv /\ DashboardInv => DashboardAgreesAtRest
  <2> SUFFICES ASSUME TypeOK, KeptInv, DashboardInv, \A e \in Exophones : AtRest(e),
                      dashboard # snapshot
               PROVE  /\ ~skipAll
                      /\ \E e \in Exophones : ~skip[e]
                      /\ \A e \in Exophones : FullyLogged(e) => dashboard[e] = snapshot[e]
                      /\ \A e \in Exophones, c \in Calls : dashboard[e][c] <= snapshot[e][c]
    BY DEF DashboardAgreesAtRest
  <2>1. Settled
    <3>1. ASSUME NEW x \in Runs PROVE ~DueRun(x)
      BY StartedRun DEF AtRest, NoRun, Busy, DueRun, RunState
    <3>2. ASSUME NEW r \in Repairs PROVE ~DueRepair(r)
      BY StartedRepair DEF AtRest, NoRepair, Busy, DueRepair, RepairState
    <3> QED
      BY <3>1, <3>2 DEF Settled
  <2>2. ASSUME NEW e \in Exophones, NEW c \in logs[e] PROVE c \in Calls /\ snapshot[e][c] >= 1
    <3>1. c \in Paged(e)
      BY DEF KeptInv, KeptOf
    <3> QED
      BY <3>1 DEF KeptInv, KeptOf, Pending, Mending, AtRest, NoRun, NoRepair, Paged, Own
  <2>3. /\ dashboard = [e \in Exophones |-> RowOf(logs[e])]
        /\ ~skipAll /\ \E e \in Exophones : ~skip[e]
    BY <2>1 DEF DashboardInv
  <2>4. ASSUME NEW e \in Exophones, FullyLogged(e) PROVE dashboard[e] = snapshot[e]
    <3>1. ASSUME NEW c \in Calls PROVE snapshot[e][c] = IF c \in logs[e] THEN 1 ELSE 0
      BY <2>2, <2>4 DEF TypeOK, FullyLogged
    <3> QED
      BY <2>3, <3>1 DEF RowOf, TypeOK
  <2>5. ASSUME NEW e \in Exophones, NEW c \in Calls PROVE dashboard[e][c] <= snapshot[e][c]
    <3>1. dashboard[e][c] = IF c \in logs[e] THEN 1 ELSE 0
      BY <2>3 DEF RowOf
    <3>2. snapshot[e][c] \in Nat
      BY DEF TypeOK
    <3> QED
      BY <2>2, <3>1, <3>2
  <2> QED
    BY <2>3, <2>4, <2>5
<1> QED
  BY <1>1, <1>2, <1>3, PTL DEF Spec

-----------------------------------------------------------------------------
(* Executions and repairs end.                                              *)

(* A bound on the steps that an execution, or a repair, still has to take.  *)
RunRank(s) ==
    CASE s.pc = "idle"      -> 0
      [] s.pc = "dashboard" -> 1
      [] s.pc = "upsert"    -> 2
      [] s.pc = "read"      -> 3
      [] s.pc = "logs"      -> 4
      [] s.pc = "register"  -> 5 + Cardinality(s.todo)
      [] s.pc = "fetch"     -> 6 + Cardinality(Calls)

RepairRank(s) ==
    CASE s.pc = "idle"      -> 0
      [] s.pc = "dashboard" -> 1
      [] s.pc = "register"  -> 2 + Cardinality(s.todo)
      [] s.pc = "upsert"    -> 3 + Cardinality(s.calls)
      [] s.pc = "logs"      -> 4 + Cardinality(s.calls)
      [] s.pc = "fallback"  -> 5 + Cardinality(Calls)

(* Whoever registers SIDs has one left to register.                         *)
NeverStuck ==
    /\ \A x \in Runs : run[x].pc = "register" => run[x].todo # {}
    /\ \A r \in Repairs : repair[r].pc = "register" => repair[r].todo # {}

(* Every step of an execution brings it nearer to its end, and no step of   *)
(* anybody else takes it further away.                                      *)
RunNearer(x) ==
    /\ RunStep(x) => RunRank(run'[x]) < RunRank(run[x])
    /\ run[x] # Idle => RunRank(run'[x]) <= RunRank(run[x])

RepairNearer(r) ==
    /\ RepairStep(r) => RepairRank(repair'[r]) < RepairRank(repair[r])
    /\ repair[r] # Idle => RepairRank(repair'[r]) <= RepairRank(repair[r])

Nearer == (\A x \in Runs : RunNearer(x)) /\ (\A r \in Repairs : RepairNearer(r))

LEMMA NatRanks ==
    ASSUME IsFiniteSet(Calls)
    PROVE  /\ \A S \in SUBSET Calls :
                 Cardinality(S) \in Nat /\ Cardinality(S) <= Cardinality(Calls)
           /\ \A S \in SUBSET Calls : \A c \in S : Cardinality(S \ {c}) = Cardinality(S) - 1
           /\ \A S \in SUBSET Calls : S # {} => Cardinality(S) >= 1
<1>1. \A S \in SUBSET Calls : IsFiniteSet(S) /\ Cardinality(S) <= Cardinality(Calls)
  BY FS_Subset
<1>2. \A S \in SUBSET Calls : Cardinality(S) \in Nat
  BY <1>1, FS_CardinalityType
<1>3. \A S \in SUBSET Calls : \A c \in S : Cardinality(S \ {c}) = Cardinality(S) - 1
  BY <1>1, FS_RemoveElement
<1>4. \A S \in SUBSET Calls : S # {} => Cardinality(S) # 0
  BY <1>1, FS_EmptySet
<1> QED
  BY <1>1, <1>2, <1>3, <1>4

(* A step of an execution lowers its rank and leaves it with something to   *)
(* register.                                                                *)
LEMMA RunStepNearer ==
    ASSUME IsFiniteSet(Calls), TypeOK, NEW x \in Runs, RunStep(x)
    PROVE  /\ RunRank(run'[x]) < RunRank(run[x])
           /\ run'[x].pc = "register" => run'[x].todo # {}
           /\ \A y \in Runs \ {x} : run'[y] = run[y]
           /\ UNCHANGED repair
<1>0. run[x] \in RunState
  BY StartedRun DEF RunStep, FetchCalls, FetchFails, Register, RegisterFails,
     SaveCallLogs, ReadSnapshot, UpsertSnapshot, UpdateDashboard
<1>1. CASE FetchCalls(x)
  <2>1. PICK batch \in SUBSET Reported(x) :
           run' = [run EXCEPT ![x].batch = batch, ![x].todo = batch,
                      ![x].pc = IF batch = {} THEN "logs" ELSE "register"]
    BY <1>1 DEF FetchCalls
  <2>2. /\ run[x].pc = "fetch" /\ run'[x].todo = batch
        /\ run'[x].pc = IF batch = {} THEN "logs" ELSE "register"
        /\ \A y \in Runs \ {x} : run'[y] = run[y]
        /\ UNCHANGED repair
    BY <1>0, <1>1, <2>1 DEF FetchCalls, TypeOK, RunState
  <2>3. batch \in SUBSET Calls /\ Calls \in SUBSET Calls
    BY <2>1 DEF Reported, Own, TypeOK
  <2> QED
    BY <2>2, <2>3, NatRanks DEF RunRank
<1>2. CASE FetchFails(x)
  <2>1. /\ run[x].pc = "fetch" /\ run'[x].pc = "idle"
        /\ \A y \in Runs \ {x} : run'[y] = run[y]
        /\ UNCHANGED repair
    BY <1>2 DEF FetchFails, TypeOK, Idle
  <2>2. Calls \in SUBSET Calls
    OBVIOUS
  <2> QED
    BY <2>1, <2>2, NatRanks DEF RunRank
<1>3. ASSUME NEW c \in Calls, Register(x, c)
      PROVE  /\ RunRank(run'[x]) < RunRank(run[x])
             /\ run'[x].pc = "register" => run'[x].todo # {}
             /\ \A y \in Runs \ {x} : run'[y] = run[y]
             /\ UNCHANGED repair
  <2> DEFINE rest == run[x].todo \ {c}
  <2>1. /\ run[x].pc = "register" /\ c \in run[x].todo
        /\ run'[x].todo = rest
        /\ run'[x].pc = IF rest = {} THEN "logs" ELSE "register"
        /\ \A y \in Runs \ {x} : run'[y] = run[y]
        /\ UNCHANGED repair
    BY <1>0, <1>3 DEF Register, TypeOK, RunState
  <2>2. run[x].todo \in SUBSET Calls
    BY <1>0 DEF RunState
  <2>3. Cardinality(rest) = Cardinality(run[x].todo) - 1 /\ Cardinality(run[x].todo) \in Nat
    BY <2>1, <2>2, NatRanks
  <2>4. Cardinality(run[x].todo) >= 1
    BY <2>1, <2>2, NatRanks
  <2> HIDE DEF rest
  <2> QED
    BY <2>1, <2>3, <2>4 DEF RunRank
<1>4. CASE RegisterFails(x)
  <2>1. /\ run[x].pc = "register" /\ run'[x].pc = "logs"
        /\ \A y \in Runs \ {x} : run'[y] = run[y]
        /\ UNCHANGED repair
    BY <1>0, <1>4 DEF RegisterFails, TypeOK, RunState
  <2>2. Cardinality(run[x].todo) \in Nat
    BY <1>0, NatRanks DEF RunState
  <2> QED
    BY <2>1, <2>2 DEF RunRank
<1>5. CASE SaveCallLogs(x)
  <2>1. /\ run[x].pc = "logs"
        /\ run'[x].pc = IF run[x].fresh = {} THEN "dashboard" ELSE "read"
        /\ \A y \in Runs \ {x} : run'[y] = run[y]
        /\ UNCHANGED repair
    BY <1>0, <1>5 DEF SaveCallLogs, TypeOK, RunState
  <2> QED
    BY <2>1 DEF RunRank
<1>6. CASE ReadSnapshot(x)
  <2>1. PICK row : run' = [run EXCEPT ![x].row = row, ![x].pc = "upsert"]
    BY <1>6 DEF ReadSnapshot
  <2>2. /\ run[x].pc = "read" /\ run'[x].pc = "upsert"
        /\ \A y \in Runs \ {x} : run'[y] = run[y]
        /\ UNCHANGED repair
    BY <1>0, <1>6, <2>1 DEF ReadSnapshot, TypeOK, RunState
  <2> QED
    BY <2>2 DEF RunRank
<1>7. CASE UpsertSnapshot(x)
  <2>1. /\ run[x].pc = "upsert" /\ run'[x].pc = "dashboard"
        /\ \A y \in Runs \ {x} : run'[y] = run[y]
        /\ UNCHANGED repair
    BY <1>0, <1>7 DEF UpsertSnapshot, TypeOK, RunState
  <2> QED
    BY <2>1 DEF RunRank
<1>8. CASE UpdateDashboard(x)
  <2>1. /\ run[x].pc = "dashboard" /\ run'[x].pc = "idle"
        /\ \A y \in Runs \ {x} : run'[y] = run[y]
        /\ UNCHANGED repair
    BY <1>8 DEF UpdateDashboard, TypeOK, Idle
  <2> QED
    BY <2>1 DEF RunRank
<1> QED
  BY <1>1, <1>2, <1>3, <1>4, <1>5, <1>6, <1>7, <1>8 DEF RunStep

(* The same of repairs.                                                     *)
LEMMA RepairStepNearer ==
    ASSUME IsFiniteSet(Calls), TypeOK, NEW r \in Repairs, RepairStep(r)
    PROVE  /\ RepairRank(repair'[r]) < RepairRank(repair[r])
           /\ repair'[r].pc = "register" => repair'[r].todo # {}
           /\ \A q \in Repairs \ {r} : repair'[q] = repair[q]
           /\ UNCHANGED run
<1>0. repair[r] \in RepairState
  BY StartedRepair DEF RepairStep, ReprocessFromLogs, RepairCallLogs, OverwriteSnapshot,
     RepairRegister, RepairRegisterFails, RepairDashboard
<1>a. /\ Cardinality(repair[r].calls) \in Nat
      /\ Cardinality(repair[r].todo) \in Nat
      /\ Cardinality(Calls) \in Nat
      /\ Cardinality(repair[r].calls) <= Cardinality(Calls)
  <2>1. repair[r].calls \in SUBSET Calls /\ repair[r].todo \in SUBSET Calls /\ Calls \in SUBSET Calls
    BY <1>0 DEF RepairState
  <2> QED
    BY <2>1, NatRanks
<1>1. CASE ReprocessFromLogs(r)
  <2> DEFINE found == logs[repair[r].exo]
  <2>1. /\ repair[r].pc = "fallback"
        /\ \/ repair'[r].pc = "idle"
           \/ repair'[r].pc = "logs" /\ repair'[r].calls = found
        /\ \A q \in Repairs \ {r} : repair'[q] = repair[q]
        /\ UNCHANGED run
    BY <1>0, <1>1 DEF ReprocessFromLogs, TypeOK, RepairState, Idle
  <2>2. found \in SUBSET Calls
    BY <1>0 DEF RepairState, TypeOK
  <2>3. Cardinality(found) \in Nat /\ Cardinality(found) <= Cardinality(Calls)
    BY <2>2, NatRanks
  <2> HIDE DEF found
  <2> QED
    BY <1>a, <2>1, <2>3 DEF RepairRank
<1>2. CASE RepairCallLogs(r)
  <2>1. /\ repair[r].pc = "logs" /\ repair'[r].pc = "upsert"
        /\ repair'[r].calls = repair[r].calls
        /\ \A q \in Repairs \ {r} : repair'[q] = repair[q]
        /\ UNCHANGED run
    BY <1>0, <1>2 DEF RepairCallLogs, TypeOK, RepairState
  <2> QED
    BY <1>a, <2>1 DEF RepairRank
<1>3. CASE OverwriteSnapshot(r)
  <2> DEFINE next == [repair[r] EXCEPT !.todo = repair[r].calls,
                         !.pc = IF repair[r].calls = {} THEN "dashboard" ELSE "register"]
  <2>1. /\ repair[r].pc = "upsert"
        /\ repair'[r] = next \/ repair'[r] = Idle
        /\ \A q \in Repairs \ {r} : repair'[q] = repair[q]
        /\ UNCHANGED run
    BY <1>3 DEF OverwriteSnapshot, TypeOK
  <2>2. /\ next.todo = repair[r].calls
        /\ next.pc = IF repair[r].calls = {} THEN "dashboard" ELSE "register"
    BY <1>0 DEF RepairState
  <2> HIDE DEF next
  <2> QED
    BY <1>a, <2>1, <2>2 DEF RepairRank, Idle
<1>4. ASSUME NEW c \in Calls, RepairRegister(r, c)
      PROVE  /\ RepairRank(repair'[r]) < RepairRank(repair[r])
             /\ repair'[r].pc = "register" => repair'[r].todo # {}
             /\ \A q \in Repairs \ {r} : repair'[q] = repair[q]
             /\ UNCHANGED run
  <2> DEFINE rest == repair[r].todo \ {c}
  <2>1. /\ repair[r].pc = "register" /\ c \in repair[r].todo
        /\ repair'[r].todo = rest
        /\ repair'[r].pc = IF rest = {} THEN "dashboard" ELSE "register"
        /\ \A q \in Repairs \ {r} : repair'[q] = repair[q]
        /\ UNCHANGED run
    BY <1>0, <1>4 DEF RepairRegister, TypeOK, RepairState
  <2>2. repair[r].todo \in SUBSET Calls
    BY <1>0 DEF RepairState
  <2>3. Cardinality(rest) = Cardinality(repair[r].todo) - 1
    BY <2>1, <2>2, NatRanks
  <2> HIDE DEF rest
  <2> QED
    BY <1>a, <2>1, <2>3 DEF RepairRank
<1>5. CASE RepairRegisterFails(r)
  <2>1. /\ repair[r].pc = "register" /\ repair'[r].pc = "dashboard"
        /\ \A q \in Repairs \ {r} : repair'[q] = repair[q]
        /\ UNCHANGED run
    BY <1>0, <1>5 DEF RepairRegisterFails, TypeOK, RepairState
  <2> QED
    BY <1>a, <2>1 DEF RepairRank
<1>6. CASE RepairDashboard(r)
  <2>1. /\ repair[r].pc = "dashboard" /\ repair'[r].pc = "idle"
        /\ \A q \in Repairs \ {r} : repair'[q] = repair[q]
        /\ UNCHANGED run
    BY <1>6 DEF RepairDashboard, TypeOK, Idle
  <2> QED
    BY <2>1 DEF RepairRank
<1> QED
  BY <1>1, <1>2, <1>3, <1>4, <1>5, <1>6 DEF RepairStep

(* Ranks are numbers.                                                       *)
LEMMA RunRankType ==
    ASSUME IsFiniteSet(Calls), NEW s \in {Idle} \cup RunState
    PROVE  RunRank(s) \in Nat
<1>0. Calls \in SUBSET Calls
  OBVIOUS
<1>1. CASE s = Idle
  BY <1>1 DEF RunRank, Idle
<1>2. CASE s \in RunState
  <2>1. Cardinality(s.todo) \in Nat /\ Cardinality(Calls) \in Nat
    BY <1>0, <1>2, NatRanks DEF RunState
  <2>2. s.pc \in {"fetch", "register", "logs", "read", "upsert", "dashboard"}
    BY <1>2 DEF RunState
  <2> QED
    BY <2>1, <2>2 DEF RunRank
<1> QED
  BY <1>1, <1>2

LEMMA RepairRankType ==
    ASSUME IsFiniteSet(Calls), NEW s \in {Idle} \cup RepairState
    PROVE  RepairRank(s) \in Nat
<1>0. Calls \in SUBSET Calls
  OBVIOUS
<1>1. CASE s = Idle
  BY <1>1 DEF RepairRank, Idle
<1>2. CASE s \in RepairState
  <2>1. /\ Cardinality(s.todo) \in Nat /\ Cardinality(s.calls) \in Nat
        /\ Cardinality(Calls) \in Nat
    BY <1>0, <1>2, NatRanks DEF RepairState
  <2>2. s.pc \in {"fallback", "logs", "upsert", "register", "dashboard"}
    BY <1>2 DEF RepairState
  <2> QED
    BY <2>1, <2>2 DEF RepairRank
<1> QED
  BY <1>1, <1>2

(* Steps that start or move somebody else, or end everybody.                *)
LEMMA StepNearer ==
    ASSUME IsFiniteSet(Calls), TypeOK, NeverStuck, [Next]_vars
    PROVE  NeverStuck' /\ Nearer
<1>t. TypeOK'
  BY PipelineTypeNext
<1>0. \A x \in Runs : RunRank(run[x]) \in Nat /\ RunRank(run'[x]) \in Nat
  BY <1>t, RunRankType DEF TypeOK
<1>a. \A r \in Repairs : RepairRank(repair[r]) \in Nat /\ RepairRank(repair'[r]) \in Nat
  BY <1>t, RepairRankType DEF TypeOK
<1>b. /\ \A x \in Runs : RunStep(x) => RunRank(run'[x]) < RunRank(run[x])
      /\ \A r \in Repairs : RepairStep(r) => RepairRank(repair'[r]) < RepairRank(repair[r])
  BY RunStepNearer, RepairStepNearer
<1>1. ASSUME UNCHANGED <<run, repair>> PROVE NeverStuck' /\ Nearer
  BY <1>0, <1>a, <1>b, <1>1 DEF NeverStuck, Nearer, RunNearer, RepairNearer
<1>2. ASSUME NEW x \in Runs, RunStep(x) PROVE NeverStuck' /\ Nearer
  <2>1. /\ RunRank(run'[x]) < RunRank(run[x])
        /\ run'[x].pc = "register" => run'[x].todo # {}
        /\ \A y \in Runs \ {x} : run'[y] = run[y]
        /\ UNCHANGED repair
    BY <1>2, RunStepNearer
  <2>3. NeverStuck'
    BY <2>1 DEF NeverStuck
  <2> QED
    BY <1>0, <1>a, <1>b, <2>1, <2>3 DEF Nearer, RunNearer, RepairNearer
<1>3. ASSUME NEW r \in Repairs, RepairStep(r) PROVE NeverStuck' /\ Nearer
  <2>1. /\ RepairRank(repair'[r]) < RepairRank(repair[r])
        /\ repair'[r].pc = "register" => repair'[r].todo # {}
        /\ \A q \in Repairs \ {r} : repair'[q] = repair[q]
        /\ UNCHANGED run
    BY <1>3, RepairStepNearer
  <2>3. NeverStuck'
    BY <2>1 DEF NeverStuck
  <2> QED
    BY <1>0, <1>a, <1>b, <2>1, <2>3 DEF Nearer, RunNearer, RepairNearer
<1>4. ASSUME NEW x \in Runs, run[x].pc = "idle", run'[x].pc # "register",
             \A y \in Runs \ {x} : run'[y] = run[y], UNCHANGED repair
      PROVE  NeverStuck' /\ Nearer
  <2>1. run[x] = Idle
    BY <1>4 DEF TypeOK, RunState
  <2>2. NeverStuck'
    BY <1>4 DEF NeverStuck
  <2> QED
    BY <1>0, <1>a, <1>b, <1>4, <2>1, <2>2 DEF Nearer, RunNearer, RepairNearer
<1>5. ASSUME NEW r \in Repairs, repair[r].pc = "idle", repair'[r].pc # "register",
             \A q \in Repairs \ {r} : repair'[q] = repair[q], UNCHANGED run
      PROVE  NeverStuck' /\ Nearer
  <2>1. repair[r] = Idle
    BY <1>5 DEF TypeOK, RepairState
  <2>2. NeverStuck'
    BY <1>5 DEF NeverStuck
  <2> QED
    BY <1>0, <1>a, <1>b, <1>5, <2>1, <2>2 DEF Nearer, RunNearer, RepairNearer
<1>6. ASSUME NEW x \in Runs, NEW e \in Exophones, ResolveExophone(x, e) PROVE NeverStuck' /\ Nearer
  <2>1. /\ run[x].pc = "idle" /\ run'[x].pc = "fetch" /\ UNCHANGED repair
        /\ \A y \in Runs \ {x} : run'[y] = run[y]
    BY <1>6 DEF ResolveExophone, TypeOK
  <2> QED
    BY <1>4, <2>1
<1>7. ASSUME NEW r \in Repairs, NEW e \in Exophones, Reprocess(r, e) PROVE NeverStuck' /\ Nearer
  <2>1. /\ repair[r].pc = "idle" /\ repair'[r].pc \in {"fallback", "logs"} /\ UNCHANGED run
        /\ \A q \in Repairs \ {r} : repair'[q] = repair[q]
    BY <1>7 DEF Reprocess, MayRequest, TypeOK
  <2> QED
    BY <1>5, <2>1
<1>8. ASSUME NEW r \in Repairs, NEW e \in Exophones, NEW kind \in Kinds,
             NEW skipLogs \in BOOLEAN, Backfill(r, e, kind, skipLogs)
      PROVE  NeverStuck' /\ Nearer
  <2>1. /\ repair[r].pc = "idle" /\ repair'[r].pc = "logs" /\ UNCHANGED run
        /\ \A q \in Repairs \ {r} : repair'[q] = repair[q]
    BY <1>8 DEF Backfill, MayRequest, TypeOK
  <2> QED
    BY <1>5, <2>1
<1>9. CASE Crash
  <2>1. /\ \A x \in Runs : run'[x] = Idle
        /\ \A r \in Repairs : repair'[r] = Idle
    BY <1>9 DEF Crash
  <2>2. NeverStuck'
    BY <2>1 DEF NeverStuck, Idle
  <2>3. /\ \A x \in Runs : RunRank(run'[x]) = 0
        /\ \A r \in Repairs : RepairRank(repair'[r]) = 0
    BY <2>1 DEF RunRank, RepairRank, Idle
  <2> QED
    BY <1>0, <1>a, <1>b, <2>2, <2>3 DEF Nearer, RunNearer, RepairNearer
<1> QED
  BY <1>1, <1>2, <1>3, <1>6, <1>7, <1>8, <1>9 DEF Next, vars, CallHappens, SetSkipCallLogsWrite,
     SetSkipCallLogs, RedisForgets

(* With it RegisteredIsCounted needs no more than that started executions   *)
(* are scheduled: whatever fails and however they overlap, an execution     *)
(* takes at most six steps more than there are calls, a repair at most      *)
(* five, and neither waits to register a SID when none is left.             *)
THEOREM ExecutionsRunOut ==
    ASSUME IsFiniteSet(Calls)
    PROVE  Spec => []NeverStuck /\ [][Nearer]_vars
<1>1. Init => TypeOK /\ NeverStuck
  <2>1. Init => NeverStuck
    BY DEF Init, NeverStuck, Idle
  <2> QED
    BY <2>1, PipelineTypeInit
<1>2. TypeOK /\ NeverStuck /\ [Next]_vars => TypeOK' /\ NeverStuck' /\ [Nearer]_vars
  BY PipelineTypeNext, StepNearer
<1> QED
  BY <1>1, <1>2, PTL DEF Spec
=============================================================================
