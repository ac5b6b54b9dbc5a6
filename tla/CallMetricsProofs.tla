------------------------- MODULE CallMetricsProofs -------------------------
(***************************************************************************)
(* What is proved of CallMetrics for any finite set of calls, any records  *)
(* and any limit of the rates.  Everything rests on two facts of disjoint  *)
(* batches: the sets a column counts are disjoint, so their sizes add up;  *)
(* and the sum of the durations, a fold of the community modules, does not *)
(* depend on the order of the calls, so that the totals add up too.        *)
(***************************************************************************)
EXTENDS CallMetrics, FiniteSetTheorems, TLAPS

-----------------------------------------------------------------------------
(* Sets of calls.                                                          *)

LEMMA CallsFinite ==
    ASSUME NEW S \in SUBSET Calls
    PROVE  IsFiniteSet(S) /\ Cardinality(S) \in Nat
BY MetricsAssumption, FS_Subset, FS_CardinalityType

LEMMA SmallerSet ==
    ASSUME NEW S \in SUBSET Calls, NEW T \in SUBSET S
    PROVE  Cardinality(T) <= Cardinality(S)
BY CallsFinite, FS_Subset

LEMMA DisjointSizes ==
    ASSUME NEW S \in SUBSET Calls, NEW T \in SUBSET Calls, S \cap T = {}
    PROVE  Cardinality(S \cup T) = Cardinality(S) + Cardinality(T)
<1>1. Cardinality(S \cup T) =
        Cardinality(S) + Cardinality(T) - Cardinality(S \cap T)
  BY CallsFinite, FS_Union
<1>2. Cardinality(S \cap T) = 0
  BY FS_EmptySet
<1> QED BY <1>1, <1>2, CallsFinite

-----------------------------------------------------------------------------
(* Sums of durations.                                                      *)

(* Induction over the subsets of a finite set: Good holds those for which  *)
(* the claim is true.                                                      *)
LEMMA SubsetInduction ==
    ASSUME NEW S, IsFiniteSet(S), NEW Good \in SUBSET SUBSET S,
           \A T \in SUBSET S : (\A U \in SUBSET T : U # T => U \in Good) => T \in Good
    PROVE  S \in Good
<1> DEFINE Bad == (SUBSET S) \ Good
<1>1. IsWellFoundedOn(StrictSubsetOrdering(S), SUBSET S)
  <2>1. FiniteSubsetsOf(S) = SUBSET S
    BY FS_FiniteSubsetsOfFinite
  <2> QED BY <2>1, FS_StrictSubsetOrderingWellFounded
<1>2. SUFFICES ASSUME S \in Bad
               PROVE  FALSE
  OBVIOUS
<1>3. Bad \subseteq SUBSET S
  OBVIOUS
<1> HIDE DEF Bad
<1>4. PICK T \in Bad : \A U \in Bad : ~(<<U, T>> \in StrictSubsetOrdering(S))
  BY <1>1, <1>2, <1>3, WFMin
<1>5. \A U \in Bad : ~(U \subseteq T /\ U # T)
  BY <1>3, <1>4 DEF StrictSubsetOrdering
<1> QED
  BY <1>5 DEF Bad

Pick(s) == CHOOSE x \in s : TRUE

(* The function MapThenFoldSet chooses: g adds up the durations of b on    *)
(* every subset of S, taking the elements in the order of Pick.            *)
Adds(g, b, S) ==
    g = [s \in SUBSET S |->
            IF s = {} THEN 0 ELSE b[Pick(s)].dur + g[s \ {Pick(s)}]]

SumOf(b, S) == (CHOOSE g : Adds(g, b, S))[S]

LEMMA TotalIsSum ==
    ASSUME NEW b
    PROVE  TotalDuration(b) = SumOf(b, In(b))
BY DEF TotalDuration, MapThenSumSet, MapThenFoldSet, SumOf, Adds, Pick

LEMMA AddsStep ==
    ASSUME NEW g, NEW b, NEW S, Adds(g, b, S), NEW s \in SUBSET S
    PROVE  g[s] = IF s = {} THEN 0 ELSE b[Pick(s)].dur + g[s \ {Pick(s)}]
BY DEF Adds

LEMMA PickIn == ASSUME NEW s, s # {} PROVE Pick(s) \in s
BY DEF Pick

(* Two such functions agree where the durations do, whatever they are      *)
(* sums over.                                                              *)
LEMMA AddsAgree ==
    ASSUME NEW A, NEW S \in SUBSET A, IsFiniteSet(S),
           NEW a, NEW b, \A x \in S : a[x].dur = b[x].dur,
           NEW g, NEW h, Adds(g, a, A), Adds(h, b, S)
    PROVE  g[S] = h[S]
<1> DEFINE Good == {T \in SUBSET S : g[T] = h[T]}
<1>1. ASSUME NEW T \in SUBSET S, \A U \in SUBSET T : U # T => U \in Good
      PROVE  T \in Good
  <2>1. CASE T = {}
    BY <2>1, AddsStep
  <2>2. CASE T # {}
    <3> DEFINE p == Pick(T)
    <3>1. p \in T /\ T \ {p} \in SUBSET T /\ T \ {p} # T
      BY <2>2, PickIn
    <3>2. g[T \ {p}] = h[T \ {p}]
      BY <1>1, <3>1
    <3>3. g[T] = a[p].dur + g[T \ {p}] /\ h[T] = b[p].dur + h[T \ {p}]
      BY <2>2, AddsStep
    <3> HIDE DEF p
    <3> QED BY <3>1, <3>2, <3>3
  <2> QED BY <2>1, <2>2
<1>2. S \in Good
  <2> HIDE DEF Good
  <2>1. Good \in SUBSET SUBSET S
    BY DEF Good
  <2> QED BY <1>1, <2>1, SubsetInduction
<1> QED BY <1>2

(* There is one over every finite set: so the chosen one has the property. *)
LEMMA AddsExists ==
    ASSUME NEW S, IsFiniteSet(S), NEW b
    PROVE  \E g : Adds(g, b, S)
<1> DEFINE Good == {T \in SUBSET S : \E g : Adds(g, b, T)}
<1>1. ASSUME NEW T \in SUBSET S, \A U \in SUBSET T : U # T => U \in Good
      PROVE  T \in Good
  <2> DEFINE Sub(U) == (CHOOSE g : Adds(g, b, U))
             h == [s \in SUBSET T |->
                     IF s = {} THEN 0 ELSE b[Pick(s)].dur + Sub(s \ {Pick(s)})[s \ {Pick(s)}]]
  <2>1. ASSUME NEW U \in SUBSET T, U # T
        PROVE  Adds(Sub(U), b, U)
    <3>1. \E g : Adds(g, b, U)
      BY <1>1, <2>1
    <3> QED BY <3>1
  <2>2. ASSUME NEW s \in SUBSET T, s # {}
        PROVE  h[s \ {Pick(s)}] = Sub(s \ {Pick(s)})[s \ {Pick(s)}]
    <3> DEFINE u == s \ {Pick(s)}
    <3>1. Pick(s) \in s /\ u \in SUBSET T /\ u # T
      BY <2>2, PickIn
    <3>2. Adds(Sub(u), b, u)
      BY <2>1, <3>1
    <3>3. CASE u = {}
      BY <3>1, <3>2, <3>3, AddsStep
    <3>4. CASE u # {}
      <4> DEFINE v == u \ {Pick(u)}
      <4>1. Pick(u) \in u /\ v \in SUBSET u /\ v \in SUBSET T /\ v # T
        BY <3>1, <3>4, PickIn
      <4>2. Adds(Sub(v), b, v)
        BY <2>1, <4>1
      <4>3. IsFiniteSet(v)
        BY <4>1, FS_Subset
      <4>4. Sub(u)[v] = Sub(v)[v]
        <5>1. v \subseteq u
          BY <4>1
        <5> HIDE DEF Sub, u, v
        <5> QED BY <3>2, <4>2, <4>3, <5>1, AddsAgree
      <4>5. Sub(u)[u] = b[Pick(u)].dur + Sub(u)[v]
        <5> HIDE DEF Sub, u
        <5> QED BY <3>2, <3>4, AddsStep
      <4>6. h[u] = b[Pick(u)].dur + Sub(v)[v]
        BY <3>1, <3>4
      <4> QED BY <4>4, <4>5, <4>6
    <3> QED BY <3>3, <3>4
  <2>3. Adds(h, b, T)
    <3>1. \A s \in SUBSET T :
             h[s] = IF s = {} THEN 0 ELSE b[Pick(s)].dur + h[s \ {Pick(s)}]
      <4> HIDE DEF Sub
      <4> QED BY <2>2
    <3>2. h = [s \in SUBSET T |-> h[s]]
      OBVIOUS
    <3> HIDE DEF h
    <3> QED BY <3>1, <3>2 DEF Adds
  <2> QED BY <2>3
<1>2. S \in Good
  <2> HIDE DEF Good
  <2>1. Good \in SUBSET SUBSET S
    BY DEF Good
  <2> QED BY <1>1, <2>1, SubsetInduction
<1> QED BY <1>2

LEMMA SumAdds ==
    ASSUME NEW S, IsFiniteSet(S), NEW b
    PROVE  Adds(CHOOSE g : Adds(g, b, S), b, S)
BY AddsExists

LEMMA SumEmpty == \A b : SumOf(b, {}) = 0
BY SumAdds, AddsStep, FS_EmptySet DEF SumOf

LEMMA SumAgrees ==
    ASSUME NEW S, IsFiniteSet(S), NEW a, NEW b, \A x \in S : a[x].dur = b[x].dur
    PROVE  SumOf(a, S) = SumOf(b, S)
BY SumAdds, AddsAgree DEF SumOf

LEMMA SumStep ==
    ASSUME NEW S, IsFiniteSet(S), S # {}, NEW b
    PROVE  SumOf(b, S) = b[Pick(S)].dur + SumOf(b, S \ {Pick(S)})
<1> DEFINE u    == S \ {Pick(S)}
           g(U) == CHOOSE f : Adds(f, b, U)
<1>1. IsFiniteSet(u)
  BY FS_Subset
<1>2. Adds(g(S), b, S) /\ Adds(g(u), b, u)
  BY <1>1, SumAdds
<1>3. u \subseteq S
  OBVIOUS
<1> HIDE DEF g
<1>4. g(S)[S] = b[Pick(S)].dur + g(S)[u]
  BY <1>2, AddsStep
<1> HIDE DEF u
<1>5. g(S)[u] = g(u)[u]
  BY <1>1, <1>2, <1>3, AddsAgree
<1> QED BY <1>4, <1>5 DEF SumOf, g, u

LEMMA SumNat ==
    ASSUME NEW S, IsFiniteSet(S), NEW b, \A x \in S : b[x].dur \in Nat
    PROVE  SumOf(b, S) \in Nat
<1> DEFINE Good == {T \in SUBSET S : SumOf(b, T) \in Nat}
<1>1. ASSUME NEW T \in SUBSET S, \A U \in SUBSET T : U # T => U \in Good
      PROVE  T \in Good
  <2>1. CASE T = {}
    BY <2>1, SumEmpty
  <2>2. CASE T # {}
    <3>1. Pick(T) \in T /\ IsFiniteSet(T)
      BY <2>2, PickIn, FS_Subset
    <3>2. SumOf(b, T) = b[Pick(T)].dur + SumOf(b, T \ {Pick(T)})
      BY <2>2, <3>1, SumStep
    <3>3. SumOf(b, T \ {Pick(T)}) \in Nat
      BY <1>1, <3>1
    <3> QED BY <3>1, <3>2, <3>3
  <2> QED BY <2>1, <2>2
<1>2. S \in Good
  <2> HIDE DEF Good
  <2>1. Good \in SUBSET SUBSET S
    BY DEF Good
  <2> QED BY <1>1, <2>1, SubsetInduction
<1> QED BY <1>2

(* The order in which the elements are taken does not matter.              *)
LEMMA SumRemove ==
    ASSUME NEW S, IsFiniteSet(S), NEW b, \A x \in S : b[x].dur \in Nat, NEW x \in S
    PROVE  SumOf(b, S) = b[x].dur + SumOf(b, S \ {x})
<1> DEFINE Good == {T \in SUBSET S : \A y \in T : SumOf(b, T) = b[y].dur + SumOf(b, T \ {y})}
<1>1. ASSUME NEW T \in SUBSET S, \A U \in SUBSET T : U # T => U \in Good
      PROVE  T \in Good
  <2>1. ASSUME NEW y \in T
        PROVE  SumOf(b, T) = b[y].dur + SumOf(b, T \ {y})
    <3> DEFINE p == Pick(T)
    <3>1. p \in T /\ IsFiniteSet(T)
      BY <2>1, PickIn, FS_Subset
    <3>2. SumOf(b, T) = b[p].dur + SumOf(b, T \ {p})
      BY <2>1, <3>1, SumStep
    <3> HIDE DEF p
    <3>3. CASE y = p
      BY <3>2, <3>3
    <3>4. CASE y # p
      <4> DEFINE u == (T \ {p}) \ {y}
      <4>1. SumOf(b, T \ {p}) = b[y].dur + SumOf(b, u)
        BY <1>1, <2>1, <3>1, <3>4
      <4>2. SumOf(b, T \ {y}) = b[p].dur + SumOf(b, (T \ {y}) \ {p})
        BY <1>1, <2>1, <3>1, <3>4
      <4>3. (T \ {y}) \ {p} = u
        OBVIOUS
      <4>4. SumOf(b, u) \in Nat
        BY <3>1, FS_Subset, SumNat
      <4>5. b[y].dur \in Nat /\ b[p].dur \in Nat
        BY <2>1, <3>1
      <4>6. SumOf(b, T \ {y}) = b[p].dur + SumOf(b, u)
        BY <4>2, <4>3
      <4> HIDE DEF u
      <4>7. SumOf(b, T) = b[p].dur + (b[y].dur + SumOf(b, u))
        BY <3>2, <4>1
      <4>8. SumOf(b, T) = b[y].dur + (b[p].dur + SumOf(b, u))
        BY <4>4, <4>5, <4>7
      <4> QED BY <4>6, <4>8
    <3> QED BY <3>3, <3>4
  <2> QED BY <2>1
<1>2. S \in Good
  <2> HIDE DEF Good
  <2>1. Good \in SUBSET SUBSET S
    BY DEF Good
  <2> QED BY <1>1, <2>1, SubsetInduction
<1> QED BY <1>2

LEMMA SumUnion ==
    ASSUME NEW S, IsFiniteSet(S), NEW R, IsFiniteSet(R), S \cap R = {}, NEW b,
           \A x \in S \cup R : b[x].dur \in Nat
    PROVE  SumOf(b, R \cup S) = SumOf(b, R) + SumOf(b, S)
<1> DEFINE Good == {T \in SUBSET S : SumOf(b, R \cup T) = SumOf(b, R) + SumOf(b, T)}
<1>1. ASSUME NEW T \in SUBSET S, \A U \in SUBSET T : U # T => U \in Good
      PROVE  T \in Good
  <2>0. SumOf(b, R) \in Nat
    BY SumNat
  <2>1. CASE T = {}
    <3>1. R \cup T = R /\ SumOf(b, T) = 0
      BY <2>1, SumEmpty
    <3>2. SumOf(b, R \cup T) = SumOf(b, R) + SumOf(b, T)
      BY <2>0, <3>1
    <3> QED BY <3>2
  <2>2. CASE T # {}
    <3> DEFINE p == Pick(T)
    <3>1. p \in T
      BY <2>2, PickIn
    <3>2. IsFiniteSet(T) /\ IsFiniteSet(T \ {p}) /\ IsFiniteSet(R \cup T)
      BY FS_Subset, FS_Union
    <3> HIDE DEF p
    <3>3. SumOf(b, T) = b[p].dur + SumOf(b, T \ {p})
      BY <3>1, <3>2, SumRemove
    <3>4. SumOf(b, R \cup T) = b[p].dur + SumOf(b, R \cup (T \ {p}))
      <4>1. (R \cup T) \ {p} = R \cup (T \ {p})
        BY <3>1
      <4>2. SumOf(b, R \cup T) = b[p].dur + SumOf(b, (R \cup T) \ {p})
        BY <3>1, <3>2, SumRemove
      <4> QED BY <4>1, <4>2
    <3>5. SumOf(b, R \cup (T \ {p})) = SumOf(b, R) + SumOf(b, T \ {p})
      BY <1>1, <3>1
    <3>6. SumOf(b, T \ {p}) \in Nat /\ b[p].dur \in Nat
      BY <3>1, <3>2, SumNat
    <3> QED BY <2>0, <3>3, <3>4, <3>5, <3>6
  <2> QED BY <2>1, <2>2
<1>2. S \in Good
  <2> HIDE DEF Good
  <2>1. Good \in SUBSET SUBSET S
    BY DEF Good
  <2> QED BY <1>1, <2>1, SubsetInduction
<1> QED BY <1>2

-----------------------------------------------------------------------------
(* Batches.                                                                *)

LEMMA BatchType ==
    ASSUME day \in [Calls -> Records], NEW S \in SUBSET Calls
    PROVE  Batch(S) \in Batches /\ In(Batch(S)) \subseteq S
BY DEF Batch, Batches, In

LEMMA MergedType ==
    ASSUME NEW a \in Batches, NEW b \in Batches
    PROVE  /\ Merged(a, b) \in Batches
           /\ In(Merged(a, b)) = In(a) \cup In(b)
           /\ \A s \in In(b) : Merged(a, b)[s] = b[s]
           /\ \A s \in Calls \ In(b) : Merged(a, b)[s] = a[s]
BY DEF Merged, Batches, In

(* Every column of the sum of two batches.                                 *)
LEMMA TallyAdds ==
    ASSUME NEW a \in Batches, NEW b \in Batches, In(a) \cap In(b) = {}
    PROVE  Sum(Tally(a), Tally(b)) = Tally(Merged(a, b))
<1> DEFINE m == Merged(a, b)
<1>1. ASSUME NEW c \in Columns
      PROVE  Cardinality(Counting(m, c)) =
               Cardinality(Counting(a, c)) + Cardinality(Counting(b, c))
  <2>1. Counting(m, c) = Counting(a, c) \cup Counting(b, c)
    BY MergedType DEF Counting, In
  <2>2. Counting(a, c) \cap Counting(b, c) = {}
    BY DEF Counting
  <2>3. Counting(a, c) \in SUBSET Calls /\ Counting(b, c) \in SUBSET Calls
    BY DEF Counting, In
  <2> QED BY <2>1, <2>2, <2>3, DisjointSizes
<1> HIDE DEF m
<1> QED BY <1>1 DEF Sum, Tally, m

LEMMA HourlyAdds ==
    ASSUME NEW a \in Batches, NEW b \in Batches, In(a) \cap In(b) = {}
    PROVE  Sum(Hourly(a), Hourly(b)) = Hourly(Merged(a, b))
<1> DEFINE At(x, h) == {s \in In(x) : x[s].hour = h}
           m == Merged(a, b)
<1>1. ASSUME NEW h \in Hours
      PROVE  Cardinality(At(m, h)) = Cardinality(At(a, h)) + Cardinality(At(b, h))
  <2>1. At(m, h) = At(a, h) \cup At(b, h)
    BY MergedType DEF In
  <2>2. At(a, h) \cap At(b, h) = {}
    OBVIOUS
  <2>3. At(a, h) \in SUBSET Calls /\ At(b, h) \in SUBSET Calls
    BY DEF In
  <2> HIDE DEF At
  <2> QED BY <2>1, <2>2, <2>3, DisjointSizes
<1>2. \A x : Hourly(x) = [h \in Hours |-> Cardinality(At(x, h))]
  BY DEF Hourly
<1> HIDE DEF At, m
<1>3. Hourly(m) = [h \in Hours |-> Cardinality(At(a, h)) + Cardinality(At(b, h))]
  BY <1>1, <1>2
<1> QED BY <1>2, <1>3 DEF Sum, m

LEMMA PairsAdd ==
    ASSUME NEW a \in Batches, NEW b \in Batches, In(a) \cap In(b) = {}
    PROVE  Sum(LegStatusBreakdown(a), LegStatusBreakdown(b))
             = LegStatusBreakdown(Merged(a, b))
<1> DEFINE At(x, p) == {s \in In(x) : <<x[s].leg1, x[s].leg2>> = p}
           m == Merged(a, b)
<1>1. ASSUME NEW p \in Pairs
      PROVE  Cardinality(At(m, p)) = Cardinality(At(a, p)) + Cardinality(At(b, p))
  <2>1. At(m, p) = At(a, p) \cup At(b, p)
    BY MergedType DEF In
  <2>2. At(a, p) \cap At(b, p) = {}
    OBVIOUS
  <2>3. At(a, p) \in SUBSET Calls /\ At(b, p) \in SUBSET Calls
    BY DEF In
  <2> HIDE DEF At
  <2> QED BY <2>1, <2>2, <2>3, DisjointSizes
<1>2. \A x : LegStatusBreakdown(x) = [p \in Pairs |-> Cardinality(At(x, p))]
  BY DEF LegStatusBreakdown
<1> HIDE DEF At, m
<1>3. LegStatusBreakdown(m) =
        [p \in Pairs |-> Cardinality(At(a, p)) + Cardinality(At(b, p))]
  BY <1>1, <1>2
<1> QED BY <1>2, <1>3 DEF Sum, m

(* The row of an empty batch has only zeros.                               *)
LEMMA EmptyBatch ==
    ASSUME NEW b, In(b) = {}
    PROVE  /\ Tally(b) = ZeroRow.count
           /\ Hourly(b) = ZeroRow.hourly
           /\ LegStatusBreakdown(b) = ZeroRow.pairs
           /\ PeakHour(Hourly(b)) = ZeroRow.peak
<1>1. Cardinality({}) = 0
  BY FS_EmptySet
<1>2. \A c : Counting(b, c) = {}
  BY DEF Counting
<1>3. Tally(b) = [c \in Columns |-> 0]
  BY <1>1, <1>2 DEF Tally
<1>4. Hourly(b) = [h \in Hours |-> 0]
  <2>1. \A h \in Hours : {s \in In(b) : b[s].hour = h} = {}
    OBVIOUS
  <2> QED BY <1>1, <2>1 DEF Hourly
<1>5. LegStatusBreakdown(b) = [p \in Pairs |-> 0]
  <2>1. \A p \in Pairs : {s \in In(b) : <<b[s].leg1, b[s].leg2>> = p} = {}
    OBVIOUS
  <2> QED BY <1>1, <2>1 DEF LegStatusBreakdown
<1>6. PeakHour([h \in Hours |-> 0]) = 0
  <2> DEFINE z == [h \in Hours |-> 0]
             First(h) == /\ \A k \in Hours : z[k] <= z[h]
                         /\ \A k \in 0 .. h - 1 : z[k] < z[h]
  <2>1. LastHour \in Nat
    BY MetricsAssumption
  <2>2. 0 \in Hours /\ First(0)
    <3>1. 0 \in Hours /\ 0 .. 0 - 1 = {}
      BY <2>1 DEF Hours
    <3>2. \A k \in Hours : z[k] = 0
      OBVIOUS
    <3> HIDE DEF z
    <3> QED BY <3>1, <3>2
  <2>3. \A h \in Hours : First(h) => h = 0
    <3> SUFFICES ASSUME NEW h \in Hours, First(h), h # 0
                 PROVE  FALSE
      OBVIOUS
    <3>1. 0 \in 0 .. h - 1 /\ 0 \in Hours
      BY <2>1 DEF Hours
    <3>2. z[0] < z[h]
      BY <3>1
    <3> QED BY <3>1, <3>2
  <2>4. PeakHour(z) = CHOOSE h \in Hours : First(h)
    BY DEF PeakHour
  <2> HIDE DEF First, z
  <2>5. PeakHour(z) = 0
    BY <2>2, <2>3, <2>4
  <2> QED BY <2>5 DEF z
<1> QED BY <1>3, <1>4, <1>5, <1>6 DEF ZeroRow

-----------------------------------------------------------------------------
(* The whole day.                                                          *)

Typed ==
    /\ day \in [Calls -> Records]
    /\ seen \in Batches
    /\ refused \in SUBSET Calls

LEMMA UnseenIsNoRecord == Unseen \notin Records
BY DEF Unseen, Records, Statuses

(* A call that ends keeps its record, its leg and its parent.              *)
LEMMA EndedType ==
    ASSUME Typed, NEW s \in Calls, CallEnds(s)
    PROVE  /\ day' \in [Calls -> Records]
           /\ \A t \in Calls : /\ day'[t].parent = day[t].parent
                               /\ ClassifyLeg(day'[t]) = ClassifyLeg(day[t])
<1>1. PICK k \in BOOLEAN :
        day' = [day EXCEPT ![s] = [@ EXCEPT !.status = "completed", !.talked = k]]
  BY DEF CallEnds
<1> DEFINE r == [day[s] EXCEPT !.status = "completed", !.talked = k]
<1>2. day[s] \in Records
  BY DEF Typed
<1>3. r \in Records
  BY <1>2, "completed" \in Statuses, Zenon DEF Records, Statuses
<1>4. r.parent = day[s].parent /\ r.dir = day[s].dir /\ r.toVN = day[s].toVN
  BY <1>2, Zenon DEF Records
<1>5. day' = [day EXCEPT ![s] = r]
  BY <1>1
<1> HIDE DEF r
<1> QED BY <1>3, <1>4, <1>5 DEF Typed, ClassifyLeg

LEMMA TypedInit == Init => Typed
BY MetricsAssumption DEF Init, Typed, Batches

LEMMA TypedStep ==
    ASSUME Typed, [Next]_vars
    PROVE  Typed'
<1>1. ASSUME NEW s \in Calls, CallEnds(s)
      PROVE  Typed'
  BY <1>1, EndedType DEF Typed, CallEnds
<1>2. ASSUME NEW S \in SUBSET Calls, AccumulateCallMetrics(S)
      PROVE  Typed'
  BY <1>2, BatchType, MergedType DEF Typed, AccumulateCallMetrics
<1>3. ASSUME NEW S \in SUBSET Calls, OverwriteSnapshot(S)
      PROVE  Typed'
  <2>1. [s \in Calls |-> IF s \in S /\ seen[s] # Unseen THEN seen[s] ELSE Batch(S)[s]]
          \in Batches
    BY BatchType DEF Typed, Batches
  <2> QED BY <1>3, <2>1, BatchType DEF Typed, OverwriteSnapshot
<1>4. CASE UNCHANGED vars
  BY <1>4 DEF vars, Typed
<1> QED BY <1>1, <1>2, <1>3, <1>4 DEF Next

(* What a row and its records have in common after every write.            *)
Whole(r, b) ==
    /\ r.count = Tally(b)
    /\ r.hourly = Hourly(b)
    /\ r.pairs = LegStatusBreakdown(b)
    /\ r.peak = PeakHour(Hourly(b))

LEMMA PlusWhole ==
    ASSUME NEW a \in Batches, NEW b \in Batches, In(a) \cap In(b) = {}, NEW r,
           r.count = Tally(a), r.hourly = Hourly(a), r.pairs = LegStatusBreakdown(a)
    PROVE  Whole(Plus(r, b), Merged(a, b))
<1> DEFINE m == Merged(a, b)
<1>1. /\ Plus(r, b).count = Sum(Tally(a), Tally(b))
      /\ Plus(r, b).hourly = Sum(Hourly(a), Hourly(b))
      /\ Plus(r, b).pairs = Sum(LegStatusBreakdown(a), LegStatusBreakdown(b))
      /\ Plus(r, b).peak = PeakHour(Sum(Hourly(a), Hourly(b)))
  BY DEF Plus, NewPeak
<1>2. /\ Sum(Tally(a), Tally(b)) = Tally(m)
      /\ Sum(Hourly(a), Hourly(b)) = Hourly(m)
      /\ Sum(LegStatusBreakdown(a), LegStatusBreakdown(b)) = LegStatusBreakdown(m)
  BY TallyAdds, HourlyAdds, PairsAdd
<1> HIDE DEF m
<1> QED BY <1>1, <1>2 DEF Whole, m

(* A row that is written for the first time.                               *)
LEMMA FirstWhole ==
    ASSUME NEW a \in Batches, NEW b \in Batches, In(a) = {}
    PROVE  Whole(Plus(ZeroRow, b), Merged(a, b))
BY EmptyBatch, PlusWhole

LEMMA RowOfWhole ==
    ASSUME NEW b \in Batches
    PROVE  Whole(RowOf(b), b)
<1> DEFINE a == [s \in Calls |-> Unseen]
<1>1. a \in Batches /\ In(a) = {}
  BY DEF Batches, In
<1>2. Merged(a, b) = b
  BY DEF Merged, Batches
<1> HIDE DEF a
<1> QED BY <1>1, <1>2, FirstWhole DEF RowOf

(* What AccumulateCallMetrics adds to, and what to.                        *)
LEMMA AccumulateWhole ==
    ASSUME Typed, WholeDay, NEW S \in SUBSET Calls,
           S \cap (In(seen) \cup refused) = {}
    PROVE  Whole(Plus(IF row = NoRow THEN ZeroRow ELSE row, Batch(S)),
                 Merged(seen, Batch(S)))
<1>1. seen \in Batches /\ Batch(S) \in Batches /\ In(seen) \cap In(Batch(S)) = {}
  BY BatchType DEF Typed
<1>2. CASE row = NoRow
  <2>1. In(seen) = {}
    BY <1>2 DEF WholeDay
  <2> QED BY <1>1, <1>2, <2>1, FirstWhole
<1>3. CASE row # NoRow
  <2>1. Whole(row, seen)
    BY <1>3 DEF WholeDay, Whole
  <2> QED BY <1>1, <1>3, <2>1, PlusWhole DEF Whole
<1> QED BY <1>2, <1>3

(* A row that exists is not NoRow.                                         *)
LEMMA RowExists ==
    /\ \A r, b : Plus(r, b) # NoRow
    /\ \A b : RowOf(b) # NoRow
BY DEF Plus, NoRow, RowOf

LEMMA WholeStep ==
    ASSUME Typed, WholeDay, [Next]_vars
    PROVE  WholeDay'
<1>1. ASSUME UNCHANGED <<row, seen>>
      PROVE  WholeDay'
  BY <1>1 DEF WholeDay, In, Tally, Counting, Hourly, LegStatusBreakdown
<1>2. ASSUME NEW S \in SUBSET Calls, AccumulateCallMetrics(S)
      PROVE  WholeDay'
  <2> DEFINE new == Plus(IF row = NoRow THEN ZeroRow ELSE row, Batch(S))
             b   == Merged(seen, Batch(S))
  <2>1. CASE row' = new /\ seen' = b
    <3>1. Whole(new, b) /\ new # NoRow
      BY <1>2, AccumulateWhole, RowExists DEF AccumulateCallMetrics
    <3> HIDE DEF new, b
    <3>2. Whole(row', seen') /\ row' # NoRow
      BY <2>1, <3>1
    <3> QED BY <3>2 DEF WholeDay, Whole, In, Tally, Counting, Hourly, LegStatusBreakdown
  <2>2. CASE UNCHANGED <<row, seen>>
    BY <2>2, <1>1
  <2> QED BY <1>2, <2>1, <2>2 DEF AccumulateCallMetrics
<1>3. ASSUME NEW S \in SUBSET Calls, OverwriteSnapshot(S)
      PROVE  WholeDay'
  <2>1. row' = RowOf(seen')
    BY <1>3 DEF OverwriteSnapshot
  <2>2. seen' \in Batches
    BY TypedStep DEF Typed
  <2>3. Whole(row', seen') /\ row' # NoRow
    BY <2>1, <2>2, RowOfWhole, RowExists
  <2> QED BY <2>3 DEF WholeDay, Whole, In, Tally, Counting, Hourly, LegStatusBreakdown
<1> QED BY <1>1, <1>2, <1>3 DEF Next, CallEnds, vars

(* Batches in any order, with any repair between them, add up to what one  *)
(* pass over the records of the day gives.                                 *)
THEOREM WholeDayHolds == Spec => []WholeDay
<1>1. Init => Typed /\ WholeDay
  <2>1. Init => In(seen) = {} /\ row = NoRow
    BY DEF Init, In
  <2> QED BY <2>1, TypedInit DEF WholeDay
<1>2. Typed /\ WholeDay /\ [Next]_vars => (Typed /\ WholeDay)'
  BY TypedStep, WholeStep
<1> QED BY <1>1, <1>2, PTL DEF Spec

-----------------------------------------------------------------------------
(* Customers reached.                                                      *)

LEMMA LegType == \A r : ClassifyLeg(r) \in {1, 2}
BY DEF ClassifyLeg

(* Whose child a call is does not change.                                  *)
LEMMA ReachedKept ==
    ASSUME Typed, NEW s \in Calls, CallEnds(s), NEW b, b' = b
    PROVE  Reached(b)' = Reached(b)
<1>1. In(day) = Calls /\ In(day') = Calls
  BY EndedType, UnseenIsNoRecord DEF In, Typed
<1>2. \A t \in Calls : (\E u \in In(day') : day'[u].parent = t)
                          <=> (\E u \in In(day) : day[u].parent = t)
  BY <1>1, EndedType
<1>3. \A t \in Calls : Child(day, t)' <=> Child(day, t)
  BY <1>2 DEF Child, In
<1> QED BY <1>3 DEF Reached, In

LEMMA ReachedAdds ==
    ASSUME NEW a \in Batches, NEW b \in Batches, In(a) \cap In(b) = {}
    PROVE  Cardinality(Reached(Merged(a, b)))
             = Cardinality(Reached(a)) + Cardinality(Reached(b))
<1>1. Reached(Merged(a, b)) = Reached(a) \cup Reached(b)
  BY MergedType DEF Reached, In
<1>2. Reached(a) \cap Reached(b) = {}
  BY DEF Reached
<1>3. Reached(a) \in SUBSET Calls /\ Reached(b) \in SUBSET Calls
  BY DEF Reached, In
<1> QED BY <1>1, <1>2, <1>3, DisjointSizes

(* Within a batch that keeps panel calls together the correction is right. *)
LEMMA PairedConnected ==
    ASSUME NEW b \in Batches, Paired(b)
    PROVE  Connected(b) = Cardinality(Reached(b))
<1> DEFINE Rest == {s \in BridgedIn(b) : ClassifyLeg(b[s]) = 2}
<1>1. BridgedIn(b) \in SUBSET Calls /\ Leg1ConnectedIn(b) \in SUBSET Calls
  BY DEF BridgedIn, Leg1ConnectedIn, In
<1>2. CASE HasCustomerLegs(b)
  <2>1. Reached(b) = Rest
    <3>1. \A s \in In(b) : ClassifyLeg(b[s]) = 1 \/ ClassifyLeg(b[s]) = 2
      BY LegType
    <3>2. \A s \in In(b) : Bridged(b[s]) /\ ClassifyLeg(b[s]) = 1 => Child(day, s)
      BY <1>2 DEF Paired
    <3> QED BY <3>1, <3>2 DEF Reached, BridgedIn
  <2>2. BridgedIn(b) = Leg1ConnectedIn(b) \cup Rest /\ Leg1ConnectedIn(b) \cap Rest = {}
    BY LegType DEF Leg1ConnectedIn
  <2>3. Rest \in SUBSET Calls
    BY <1>1
  <2> HIDE DEF Rest
  <2>4. Cardinality(BridgedIn(b)) = Cardinality(Leg1ConnectedIn(b)) + Cardinality(Rest)
    BY <1>1, <2>2, <2>3, DisjointSizes
  <2>5. /\ Cardinality(Leg1ConnectedIn(b)) \in Nat
        /\ Cardinality(Rest) \in Nat
    BY <1>1, <2>3, CallsFinite
  <2>6. Connected(b) = Cardinality(BridgedIn(b)) - Cardinality(Leg1ConnectedIn(b))
    BY <1>2 DEF Connected
  <2> QED BY <2>1, <2>4, <2>5, <2>6
<1>3. CASE ~HasCustomerLegs(b)
  <2>1. \A s \in In(b) : ClassifyLeg(b[s]) = 1
    BY <1>3, LegType DEF HasCustomerLegs
  <2>2. Reached(b) = BridgedIn(b)
    BY <1>3, <2>1 DEF Reached, Paired, BridgedIn
  <2>3. Connected(b) = Cardinality(BridgedIn(b)) - 0
    BY <1>3 DEF Connected
  <2> QED BY <1>1, <2>2, <2>3, CallsFinite
<1> QED BY <1>2, <1>3

LEMMA NothingReached ==
    ASSUME NEW b, In(b) = {}
    PROVE  Cardinality(Reached(b)) = 0
<1>1. Reached(b) = {}
  BY DEF Reached
<1> QED BY <1>1, FS_EmptySet

LEMMA ReachedStep ==
    ASSUME Typed, WholeDay, ConnectedIsReached, [Next]_vars
    PROVE  ConnectedIsReached'
<1>1. ASSUME UNCHANGED vars
      PROVE  ConnectedIsReached'
  BY <1>1 DEF vars, ConnectedIsReached, Reached, Child, In
<1>2. ASSUME NEW s \in Calls, CallEnds(s)
      PROVE  ConnectedIsReached'
  <2>1. seen' = seen /\ row' = row /\ paired' = paired
    BY <1>2 DEF CallEnds
  <2>2. Reached(seen)' = Reached(seen)
    BY <1>2, <2>1, ReachedKept
  <2> QED BY <2>1, <2>2 DEF ConnectedIsReached
<1>3. ASSUME NEW S \in SUBSET Calls, AccumulateCallMetrics(S), UNCHANGED <<row, seen, paired>>
      PROVE  ConnectedIsReached'
  BY <1>3 DEF AccumulateCallMetrics, ConnectedIsReached, Reached, Child, In
<1>4. ASSUME NEW S \in SUBSET Calls, AccumulateCallMetrics(S),
             row' = Plus(IF row = NoRow THEN ZeroRow ELSE row, Batch(S)),
             seen' = Merged(seen, Batch(S)),
             paired' = (paired /\ Paired(Batch(S))),
             paired'
      PROVE  row'.connected = Cardinality(Reached(seen))'
  <2> DEFINE b == Batch(S)
  <2>1. seen \in Batches /\ b \in Batches /\ In(seen) \cap In(b) = {}
    BY <1>4, BatchType DEF Typed, AccumulateCallMetrics
  <2>2. paired /\ Paired(b)
    BY <1>4
  <2>3. Connected(b) = Cardinality(Reached(b))
    BY <2>1, <2>2, PairedConnected
  <2>4. Cardinality(Reached(Merged(seen, b)))
          = Cardinality(Reached(seen)) + Cardinality(Reached(b))
    BY <2>1, ReachedAdds
  <2>5. (IF row = NoRow THEN ZeroRow ELSE row).connected = Cardinality(Reached(seen))
    <3>1. CASE row = NoRow
      <4>1. Cardinality(Reached(seen)) = 0
        BY <3>1, NothingReached DEF WholeDay
      <4> QED BY <3>1, <4>1 DEF ZeroRow
    <3>2. CASE row # NoRow
      BY <2>2, <3>2 DEF ConnectedIsReached
    <3> QED BY <3>1, <3>2
  <2>6. row'.connected =
          (IF row = NoRow THEN ZeroRow ELSE row).connected + Connected(b)
    BY <1>4 DEF Plus
  <2>7. Reached(seen)' = Reached(Merged(seen, b))
    BY <1>4 DEF AccumulateCallMetrics, Reached, Child, In
  <2> HIDE DEF b
  <2> QED BY <2>3, <2>4, <2>5, <2>6, <2>7
<1>5. ASSUME NEW S \in SUBSET Calls, OverwriteSnapshot(S), paired'
      PROVE  row'.connected = Cardinality(Reached(seen))'
  <2>1. PICK b : row' = RowOf(b) /\ seen' = b /\ paired' = Paired(b)
    BY <1>5 DEF OverwriteSnapshot
  <2>2. b \in Batches /\ Paired(b)
    BY <1>5, <2>1, TypedStep DEF Typed
  <2>3. Reached(seen)' = Reached(b)
    BY <1>5, <2>1 DEF OverwriteSnapshot, Reached, Child, In
  <2>4. RowOf(b).connected = 0 + Connected(b)
    BY DEF RowOf, Plus, ZeroRow
  <2>5. Reached(b) \in SUBSET Calls
    BY DEF Reached, In
  <2> QED BY <2>1, <2>2, <2>3, <2>4, <2>5, PairedConnected, CallsFinite
<1> QED
  BY <1>1, <1>2, <1>3, <1>4, <1>5
     DEF Next, AccumulateCallMetrics, ConnectedIsReached

(* The connected calls are the customers reached, as long as no batch      *)
(* tears a panel call apart or mixes panel calls with others.              *)
THEOREM ConnectedIsReachedHolds == Spec => []ConnectedIsReached
<1>1. Init => Typed /\ WholeDay /\ ConnectedIsReached
  <2>1. Init => In(seen) = {} /\ row = NoRow
    BY DEF Init, In
  <2> QED BY <2>1, TypedInit DEF WholeDay, ConnectedIsReached
<1>2. Typed /\ WholeDay /\ ConnectedIsReached /\ [Next]_vars
        => (Typed /\ WholeDay /\ ConnectedIsReached)'
  BY TypedStep, WholeStep, ReachedStep
<1> QED BY <1>1, <1>2, PTL DEF Spec

-----------------------------------------------------------------------------
(* Rates.                                                                  *)

(* A rate of at most one fits.                                             *)
LEMMA RateFits ==
    ASSUME NEW a \in Nat, NEW b \in Nat, a <= b
    PROVE  100 * a <= RateMax * b
<1>1. RateMax \in Nat /\ RateMax - 100 \in Nat
  <2>1. RateMax \in Nat /\ RateMax >= 100
    BY MetricsAssumption, Zenon
  <2> QED BY <2>1
<1>2. (RateMax - 100) * b \in Nat
  BY <1>1
<1>3. RateMax * b = 100 * b + (RateMax - 100) * b
  BY <1>1
<1> QED BY <1>1, <1>2, <1>3

LEMMA FitsWithoutCustomerLegs ==
    ASSUME NEW b \in Batches, ~HasCustomerLegs(b), NEW r,
           r.count = Tally(b), r.connected = Tally(b)["bridged"]
    PROVE  Fits(r)
<1> DEFINE n(c) == Cardinality(Counting(b, c))
<1>1. \A c \in Columns : Tally(b)[c] = n(c)
  BY DEF Tally
<1>2. \A c : Counting(b, c) \in SUBSET In(b) /\ Counting(b, c) \in SUBSET Calls
  BY DEF Counting, In
<1>3. Counting(b, "total_calls") = In(b)
  BY DEF Counting, ColumnsOf
<1>4. \A s \in In(b) : LegColumn(b[s]) = "leg1_total"
  BY LegType DEF HasCustomerLegs, LegColumn
<1>5. Counting(b, "leg1_total") = In(b)
  BY <1>4 DEF Counting, ColumnsOf
<1>6. Counting(b, "leg2_total") = {}
  <2>1. \A x : /\ OutcomeColumn(x) # "leg2_total"
               /\ Leg1Column(x) # "leg2_total"
               /\ Leg2Column(x) # "leg2_total"
    BY DEF OutcomeColumn, Leg1Column, Leg2Column
  <2> QED BY <1>4, <2>1 DEF Counting, ColumnsOf
<1>7. n("leg2_total") = 0
  BY <1>6, FS_EmptySet
<1>8. /\ n("bridged") \in Nat /\ n("bridged") <= n("total_calls")
      /\ n("leg2_drops") \in Nat /\ n("leg2_drops") <= n("total_calls")
      /\ n("leg1_drops") \in Nat /\ n("leg1_drops") <= n("leg1_total")
      /\ n("total_calls") \in Nat /\ n("leg1_total") \in Nat
  BY <1>2, <1>3, <1>5, CallsFinite, SmallerSet
<1> HIDE DEF n
<1>9. /\ r.count["leg2_total"] = 0
      /\ r.count["total_calls"] = n("total_calls")
      /\ r.count["leg1_total"] = n("leg1_total")
      /\ r.count["leg1_drops"] = n("leg1_drops")
      /\ r.count["leg2_drops"] = n("leg2_drops")
      /\ r.connected = n("bridged")
  BY <1>1, <1>7 DEF Columns
<1>10. Rates(r) = {<<n("bridged"), n("total_calls")>>, <<n("leg2_drops"), n("total_calls")>>,
                   <<n("leg1_drops"), n("leg1_total")>>}
  BY <1>9 DEF Rates
<1>11. \A q \in Rates(r) : q[1] \in Nat /\ q[2] \in Nat /\ q[1] <= q[2]
  BY <1>8, <1>10
<1> QED BY <1>11, RateFits DEF Fits

(* Without customer legs every bridged call is connected.                  *)
LEMMA ConnectedWithoutCustomerLegs ==
    ASSUME NEW b \in Batches, ~HasCustomerLegs(b)
    PROVE  Connected(b) = Tally(b)["bridged"] /\ Connected(b) \in Nat
<1>1. BridgedIn(b) = Counting(b, "bridged")
  <2>1. \A x : OutcomeColumn(x) = "bridged" <=> Bridged(x)
    BY DEF OutcomeColumn, Bridged
  <2>2. \A x : /\ LegColumn(x) # "bridged" /\ Leg1Column(x) # "bridged"
               /\ Leg2Column(x) # "bridged"
    BY DEF LegColumn, Leg1Column, Leg2Column
  <2> QED BY <2>1, <2>2 DEF BridgedIn, Counting, ColumnsOf
<1>2. BridgedIn(b) \in SUBSET Calls
  BY DEF BridgedIn, In
<1>3. Connected(b) = Cardinality(BridgedIn(b)) - 0
  BY DEF Connected
<1>4. Tally(b)["bridged"] = Cardinality(Counting(b, "bridged"))
  BY DEF Tally, Columns
<1> QED BY <1>1, <1>2, <1>3, <1>4, CallsFinite

RateInv ==
    /\ \A s \in In(seen) : ClassifyLeg(seen[s]) = ClassifyLeg(day[s])
    /\ row # NoRow /\ ~HasCustomerLegs(seen) => row.connected = Tally(seen)["bridged"]
    /\ RefusedOnlyWithCustomerLegs

(* Only a day with customer legs makes a batch that has some.              *)
LEMMA LegsOfBatches ==
    ASSUME Typed, RateInv, NEW S \in SUBSET Calls
    PROVE  /\ \A s \in In(Batch(S)) : Batch(S)[s] = day[s]
           /\ \A s \in In(Merged(seen, Batch(S))) :
                 ClassifyLeg(Merged(seen, Batch(S))[s]) = ClassifyLeg(day[s])
<1>1. \A s \in In(Batch(S)) : Batch(S)[s] = day[s]
  BY DEF Batch, In
<1>2. Batch(S) \in Batches /\ seen \in Batches
  BY BatchType DEF Typed
<1> QED BY <1>1, <1>2, MergedType DEF RateInv, In

LEMMA AccumulateConnected ==
    ASSUME Typed, WholeDay, RateInv, NEW S \in SUBSET Calls,
           S \cap (In(seen) \cup refused) = {},
           ~HasCustomerLegs(Merged(seen, Batch(S)))
    PROVE  Plus(IF row = NoRow THEN ZeroRow ELSE row, Batch(S)).connected
             = Tally(Merged(seen, Batch(S)))["bridged"]
<1> DEFINE b   == Batch(S)
           old == IF row = NoRow THEN ZeroRow ELSE row
<1>1. seen \in Batches /\ b \in Batches /\ In(seen) \cap In(b) = {}
  BY BatchType DEF Typed
<1>2. ~HasCustomerLegs(seen) /\ ~HasCustomerLegs(b)
  <2>1. /\ In(Merged(seen, b)) = In(seen) \cup In(b)
        /\ \A s \in In(b) : Merged(seen, b)[s] = b[s]
        /\ \A s \in In(seen) : Merged(seen, b)[s] = seen[s]
    BY <1>1 DEF Merged, In
  <2>2. \A s \in In(Merged(seen, b)) : ClassifyLeg(Merged(seen, b)[s]) # 2
    BY DEF HasCustomerLegs
  <2> HIDE DEF b
  <2>3. /\ \A s \in In(seen) : ClassifyLeg(seen[s]) # 2
        /\ \A s \in In(b) : ClassifyLeg(b[s]) # 2
    BY <2>1, <2>2
  <2> QED BY <2>3 DEF HasCustomerLegs
<1>3. old.connected = Tally(seen)["bridged"]
  <2>1. CASE row = NoRow
    <3>1. Tally(seen) = ZeroRow.count
      BY <2>1, EmptyBatch DEF WholeDay
    <3> QED BY <2>1, <3>1 DEF ZeroRow, Columns
  <2>2. CASE row # NoRow
    BY <2>2, <1>2 DEF RateInv
  <2> QED BY <2>1, <2>2
<1>4. Plus(old, b).connected = old.connected + Connected(b)
  BY DEF Plus
<1>5. Tally(Merged(seen, b))["bridged"] = Tally(seen)["bridged"] + Tally(b)["bridged"]
  <2>1. Sum(Tally(seen), Tally(b))["bridged"] = Tally(seen)["bridged"] + Tally(b)["bridged"]
    BY DEF Sum, Tally, Columns
  <2> QED BY <1>1, <2>1, TallyAdds
<1> HIDE DEF b, old
<1>6. Plus(old, b).connected = Tally(Merged(seen, b))["bridged"]
  BY <1>1, <1>2, <1>3, <1>4, <1>5, ConnectedWithoutCustomerLegs
<1> QED BY <1>6 DEF b, old

LEMMA RateStep ==
    ASSUME Typed, WholeDay, RateInv, [Next]_vars
    PROVE  RateInv'
<1>1. CASE UNCHANGED vars
  BY <1>1 DEF vars, RateInv, HasCustomerLegs, In, Tally, Counting,
             RefusedOnlyWithCustomerLegs
<1>2. ASSUME NEW s \in Calls, CallEnds(s)
      PROVE  RateInv'
  <2>1. \A t \in Calls : ClassifyLeg(day'[t]) = ClassifyLeg(day[t])
    BY <1>2, EndedType
  <2> QED BY <1>2, <2>1 DEF CallEnds, RateInv, HasCustomerLegs, In, Tally, Counting,
             RefusedOnlyWithCustomerLegs
<1>3. ASSUME NEW S \in SUBSET Calls, AccumulateCallMetrics(S)
      PROVE  RateInv'
  <2> DEFINE new == Plus(IF row = NoRow THEN ZeroRow ELSE row, Batch(S))
             m   == Merged(seen, Batch(S))
  <2>1. /\ ~HasCustomerLegs(m) => new.connected = Tally(m)["bridged"]
        /\ new.count = Tally(m)
        /\ m \in Batches
        /\ day' = day
    BY <1>3, AccumulateConnected, AccumulateWhole, BatchType, MergedType
       DEF AccumulateCallMetrics, Whole, Typed
  <2>2. \A s \in In(m) : s \in Calls /\ ClassifyLeg(m[s]) = ClassifyLeg(day[s])
    BY LegsOfBatches DEF In
  <2>3. CASE row' = new /\ seen' = m /\ refused' = refused
    <3> HIDE DEF new, m
    <3> QED BY <2>1, <2>2, <2>3 DEF RateInv, HasCustomerLegs, In, Tally, Counting,
               RefusedOnlyWithCustomerLegs
  <2>4. CASE ~Fits(new) /\ UNCHANGED <<row, seen>>
    <3> HIDE DEF new, m
    <3>1. HasCustomerLegs(m)
      BY <2>1, <2>4, FitsWithoutCustomerLegs
    <3>2. \E s \in Calls : ClassifyLeg(day[s]) = 2
      BY <2>2, <3>1 DEF HasCustomerLegs
    <3> QED BY <2>1, <2>4, <3>2 DEF RateInv, HasCustomerLegs, In, Tally, Counting,
               RefusedOnlyWithCustomerLegs
  <2> QED BY <1>3, <2>3, <2>4 DEF AccumulateCallMetrics
<1>4. ASSUME NEW S \in SUBSET Calls, OverwriteSnapshot(S)
      PROVE  RateInv'
  <2>1. PICK b \in {Batch(S), [s \in Calls |-> IF s \in S /\ seen[s] # Unseen
                                              THEN seen[s] ELSE Batch(S)[s]]} :
          row' = RowOf(b) /\ seen' = b /\ refused' = refused \ S /\ day' = day
    BY <1>4 DEF OverwriteSnapshot
  <2>2. b \in Batches
    BY <1>4, <2>1, TypedStep DEF Typed
  <2>3. \A s \in In(b) : ClassifyLeg(b[s]) = ClassifyLeg(day[s])
    BY <2>1, LegsOfBatches DEF RateInv, In
  <2>4. ~HasCustomerLegs(b) => RowOf(b).connected = Tally(b)["bridged"]
    <3>1. RowOf(b).connected = 0 + Connected(b)
      BY DEF RowOf, Plus, ZeroRow
    <3> QED BY <2>2, <3>1, ConnectedWithoutCustomerLegs
  <2>5. refused' # {} => refused # {}
    BY <2>1
  <2> QED BY <2>1, <2>3, <2>4, <2>5 DEF RateInv, HasCustomerLegs, In, Tally, Counting,
             RefusedOnlyWithCustomerLegs
<1> QED BY <1>1, <1>2, <1>3, <1>4 DEF Next

(* The database refuses a batch only on a day on which some call has a     *)
(* customer leg: the rates of all other days are percentages.              *)
THEOREM RefusedOnlyWithCustomerLegsHolds == Spec => []RefusedOnlyWithCustomerLegs
<1>1. Init => Typed /\ WholeDay /\ RateInv
  <2>1. Init => In(seen) = {} /\ row = NoRow /\ refused = {}
    BY DEF Init, In
  <2> QED BY <2>1, TypedInit DEF WholeDay, RateInv, RefusedOnlyWithCustomerLegs
<1>2. Typed /\ WholeDay /\ RateInv /\ [Next]_vars => (Typed /\ WholeDay /\ RateInv)'
  BY TypedStep, WholeStep, RateStep
<1>3. RateInv => RefusedOnlyWithCustomerLegs
  BY DEF RateInv
<1> QED BY <1>1, <1>2, <1>3, PTL DEF Spec

-----------------------------------------------------------------------------
(* The average.                                                            *)

(* Integer division, and rounding to the nearest.                          *)
LEMMA Division ==
    ASSUME NEW a \in Int, NEW k \in Int, a >= 0, k > 0
    PROVE  /\ a \div k \in Nat
           /\ k * (a \div k) <= a
           /\ a < k * (a \div k) + k
<1>1. a \div k \in Int /\ a % k \in 0 .. k - 1
  OBVIOUS
<1>2. a = k * (a \div k) + (a % k)
  OBVIOUS
<1>3. a \div k >= 0
  OBVIOUS
<1> QED BY <1>1, <1>2, <1>3

LEMMA RoundedFacts ==
    ASSUME NEW n \in Nat, NEW d \in Nat \ {0}
    PROVE  /\ Rounded(n, d) \in Nat
           /\ 2 * (d * Rounded(n, d) - n) <= d
           /\ 2 * (n - d * Rounded(n, d)) <= d
<1> DEFINE q == (2 * n + d) \div (2 * d)
<1>1. /\ 2 * n + d \in Int /\ 2 * n + d >= 0
      /\ 2 * d \in Int /\ 2 * d > 0
  OBVIOUS
<1>2. q \in Nat /\ (2 * d) * q <= 2 * n + d /\ 2 * n + d < (2 * d) * q + 2 * d
  BY <1>1, Division
<1> HIDE DEF q
<1>3. d * q \in Nat /\ (2 * d) * q = 2 * (d * q)
  BY <1>2
<1>4. 2 * (d * q - n) <= d /\ 2 * (n - d * q) <= d
  BY <1>2, <1>3
<1> QED BY <1>2, <1>4 DEF Rounded, q

LEMMA DurationIn ==
    ASSUME NEW b \in Batches, NEW s \in In(b)
    PROVE  b[s].dur \in Nat
<1>1. b[s] \in Records
  BY DEF Batches, In
<1> QED BY <1>1, MetricsAssumption DEF Records

LEMMA DurationNat ==
    ASSUME NEW b \in Batches
    PROVE  TotalDuration(b) \in Nat
<1>1. In(b) \in SUBSET Calls
  BY DEF In
<1> QED BY <1>1, CallsFinite, DurationIn, SumNat, TotalIsSum

LEMMA DurationsAdd ==
    ASSUME NEW a \in Batches, NEW b \in Batches, In(a) \cap In(b) = {}
    PROVE  TotalDuration(Merged(a, b)) = TotalDuration(a) + TotalDuration(b)
<1> DEFINE m == Merged(a, b)
<1>1. /\ m \in Batches /\ In(m) = In(a) \cup In(b)
      /\ \A s \in In(a) : a[s].dur = m[s].dur
      /\ \A s \in In(b) : b[s].dur = m[s].dur
  BY MergedType DEF In
<1>2. IsFiniteSet(In(a)) /\ IsFiniteSet(In(b))
  BY CallsFinite DEF In
<1> HIDE DEF m
<1>3. \A s \in In(b) \cup In(a) : m[s].dur \in Nat
  BY <1>1, DurationIn
<1>4. SumOf(m, In(a) \cup In(b)) = SumOf(m, In(a)) + SumOf(m, In(b))
  BY <1>2, <1>3, SumUnion
<1>5. SumOf(a, In(a)) = SumOf(m, In(a)) /\ SumOf(b, In(b)) = SumOf(m, In(b))
  BY <1>1, <1>2, SumAgrees
<1>6. TotalDuration(m) = TotalDuration(a) + TotalDuration(b)
  BY <1>1, <1>4, <1>5, TotalIsSum
<1> QED BY <1>6 DEF m

(* A batch that counts adds to the row of the same type.                   *)
LEMMA CountsType ==
    ASSUME NEW b
    PROVE  /\ Tally(b) \in [Columns -> Nat]
           /\ Hourly(b) \in [Hours -> Nat]
           /\ LegStatusBreakdown(b) \in [Pairs -> Nat]
<1>1. \A c : Counting(b, c) \in SUBSET Calls
  BY DEF Counting, In
<1>2. \A h : {s \in In(b) : b[s].hour = h} \in SUBSET Calls
  BY DEF In
<1>3. \A p : {s \in In(b) : <<b[s].leg1, b[s].leg2>> = p} \in SUBSET Calls
  BY DEF In
<1>4. Tally(b) \in [Columns -> Nat]
  BY <1>1, CallsFinite DEF Tally
<1>5. Hourly(b) \in [Hours -> Nat]
  BY <1>2, CallsFinite DEF Hourly
<1>6. LegStatusBreakdown(b) \in [Pairs -> Nat]
  BY <1>3, CallsFinite DEF LegStatusBreakdown
<1> QED BY <1>4, <1>5, <1>6

LEMMA SumType ==
    ASSUME NEW X, NEW f \in [X -> Nat], NEW g \in [X -> Nat]
    PROVE  Sum(f, g) \in [X -> Nat]
BY DEF Sum

LEMMA ConnectedNat ==
    ASSUME NEW b
    PROVE  Connected(b) \in Nat
<1> DEFINE all  == Cardinality(BridgedIn(b))
           leg1 == Cardinality(Leg1ConnectedIn(b))
<1>1. BridgedIn(b) \in SUBSET Calls /\ Leg1ConnectedIn(b) \in SUBSET BridgedIn(b)
  BY DEF BridgedIn, Leg1ConnectedIn, In
<1>2. all \in Nat /\ leg1 \in Nat /\ leg1 <= all
  BY <1>1, CallsFinite, SmallerSet
<1>3. Connected(b) = all - IF HasCustomerLegs(b) THEN leg1 ELSE 0
  BY DEF Connected
<1> HIDE DEF all, leg1
<1> QED BY <1>2, <1>3

LEMMA HoursFacts ==
    /\ IsFiniteSet(Hours) /\ 0 \in Hours /\ Hours \subseteq Nat
    /\ \A h \in Hours : \A k \in 0 .. h - 1 : k \in Hours /\ k < h
<1>1. LastHour \in Nat
  BY MetricsAssumption, Zenon
<1>2. IsFiniteSet(0 .. LastHour)
  BY <1>1, FS_Interval
<1> QED BY <1>1, <1>2 DEF Hours

(* There is a first one among the busiest hours.                           *)
LEMMA PeakHourType ==
    ASSUME NEW dist \in [Hours -> Nat]
    PROVE  PeakHour(dist) \in Hours
<1> DEFINE First(T, h) ==
             \A k \in T : dist[k] <= dist[h] /\ (dist[k] = dist[h] => h <= k)
           Good == {T \in SUBSET Hours : T # {} => \E h \in T : First(T, h)}
<1>1. IsFiniteSet(Hours) /\ 0 \in Hours /\ Hours \subseteq Nat
  BY HoursFacts
<1>2. ASSUME NEW T \in SUBSET Hours, \A U \in SUBSET T : U # T => U \in Good
      PROVE  T \in Good
  <2> SUFFICES ASSUME T # {}
               PROVE  \E h \in T : First(T, h)
    OBVIOUS
  <2>1. PICK p : p \in T
    OBVIOUS
  <2> DEFINE U == T \ {p}
  <2>2. p \in Nat /\ dist[p] \in Nat /\ \A k \in U : k \in Nat /\ dist[k] \in Nat
    BY <1>1, <2>1
  <2>3. CASE U = {}
    <3>1. First(T, p)
      BY <2>1, <2>2, <2>3
    <3> QED BY <2>1, <3>1
  <2>4. CASE U # {}
    <3>0. U \in Good
      <4>1. U \in SUBSET T /\ U # T
        BY <2>1
      <4> HIDE DEF Good, U
      <4> QED BY <1>2, <4>1
    <3>1. PICK h \in U : First(U, h)
      <4>1. \E h \in U : First(U, h)
        <5> HIDE DEF First, U
        <5> QED BY <2>4, <3>0
      <4> QED BY <4>1
    <3>2. \A k \in T : k = p \/ k \in U
      OBVIOUS
    <3>3. CASE dist[p] > dist[h] \/ (dist[p] = dist[h] /\ p <= h)
      <4>1. First(T, p)
        BY <2>2, <3>1, <3>2, <3>3
      <4> QED BY <2>1, <4>1
    <3>4. CASE dist[p] < dist[h] \/ (dist[p] = dist[h] /\ h < p)
      <4>1. First(T, h)
        BY <2>2, <3>1, <3>2, <3>4
      <4> QED BY <3>1, <4>1
    <3> QED BY <2>2, <3>1, <3>3, <3>4
  <2> QED BY <2>3, <2>4
<1>3. Hours \in Good
  <2> HIDE DEF Good
  <2>1. Good \in SUBSET SUBSET Hours
    BY DEF Good
  <2> QED BY <1>1, <1>2, <2>1, SubsetInduction
<1>4. PICK h \in Hours : First(Hours, h)
  BY <1>1, <1>3
<1>5. /\ \A k \in Hours : dist[k] <= dist[h]
      /\ \A k \in 0 .. h - 1 : dist[k] < dist[h]
  <2>1. \A k \in Hours : dist[k] \in Nat
    OBVIOUS
  <2>2. \A k \in 0 .. h - 1 : k \in Hours /\ k < h
    BY HoursFacts
  <2> QED BY <1>1, <1>4, <2>1, <2>2
<1> QED BY <1>5 DEF PeakHour

LEMMA AverageType ==
    ASSUME NEW r \in Row, NEW b \in Batches, In(b) # {}
    PROVE  NewAverage(r, b) \in Nat
<1> DEFINE N == r.count["total_calls"]
           n == Cardinality(In(b))
<1>1. N \in Nat /\ r.avg \in Nat /\ TotalDuration(b) \in Nat
  BY DurationNat DEF Row, Columns
<1>2. n \in Nat \ {0}
  BY CallsFinite, FS_EmptySet DEF In
<1> HIDE DEF N, n
<1>3. r.avg * N + 100 * TotalDuration(b) \in Nat /\ N + n \in Nat \ {0}
  BY <1>1, <1>2
<1>4. Rounded(r.avg * N + 100 * TotalDuration(b), N + n) \in Nat
  BY <1>3, RoundedFacts
<1> QED BY <1>4 DEF NewAverage, N, n

LEMMA PlusType ==
    ASSUME NEW r \in Row, NEW b \in Batches, In(b) # {}
    PROVE  Plus(r, b) \in Row
<1>1. /\ r.count \in [Columns -> Nat] /\ r.hourly \in [Hours -> Nat]
      /\ r.pairs \in [Pairs -> Nat] /\ r.connected \in Nat
  BY DEF Row
<1>2. /\ Sum(r.count, Tally(b)) \in [Columns -> Nat]
      /\ Sum(r.hourly, Hourly(b)) \in [Hours -> Nat]
      /\ Sum(r.pairs, LegStatusBreakdown(b)) \in [Pairs -> Nat]
  BY <1>1, CountsType, SumType
<1>3. r.connected + Connected(b) \in Nat
  BY <1>1, ConnectedNat
<1>4. NewPeak(r, b) \in Hours
  BY <1>2, PeakHourType DEF NewPeak
<1>5. NewAverage(r, b) \in Nat
  BY AverageType
<1> QED BY <1>2, <1>3, <1>4, <1>5 DEF Plus, Row

LEMMA ZeroRowType == ZeroRow \in Row
BY HoursFacts DEF ZeroRow, Row

(* What the statements write is never the figures of no calls.             *)
LEMMA BatchNotEmpty ==
    ASSUME Typed, NEW S \in SUBSET Calls, S # {},
           NEW b \in {Batch(S), [s \in Calls |-> IF s \in S /\ seen[s] # Unseen
                                                 THEN seen[s] ELSE Batch(S)[s]]}
    PROVE  b \in Batches /\ In(b) # {}
<1>1. b \in Batches
  BY BatchType DEF Typed, Batches
<1>2. PICK s \in S : TRUE
  OBVIOUS
<1>3. Batch(S)[s] = day[s] /\ day[s] # Unseen
  BY UnseenIsNoRecord DEF Batch, Typed
<1>4. b[s] # Unseen
  BY <1>3
<1> QED BY <1>1, <1>4 DEF In

(* The parts of TypeOK that Typed leaves out.                              *)
LEMMA TypeStep ==
    ASSUME TypeOK, [Next]_vars
    PROVE  TypeOK'
<1>0. Typed /\ Typed'
  <2>1. Typed
    BY DEF TypeOK, Typed
  <2> QED BY <2>1, TypedStep
<1> DEFINE Rest == row' \in {NoRow} \cup Row /\ parts' \in Nat /\ paired' \in BOOLEAN
<1>1. SUFFICES Rest
  BY <1>0, <1>1 DEF TypeOK, Typed
<1>2. CASE UNCHANGED <<row, parts, paired>>
  BY <1>2 DEF TypeOK
<1>3. ASSUME NEW S \in SUBSET Calls, AccumulateCallMetrics(S)
      PROVE  Rest
  <2> DEFINE old == IF row = NoRow THEN ZeroRow ELSE row
  <2>1. old \in Row
    BY ZeroRowType DEF TypeOK
  <2>2. Batch(S) \in Batches /\ In(Batch(S)) # {}
    BY <1>0, <1>3, BatchNotEmpty DEF AccumulateCallMetrics
  <2> HIDE DEF old
  <2>3. Plus(old, Batch(S)) \in Row
    BY <2>1, <2>2, PlusType
  <2>4. \/ /\ row' = Plus(old, Batch(S)) /\ parts' = parts + 1
           /\ paired' = (paired /\ Paired(Batch(S)))
        \/ UNCHANGED <<row, parts, paired>>
    BY <1>3 DEF AccumulateCallMetrics, old
  <2>5. paired' \in BOOLEAN
    BY <2>4, Zenon DEF TypeOK
  <2> QED BY <2>3, <2>4, <2>5 DEF TypeOK
<1>4. ASSUME NEW S \in SUBSET Calls, OverwriteSnapshot(S)
      PROVE  Rest
  <2>1. PICK b \in {Batch(S), [s \in Calls |-> IF s \in S /\ seen[s] # Unseen
                                              THEN seen[s] ELSE Batch(S)[s]]} :
          row' = RowOf(b) /\ parts' = 1 /\ paired' = Paired(b)
    BY <1>4 DEF OverwriteSnapshot
  <2>2. b \in Batches /\ In(b) # {}
    BY <1>0, <1>4, BatchNotEmpty DEF OverwriteSnapshot
  <2>3. row' \in Row
    BY <2>1, <2>2, ZeroRowType, PlusType DEF RowOf
  <2>4. paired' \in BOOLEAN
    BY <2>1, Zenon DEF Paired
  <2> QED BY <2>1, <2>3, <2>4
<1> QED BY <1>2, <1>3, <1>4 DEF Next, CallEnds, vars

(* Every figure of a row is a natural number, and its busiest hour exists: *)
(* no correction, no average and no peak leaves the columns of its type.   *)
THEOREM MetricsTypeCorrect == Spec => []TypeOK
<1>1. Init => TypeOK
  BY TypedInit DEF Init, Typed, TypeOK
<1>2. TypeOK /\ [Next]_vars => TypeOK'
  BY TypeStep
<1> QED BY <1>1, <1>2, PTL DEF Spec

(* The average of r is that of b but for p roundings.                      *)
Within(r, b, p) ==
    LET error == r.avg * r.count["total_calls"] - 100 * TotalDuration(b)
        bound == p * r.count["total_calls"] IN
    -bound <= 2 * error /\ 2 * error <= bound

LEMMA PlusWithin ==
    ASSUME NEW a \in Batches, NEW b \in Batches, In(a) \cap In(b) = {}, In(b) # {},
           NEW r \in Row, NEW p \in Nat, Within(r, a, p)
    PROVE  Within(Plus(r, b), Merged(a, b), p + 1)
<1> DEFINE N == r.count["total_calls"]
           n == Cardinality(In(b))
           A == r.avg
           T == TotalDuration(a)
           D == TotalDuration(b)
           q == Rounded(A * N + 100 * D, N + n)
<1>1. N \in Nat /\ A \in Nat /\ T \in Nat /\ D \in Nat
  BY DurationNat DEF Row, Columns
<1>2. n \in Nat \ {0}
  BY CallsFinite, FS_EmptySet DEF In
<1>3. TotalDuration(Merged(a, b)) = T + D
  BY DurationsAdd
<1>4. Plus(r, b).count["total_calls"] = N + n
  <2>1. Counting(b, "total_calls") = In(b)
    BY DEF Counting, ColumnsOf
  <2>2. Tally(b)["total_calls"] = n
    BY <2>1 DEF Tally, Columns
  <2>3. Sum(r.count, Tally(b))["total_calls"] = N + Tally(b)["total_calls"]
    BY DEF Sum, Row, Columns
  <2> QED BY <2>2, <2>3 DEF Plus
<1>5. Plus(r, b).avg = q
  BY DEF Plus, NewAverage
<1>6. -(p * N) <= 2 * (A * N - 100 * T) /\ 2 * (A * N - 100 * T) <= p * N
  BY DEF Within
<1> HIDE DEF q
<1>q. q = Rounded(A * N + 100 * D, N + n)
  BY DEF q
<1> HIDE DEF N, n, A, T, D
<1> DEFINE d == N + n
           v == A * N
           w == q * d
<1>7. v \in Nat /\ v + 100 * D \in Nat /\ d \in Nat \ {0}
  BY <1>1, <1>2
<1>8. q \in Nat /\ 2 * (d * q - (v + 100 * D)) <= d /\ 2 * ((v + 100 * D) - d * q) <= d
  BY <1>7, <1>q, RoundedFacts
<1>9. w \in Nat /\ d * q = w
  BY <1>7, <1>8
<1>10. p * N \in Nat /\ p * n \in Nat /\ (p + 1) * d = p * N + p * n + d
  BY <1>1, <1>2
<1>11. -(p * N) <= 2 * (v - 100 * T) /\ 2 * (v - 100 * T) <= p * N
  BY <1>6
<1> HIDE DEF d, v, w
<1>12. /\ -((p + 1) * d) <= 2 * (w - 100 * (T + D))
       /\ 2 * (w - 100 * (T + D)) <= (p + 1) * d
  BY <1>1, <1>7, <1>8, <1>9, <1>10, <1>11
<1> QED BY <1>3, <1>4, <1>5, <1>12 DEF Within, d, w

LEMMA ZeroWithin ==
    ASSUME NEW b, In(b) = {}, NEW p \in Nat
    PROVE  Within(ZeroRow, b, p)
<1>1. TotalDuration(b) = 0
  BY TotalIsSum, SumEmpty
<1>2. ZeroRow.avg = 0 /\ ZeroRow.count["total_calls"] = 0
  BY DEF ZeroRow, Columns
<1> QED BY <1>1, <1>2 DEF Within

LEMMA RowOfWithin ==
    ASSUME NEW b \in Batches, In(b) # {}
    PROVE  Within(RowOf(b), b, 1)
<1> DEFINE a == [s \in Calls |-> Unseen]
<1>1. a \in Batches /\ In(a) = {}
  BY DEF Batches, In
<1>2. Merged(a, b) = b
  BY DEF Merged, Batches
<1> HIDE DEF a
<1>3. Within(Plus(ZeroRow, b), Merged(a, b), 0 + 1)
  BY <1>1, ZeroWithin, ZeroRowType, PlusWithin
<1> QED BY <1>2, <1>3 DEF RowOf

LEMMA AvgIsWithin == AvgWithinRounding <=> (row # NoRow => Within(row, seen, parts))
BY DEF AvgWithinRounding, Within

LEMMA AvgStep ==
    ASSUME TypeOK, WholeDay, AvgWithinRounding, [Next]_vars
    PROVE  AvgWithinRounding'
<1>0. Typed
  BY DEF TypeOK, Typed
<1>1. SUFFICES row' # NoRow => Within(row', seen', parts')
  BY <1>1 DEF AvgWithinRounding, Within, TotalDuration, In, MapThenSumSet, MapThenFoldSet
<1>2. CASE UNCHANGED <<row, seen, parts>>
  BY <1>2, AvgIsWithin
<1>3. ASSUME NEW S \in SUBSET Calls, AccumulateCallMetrics(S)
      PROVE  row' # NoRow => Within(row', seen', parts')
  <2> DEFINE old == IF row = NoRow THEN ZeroRow ELSE row
             b   == Batch(S)
  <2>1. seen \in Batches /\ b \in Batches /\ In(b) # {} /\ In(seen) \cap In(b) = {}
    BY <1>0, <1>3, BatchType, BatchNotEmpty DEF Typed, AccumulateCallMetrics
  <2>2. old \in Row /\ parts \in Nat
    BY ZeroRowType DEF TypeOK
  <2>3. Within(old, seen, parts)
    <3>1. CASE row = NoRow
      BY <2>2, <3>1, ZeroWithin DEF WholeDay
    <3>2. CASE row # NoRow
      BY <3>2, AvgIsWithin
    <3> QED BY <3>1, <3>2
  <2>4. \/ row' = Plus(old, b) /\ seen' = Merged(seen, b) /\ parts' = parts + 1
        \/ UNCHANGED <<row, seen, parts>>
    BY <1>3 DEF AccumulateCallMetrics
  <2> HIDE DEF old, b
  <2>5. Within(Plus(old, b), Merged(seen, b), parts + 1)
    BY <2>1, <2>2, <2>3, PlusWithin
  <2> QED BY <2>4, <2>5, <1>2
<1>4. ASSUME NEW S \in SUBSET Calls, OverwriteSnapshot(S)
      PROVE  Within(row', seen', parts')
  <2>1. PICK b \in {Batch(S), [s \in Calls |-> IF s \in S /\ seen[s] # Unseen
                                              THEN seen[s] ELSE Batch(S)[s]]} :
          row' = RowOf(b) /\ seen' = b /\ parts' = 1
    BY <1>4 DEF OverwriteSnapshot
  <2>2. b \in Batches /\ In(b) # {}
    BY <1>0, <1>4, BatchNotEmpty DEF OverwriteSnapshot
  <2> QED BY <2>1, <2>2, RowOfWithin
<1> QED BY <1>2, <1>3, <1>4 DEF Next, CallEnds, vars

(* The average a day ends with, kept to hundredths and unfolded into a     *)
(* total for every batch, is off by at most half a hundredth of a second   *)
(* for each time it was rounded, in whatever batches the calls came.       *)
THEOREM AvgWithinRoundingHolds == Spec => []AvgWithinRounding
<1>1. Init => TypeOK /\ WholeDay /\ AvgWithinRounding
  <2>1. Init => In(seen) = {} /\ row = NoRow
    BY DEF Init, In
  <2>2. Init => TypeOK
    BY TypedInit DEF Init, Typed, TypeOK
  <2> QED BY <2>1, <2>2 DEF WholeDay, AvgWithinRounding
<1>2. TypeOK /\ WholeDay /\ AvgWithinRounding /\ [Next]_vars
        => (TypeOK /\ WholeDay /\ AvgWithinRounding)'
  <2>1. TypeOK => Typed
    BY DEF TypeOK, Typed
  <2> QED BY <2>1, TypeStep, WholeStep, AvgStep
<1> QED BY <1>1, <1>2, PTL DEF Spec
=============================================================================
