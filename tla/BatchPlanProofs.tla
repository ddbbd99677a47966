--------------------------- MODULE BatchPlanProofs ---------------------------
(***************************************************************************)
(* Proofs about the batch runner, for every plan, every set of classes and *)
(* targets, and any number of starts, attempts and kills.                  *)
(***************************************************************************)
EXTENDS BatchPlan, FiniteSetTheorems, SequenceTheorems, WellFoundedInduction,
        TLAPS

-----------------------------------------------------------------------------
(* Numbers.                                                                *)

LEMMA LeastNumber ==
    ASSUME NEW S \in SUBSET Nat, S # {}
    PROVE  \E m \in S : \A k \in S : m <= k
  <1>1. PICK x \in S : \A y \in S : ~(<<y, x>> \in OpToRel(<, Nat))
    BY NatLessThanWellFounded, WFMin
  <1>2. \A y \in S : ~(y < x)
    BY <1>1 DEF OpToRel
  <1>3. QED
    BY <1>2

LEMMA LargestIndex ==
    ASSUME NEW n \in Nat, NEW S \in SUBSET (1..n), S # {}
    PROVE  Max(S) \in S /\ \A k \in S : k <= Max(S)
  <1> DEFINE T == {n - k : k \in S}
  <1>1. \A k \in S : n - k \in T /\ k \in Nat /\ n - k \in Nat
    OBVIOUS
  <1>2. \A m \in T : \E k \in S : m = n - k
    OBVIOUS
  <1> HIDE DEF T
  <1>3. T \in SUBSET Nat /\ T # {}
    BY <1>1, <1>2
  <1>4. PICK m \in T : \A k \in T : m <= k
    BY <1>3, LeastNumber
  <1>5. PICK x \in S : m = n - x
    BY <1>2
  <1>6. ASSUME NEW k \in S PROVE k <= x
    <2>1. m <= n - k /\ k \in Nat /\ x \in Nat
      BY <1>1, <1>4
    <2>2. QED
      BY <1>5, <2>1
  <1>7. QED
    BY <1>1, <1>6 DEF Max

LEMMA LargestIsMax ==
    ASSUME NEW S \in SUBSET Nat, NEW x \in S, \A k \in S : k <= x
    PROVE  Max(S) = x
  <1>1. ASSUME NEW y \in S, \A k \in S : k <= y PROVE y = x
    <2>1. x <= y /\ y <= x /\ x \in Nat /\ y \in Nat
      BY <1>1
    <2>2. QED
      BY <2>1
  <1>2. \A k \in S : x >= k
    OBVIOUS
  <1>3. Max(S) \in S /\ \A k \in S : Max(S) >= k
    BY <1>2 DEF Max
  <1>4. QED
    BY <1>1, <1>3

LEMMA SmallestIndex ==
    ASSUME NEW S \in SUBSET Nat, S # {}
    PROVE  Min(S) \in S
  BY LeastNumber DEF Min

LEMMA MinOfTwo ==
    ASSUME NEW a \in Nat, NEW b \in Nat
    PROVE  Min({a, b}) = IF a <= b THEN a ELSE b
  <1>1. \E x \in {a, b} : \A y \in {a, b} : x <= y
    OBVIOUS
  <1>2. QED
    BY <1>1 DEF Min

\* The numbers of a sequence have a bound.
LEMMA BoundedSequence ==
    ASSUME NEW f \in Seq(Nat)
    PROVE  \E b \in Nat : \A i \in DOMAIN f : f[i] <= b
  <1> DEFINE n == Len(f)
             Bounded(k) == \E b \in Nat : \A i \in 1..k : f[i] <= b
             C == {k \in 0..n : ~Bounded(k)}
  <1>1. n \in Nat /\ DOMAIN f = 1..n /\ \A i \in 1..n : f[i] \in Nat
    BY LenProperties
  <1>2. C \in SUBSET Nat /\ \A k \in C : k \in 0..n /\ ~Bounded(k)
    BY <1>1
  <1>3. \A k \in 0..n : k \notin C => Bounded(k)
    OBVIOUS
  <1>4. Bounded(0)
    <2>1. 0 \in Nat /\ \A i \in 1..0 : f[i] <= 0
      OBVIOUS
    <2>2. QED
      BY <2>1
  <1>5. ASSUME NEW m \in 1..n, Bounded(m - 1) PROVE Bounded(m)
    <2>1. PICK b \in Nat : \A i \in 1..(m - 1) : f[i] <= b
      BY <1>5
    <2>2. f[m] \in Nat
      BY <1>1
    <2> DEFINE d == b + f[m]
    <2>3. d \in Nat /\ b <= d /\ f[m] <= d
      BY <2>2
    <2>4. ASSUME NEW i \in 1..m PROVE f[i] <= d
      <3>1. i \in 1..n /\ (i \in 1..(m - 1) \/ i = m)
        BY <1>1
      <3>2. f[i] \in Nat
        BY <1>1, <3>1
      <3> HIDE DEF d
      <3>3. CASE i = m
        BY <2>3, <3>3
      <3>4. CASE i \in 1..(m - 1)
        <4>1. f[i] <= b
          BY <2>1, <3>4
        <4>2. QED
          BY <2>3, <3>2, <4>1
      <3>5. QED
        BY <3>1, <3>3, <3>4
    <2> HIDE DEF d
    <2>5. QED
      BY <2>3, <2>4
  <1> HIDE DEF C, Bounded, n
  <1>6. ASSUME C # {} PROVE FALSE
    <2>1. PICK m \in C : \A k \in C : m <= k
      BY <1>2, <1>6, LeastNumber
    <2>2. m \in 0..n /\ ~Bounded(m)
      BY <1>2
    <2>3. m \in 1..n /\ m - 1 \in 0..n
      BY <1>1, <1>4, <2>2
    <2>4. m - 1 \notin C
      BY <1>2, <2>1, <2>3
    <2>5. QED
      BY <1>3, <1>5, <2>2, <2>3, <2>4
  <1>7. n \in 0..n
    BY <1>1
  <1>8. Bounded(n)
    BY <1>3, <1>6, <1>7
  <1>9. QED
    BY <1>1, <1>8 DEF Bounded

-----------------------------------------------------------------------------
(* Progress: what the runner holds of its plan, in memory or in its file.  *)

Fits(p) ==
    /\ p \in Progress /\ DOMAIN p.completed = DOMAIN p.plan
    /\ \A i \in DOMAIN p.plan : p.completed[i] <= p.plan[i].target

LEMMA ChunkTypes ==
    ASSUME NEW p, Fits(p)
    PROVE  /\ p.plan \in Seq([class : Classes, target : Nat])
           /\ p.completed \in Seq(Nat)
           /\ p.status \in {"none", "torn", "running", "paused", "complete"}
           /\ p.last \in [Targets -> 0..Longest]
           /\ DOMAIN p.plan \in SUBSET Nat
           /\ DOMAIN p.completed = DOMAIN p.plan
           /\ \A i \in DOMAIN p.plan :
                /\ p.plan[i] \in [class : Classes, target : Nat]
                /\ p.plan[i].class \in Classes /\ p.plan[i].target \in Nat
                /\ p.completed[i] \in Nat
  <1>1. /\ p.plan \in Seq([class : Classes, target : Nat])
        /\ p.completed \in Seq(Nat)
        /\ p.status \in {"none", "torn", "running", "paused", "complete"}
        /\ p.last \in [Targets -> 0..Longest]
        /\ DOMAIN p.completed = DOMAIN p.plan
    BY DEF Fits, Progress
  <1>2. /\ DOMAIN p.plan = 1..Len(p.plan) /\ Len(p.plan) \in Nat
        /\ p.plan \in [1..Len(p.plan) -> [class : Classes, target : Nat]]
        /\ p.completed \in [1..Len(p.completed) -> Nat]
        /\ DOMAIN p.completed = 1..Len(p.completed)
    BY <1>1, LenProperties
  <1>3. ASSUME NEW i \in DOMAIN p.plan
        PROVE  /\ p.plan[i] \in [class : Classes, target : Nat]
               /\ p.completed[i] \in Nat
    BY <1>1, <1>2
  <1>4. QED
    BY SMTT(60), <1>1, <1>2, <1>3

LEMMA EpisodesFinite ==
    ASSUME NEW p, Fits(p), NEW c
    PROVE  /\ IsFiniteSet(Episodes(p.plan, p.completed, c))
           /\ Done(p, c) \in Nat
  <1> DEFINE E == Episodes(p.plan, p.completed, c)
             D == DOMAIN p.plan
  <1>1. PICK b \in Nat : \A i \in DOMAIN p.completed : p.completed[i] <= b
    BY ChunkTypes, BoundedSequence
  <1>2. D = 1..Len(p.plan) /\ Len(p.plan) \in Nat
    BY ChunkTypes, LenProperties
  <1>3. IsFiniteSet(D) /\ IsFiniteSet(1..b)
    BY <1>2, FS_Interval
  <1>4. IsFiniteSet(D \X (1..b))
    BY <1>3, FS_Product
  <1>5. ASSUME NEW e \in E PROVE e \in D \X (1..b)
    <2>1. PICK i \in D : e \in {i} \X (1..p.completed[i])
      BY <1>5 DEF Episodes
    <2>2. p.completed[i] \in Nat /\ p.completed[i] <= b
      BY <1>1, ChunkTypes
    <2>3. PICK k \in 1..p.completed[i] : e = <<i, k>>
      BY <2>1
    <2>4. k \in 1..b
      BY <2>2
    <2>5. QED
      BY <2>3, <2>4
  <1>6. E \in SUBSET (D \X (1..b))
    BY <1>5
  <1>7. IsFiniteSet(E)
    BY <1>4, <1>6, FS_Subset
  <1>8. QED
    BY <1>7, FS_CardinalityType DEF Done

\* One episode more of the chunk at work.
LEMMA OneMore ==
    ASSUME NEW p, Fits(p), NEW i \in DOMAIN p.plan, NEW q,
           q.plan = p.plan,
           q.completed = [p.completed EXCEPT ![i] = p.completed[i] + 1],
           NEW c
    PROVE  Done(q, c) = Done(p, c) + (IF c = p.plan[i].class THEN 1 ELSE 0)
  <1> DEFINE E == Episodes(p.plan, p.completed, c)
             F == Episodes(p.plan, q.completed, c)
             x == <<i, p.completed[i] + 1>>
  <1>1. /\ \A k \in DOMAIN p.plan : p.completed[k] \in Nat
        /\ DOMAIN p.completed = DOMAIN p.plan
    BY ChunkTypes
  <1>2. \A k \in DOMAIN p.plan :
            q.completed[k] = IF k = i THEN p.completed[i] + 1 ELSE p.completed[k]
    BY <1>1
  <1>3. IsFiniteSet(E) /\ Done(p, c) \in Nat /\ Done(p, c) = Cardinality(E)
    BY EpisodesFinite DEF Done
  <1>4. Done(q, c) = Cardinality(F)
    BY DEF Done
  <1>5. \A e : e \in E <=> \E k \in DOMAIN p.plan : p.plan[k].class = c
                            /\ \E m \in 1..p.completed[k] : e = <<k, m>>
    BY DEF Episodes
  <1>6. \A e : e \in F <=> \E k \in DOMAIN p.plan : p.plan[k].class = c
                            /\ \E m \in 1..q.completed[k] : e = <<k, m>>
    BY DEF Episodes
  <1>7. 1..(p.completed[i] + 1) = (1..p.completed[i]) \cup {p.completed[i] + 1}
    BY <1>1
  <1> HIDE DEF E, F
  <1>8. CASE c # p.plan[i].class
    <2>1. \A e : e \in E <=> e \in F
      BY <1>2, <1>5, <1>6, <1>8
    <2>2. E = F
      BY <2>1
    <2>3. QED
      BY <1>3, <1>4, <1>8, <2>2
  <1>9. CASE c = p.plan[i].class
    <2>1. x \notin E
      <3>1. ASSUME x \in E PROVE FALSE
        <4>1. PICK k \in DOMAIN p.plan : \E m \in 1..p.completed[k] : x = <<k, m>>
          BY <1>5, <3>1
        <4>2. PICK m \in 1..p.completed[k] : x = <<k, m>>
          BY <4>1
        <4>3. k = i /\ m = p.completed[i] + 1
          BY <4>2
        <4>4. QED
          BY <1>1, <4>2, <4>3
      <3>2. QED
        BY <3>1
    <2>2. ASSUME NEW e \in F PROVE e \in E \cup {x}
      <3>0. PICK k \in DOMAIN p.plan : p.plan[k].class = c
                /\ \E m \in 1..q.completed[k] : e = <<k, m>>
        BY <1>6
      <3>1. PICK m \in 1..q.completed[k] : p.plan[k].class = c /\ e = <<k, m>>
        BY <3>0
      <3>2. CASE k = i
        <4>1. m \in 1..p.completed[i] \/ m = p.completed[i] + 1
          BY <1>2, <1>7, <3>1, <3>2
        <4>2. QED
          BY <1>5, <3>1, <3>2, <4>1
      <3>3. CASE k # i
        BY <1>2, <1>5, <3>1, <3>3
      <3>4. QED
        BY <3>2, <3>3
    <2>3. ASSUME NEW e \in E PROVE e \in F
      <3>0. PICK k \in DOMAIN p.plan : p.plan[k].class = c
                /\ \E m \in 1..p.completed[k] : e = <<k, m>>
        BY <1>5
      <3>1. PICK m \in 1..p.completed[k] : p.plan[k].class = c /\ e = <<k, m>>
        BY <3>0
      <3>2. m \in 1..q.completed[k]
        BY <1>1, <1>2, <1>7
      <3>3. QED
        BY <1>6, <3>1, <3>2
    <2>4. x \in F
      <3>1. p.completed[i] + 1 \in 1..q.completed[i]
        BY <1>1, <1>2
      <3>2. QED
        BY <1>6, <1>9, <3>1
    <2>5. F = E \cup {x}
      BY <2>2, <2>3, <2>4
    <2>6. Cardinality(F) = Cardinality(E) + 1
      BY <1>3, <2>1, <2>5, FS_AddElement
    <2>7. QED
      BY <1>3, <1>4, <1>9, <2>6
  <1>10. QED
    BY <1>8, <1>9

\* Only what a plan and its counts say matters for Done.
LEMMA SameDone ==
    ASSUME NEW p, NEW q, q.plan = p.plan, q.completed = p.completed
    PROVE  \A c : Done(q, c) = Done(p, c)
  BY DEF Done

\* A plan that has not begun.
LEMMA NewPlanFits ==
    ASSUME NEW items \in Seq([class : Classes, target : Nat])
    PROVE  /\ Fits(NewPlan(items))
           /\ NewPlan(items).plan = items
           /\ NewPlan(items).status = "running"
           /\ NewPlan(items).last = [t \in Targets |-> Longest]
           /\ \A c : Done(NewPlan(items), c) = 0
  <1> DEFINE zero == [i \in DOMAIN items |-> 0]
             last == [t \in Targets |-> Longest]
             p == NewPlan(items)
  <1>1. p = [plan |-> items, completed |-> zero, status |-> "running", last |-> last]
    BY DEF NewPlan
  <1>2. DOMAIN items = 1..Len(items) /\ Len(items) \in Nat
    BY LenProperties
  <1>3. zero \in Seq(Nat)
    BY <1>2
  <1>4. last \in [Targets -> 0..Longest]
    BY BatchAssumption
  <1>5. DOMAIN zero = DOMAIN items /\ \A i \in DOMAIN items : zero[i] = 0
    OBVIOUS
  <1>6. \A i \in DOMAIN items : items[i].target \in Nat
    <2>1. items \in [1..Len(items) -> [class : Classes, target : Nat]]
      BY LenProperties
    <2>2. \A i \in 1..Len(items) : items[i] \in [class : Classes, target : Nat]
      BY <2>1
    <2>3. QED
      BY <1>2, <2>2
  <1> HIDE DEF zero, last
  <1>7. Fits(p)
    <2>1. p \in Progress
      BY <1>1, <1>3, <1>4 DEF Progress
    <2>2. QED
      BY <1>1, <1>5, <1>6, <2>1 DEF Fits
  <1>8. \A c : Done(p, c) = 0
    <2>1. ASSUME NEW c PROVE Done(p, c) = 0
      <3>1. Episodes(items, zero, c) = {}
        BY <1>5 DEF Episodes
      <3>2. p.plan = items /\ p.completed = zero
        BY <1>1
      <3>3. Cardinality({}) = 0
        BY FS_EmptySet
      <3> HIDE DEF p
      <3>4. QED
        BY <3>1, <3>2, <3>3 DEF Done
    <2>2. QED
      BY <2>1
  <1>9. QED
    BY <1>1, <1>7, <1>8 DEF last

LEMMA NoPlanFits ==
    /\ Fits(NoPlan) /\ Fits(NoFile) /\ Fits(Torn)
    /\ NoFile.status = "none" /\ Torn.status = "torn"
    /\ \A c : Done(NoPlan, c) = 0 /\ Done(NoFile, c) = 0 /\ Done(Torn, c) = 0
  <1>1. << >> \in Seq([class : Classes, target : Nat])
    OBVIOUS
  <1>2. Fits(NoPlan) /\ \A c : Done(NoPlan, c) = 0
    BY <1>1, NewPlanFits DEF NoPlan
  <1>3. ASSUME NEW s \in {"none", "torn"}
        PROVE  /\ Fits([NoPlan EXCEPT !.status = s])
               /\ [NoPlan EXCEPT !.status = s].status = s
               /\ \A c : Done([NoPlan EXCEPT !.status = s], c) = 0
    <2> DEFINE q == [NoPlan EXCEPT !.status = s]
    <2>1. NoPlan \in Progress
      BY <1>2 DEF Fits
    <2>2. q \in Progress /\ q.plan = NoPlan.plan /\ q.completed = NoPlan.completed
          /\ q.status = s
      BY <2>1 DEF Progress
    <2> HIDE DEF q
    <2>3. QED
      BY <1>2, <2>2, SameDone DEF Fits, q
  <1>4. QED
    BY <1>2, <1>3 DEF NoFile, Torn

\* A change of the status, or of the time of the last faults.
LEMMA StatusFits ==
    ASSUME NEW p, Fits(p), NEW s \in {"paused", "complete"}
    PROVE  LET q == [p EXCEPT !.status = s] IN
           /\ Fits(q) /\ q.plan = p.plan /\ q.completed = p.completed
           /\ q.last = p.last /\ q.status = s
  <1> DEFINE q == [p EXCEPT !.status = s]
  <1>1. p \in Progress
    BY DEF Fits
  <1>2. q \in Progress /\ q.plan = p.plan /\ q.completed = p.completed
        /\ q.last = p.last /\ q.status = s
    BY <1>1 DEF Progress
  <1>3. Fits(q)
    <2> HIDE DEF q
    <2>1. QED
      BY <1>2 DEF Fits
  <1>4. QED
    BY <1>2, <1>3

LEMMA LastFits ==
    ASSUME NEW p, Fits(p), NEW l \in [Targets -> 0..Longest]
    PROVE  LET q == [p EXCEPT !.last = l] IN
           /\ Fits(q) /\ q.plan = p.plan /\ q.completed = p.completed
           /\ q.last = l /\ q.status = p.status
  <1> DEFINE q == [p EXCEPT !.last = l]
  <1>1. p \in Progress
    BY DEF Fits
  <1>2. q \in Progress /\ q.plan = p.plan /\ q.completed = p.completed
        /\ q.last = l /\ q.status = p.status
    BY <1>1 DEF Progress
  <1>3. Fits(q)
    <2> HIDE DEF q
    <2>1. QED
      BY <1>2 DEF Fits
  <1>4. QED
    BY <1>2, <1>3

-----------------------------------------------------------------------------
(* Attempts.                                                               *)

LEMMA IndexSet ==
    ASSUME NEW R \in Seq(Row), NEW S \in SUBSET DOMAIN R
    PROVE  /\ DOMAIN R = 1..Len(R) /\ Len(R) \in Nat
           /\ \A r \in DOMAIN R : R[r] \in Row
           /\ S \in SUBSET Nat
           /\ IsFiniteSet(S) /\ Cardinality(S) \in Nat
           /\ S # {} => Max(S) \in S /\ \A k \in S : k <= Max(S)
  <1>1. DOMAIN R = 1..Len(R) /\ Len(R) \in Nat /\ R \in [1..Len(R) -> Row]
    BY LenProperties
  <1>2. S \in SUBSET (1..Len(R)) /\ S \in SUBSET Nat
    BY <1>1
  <1>3. IsFiniteSet(1..Len(R))
    BY <1>1, FS_Interval
  <1>4. IsFiniteSet(S) /\ Cardinality(S) \in Nat
    BY <1>2, <1>3, FS_Subset, FS_CardinalityType
  <1>5. S # {} => Max(S) \in S /\ \A k \in S : k <= Max(S)
    BY <1>1, <1>2, LargestIndex
  <1>6. \A r \in DOMAIN R : R[r] \in Row
    BY <1>1
  <1>7. QED
    BY <1>1, <1>2, <1>4, <1>5, <1>6

\* An attempt stays what it is, and what was recorded stays recorded.
Grows ==
    \A r \in DOMAIN rows :
        /\ r \in DOMAIN rows'
        /\ rows'[r].class = rows[r].class /\ rows'[r].by = rows[r].by
        /\ rows[r].recorded => rows'[r].recorded

LEMMA MadeTypes ==
    ASSUME rows \in Seq(Row)
    PROVE  \A c : /\ IsFiniteSet(Made(c))
                  /\ Cardinality(Made(c)) \in Nat
  <1>1. \A c : Made(c) \in SUBSET DOMAIN rows
    BY DEF Made, Batch
  <1>2. QED
    BY <1>1, IndexSet

LEMMA MadeGrows ==
    ASSUME rows \in Seq(Row), rows' \in Seq(Row), Grows, NEW c
    PROVE  /\ Made(c) \subseteq Made(c)'
           /\ Cardinality(Made(c)) <= Cardinality(Made(c)')
           /\ Cardinality(Made(c)) \in Nat /\ Cardinality(Made(c)') \in Nat
  <1>1. Made(c) \in SUBSET DOMAIN rows /\ Made(c)' \in SUBSET DOMAIN rows'
    BY DEF Made, Batch
  <1>2. Made(c) \subseteq Made(c)'
    BY DEF Made, Batch, Grows
  <1>3. /\ IsFiniteSet(Made(c)) /\ Cardinality(Made(c)) \in Nat
        /\ IsFiniteSet(Made(c)') /\ Cardinality(Made(c)') \in Nat
    BY <1>1, IndexSet
  <1>4. Cardinality(Made(c)) <= Cardinality(Made(c)')
    BY <1>2, <1>3, FS_Subset
  <1>5. QED
    BY <1>2, <1>3, <1>4

LEMMA AppendedRow ==
    ASSUME rows \in Seq(Row), NEW c \in Classes, NEW by \in {"batch", "live"},
           rows' = Append(rows, Attempt(c, by))
    PROVE  /\ rows' \in Seq(Row) /\ Grows
           /\ Len(rows) \in Nat /\ DOMAIN rows = 1..Len(rows)
           /\ DOMAIN rows' = DOMAIN rows \cup {Len(rows) + 1}
           /\ \A r \in DOMAIN rows : rows'[r] = rows[r]
           /\ rows'[Len(rows) + 1] = Attempt(c, by)
  <1> DEFINE n == Len(rows) + 1
  <1>1. Attempt(c, by) \in Row
    BY DEF Attempt, Row
  <1>2. Len(rows) \in Nat /\ DOMAIN rows = 1..Len(rows)
    BY LenProperties
  <1>3. /\ rows' \in Seq(Row) /\ Len(rows') = n
        /\ \A i \in 1..Len(rows) : rows'[i] = rows[i]
        /\ rows'[n] = Attempt(c, by)
    BY <1>1, AppendProperties
  <1>4. DOMAIN rows' = 1..n
    BY <1>3, LenProperties
  <1>5. 1..n = (1..Len(rows)) \cup {n}
    BY <1>2
  <1>6. Grows
    BY <1>2, <1>3, <1>4, <1>5 DEF Grows
  <1>7. QED
    BY <1>2, <1>3, <1>4, <1>5, <1>6

LEMMA RecordedRow ==
    ASSUME rows \in Seq(Row), NEW q \in DOMAIN rows, NEW late \in BOOLEAN,
           rows' = Recorded(q, late)
    PROVE  /\ rows' \in Seq(Row) /\ Grows
           /\ DOMAIN rows' = DOMAIN rows
           /\ \A r \in DOMAIN rows : r # q => rows'[r] = rows[r]
           /\ rows'[q].recorded = TRUE /\ rows'[q].old = late
           /\ rows'[q].scored = rows[q].scored
           /\ rows'[q].class = rows[q].class /\ rows'[q].by = rows[q].by
  <1> DEFINE x == [rows[q] EXCEPT !.recorded = TRUE, !.old = late]
  <1>1. /\ DOMAIN rows = 1..Len(rows) /\ Len(rows) \in Nat
        /\ \A r \in DOMAIN rows : rows[r] \in Row
    BY IndexSet
  <1>2. /\ x \in Row /\ x.recorded = TRUE /\ x.old = late
        /\ x.scored = rows[q].scored /\ x.class = rows[q].class
        /\ x.by = rows[q].by
    BY <1>1 DEF Row
  <1>3. rows' = [rows EXCEPT ![q] = x]
    BY DEF Recorded
  <1> HIDE DEF x
  <1>4. /\ rows' \in Seq(Row) /\ DOMAIN rows' = DOMAIN rows
        /\ rows'[q] = x /\ \A r \in DOMAIN rows : r # q => rows'[r] = rows[r]
    BY <1>1, <1>2, <1>3
  <1>5. Grows
    BY <1>2, <1>4 DEF Grows
  <1>6. QED
    BY <1>2, <1>4, <1>5

LEMMA ScoredRows ==
    ASSUME rows \in Seq(Row), NEW S, rows' = Score(S)
    PROVE  /\ rows' \in Seq(Row) /\ Grows
           /\ DOMAIN rows' = DOMAIN rows
           /\ \A r \in DOMAIN rows :
                /\ rows'[r].recorded = rows[r].recorded
                /\ rows'[r].old = rows[r].old
                /\ rows'[r].class = rows[r].class /\ rows'[r].by = rows[r].by
                /\ rows'[r].scored = (rows[r].scored \/ r \in S)
  <1> DEFINE x(r) == [rows[r] EXCEPT !.scored = rows[r].scored \/ r \in S]
  <1>1. /\ DOMAIN rows = 1..Len(rows) /\ Len(rows) \in Nat
        /\ \A r \in DOMAIN rows : rows[r] \in Row
    BY IndexSet
  <1>2. ASSUME NEW r \in DOMAIN rows
        PROVE  /\ x(r) \in Row /\ x(r).recorded = rows[r].recorded
               /\ x(r).old = rows[r].old /\ x(r).class = rows[r].class
               /\ x(r).by = rows[r].by
               /\ x(r).scored = (rows[r].scored \/ r \in S)
    <2>1. rows[r] \in Row /\ (rows[r].scored \/ r \in S) \in BOOLEAN
      BY <1>1
    <2>2. QED
      BY <2>1 DEF Row
  <1>3. rows' = [r \in DOMAIN rows |-> x(r)]
    BY DEF Score
  <1> HIDE DEF x
  <1>4. /\ rows' \in [1..Len(rows) -> Row] /\ DOMAIN rows' = DOMAIN rows
        /\ \A r \in DOMAIN rows : rows'[r] = x(r)
    BY <1>1, <1>2, <1>3
  <1>5. rows' \in Seq(Row)
    BY <1>1, <1>4
  <1>6. Grows
    BY <1>2, <1>4 DEF Grows
  <1>7. QED
    BY <1>2, <1>4, <1>5, <1>6

-----------------------------------------------------------------------------
(* The invariant, step by step. First what its parts say of the state.     *)

LEMMA Typed ==
    ASSUME TypeOK
    PROVE  /\ Fits(mem) /\ Fits(file) /\ rows \in Seq(Row)
           /\ age \in [Targets -> 0..Longest]
  BY DEF TypeOK, Fits

LEMMA TypedNext ==
    ASSUME Fits(mem'), Fits(file'), rows' \in Seq(Row),
           pc' \in {"off", "write", "baseline", "select", "recency", "inject",
                    "score", "count", "pause", "archive"},
           then' \in {"none", "baseline", "off", "select", "pause", "archive"},
           stop' \in BOOLEAN, mark' \in Nat,
           orphans' \subseteq ((DOMAIN rows') \X {"injector", "scorer"}),
           age' \in [Targets -> 0..Longest],
           starts' \in 0..MaxStarts, kills' \in 0..MaxKills
    PROVE  TypeOK'
  <1>1. \A p \in {mem', file'} : Fits(p)
    OBVIOUS
  <1>2. \A p \in {mem', file'} :
            /\ p \in Progress /\ DOMAIN p.completed = DOMAIN p.plan
            /\ \A i \in DOMAIN p.plan : p.completed[i] <= p.plan[i].target
    BY <1>1 DEF Fits
  <1>3. QED
    BY <1>2 DEF TypeOK

LEMMA ChunkAtWork ==
    ASSUME TypeOK, Open # {}
    PROVE  /\ idx \in DOMAIN mem.plan
           /\ mem.completed[idx] < mem.plan[idx].target
           /\ class = mem.plan[idx].class /\ class \in Classes
           /\ target \in Targets
  <1>1. Fits(mem)
    BY Typed
  <1>2. Open \in SUBSET Nat
    BY <1>1, ChunkTypes DEF Open
  <1>3. idx \in Open
    BY <1>2, SmallestIndex DEF idx
  <1>4. idx \in DOMAIN mem.plan /\ mem.completed[idx] < mem.plan[idx].target
    BY <1>3 DEF Open
  <1>5. class = mem.plan[idx].class /\ class \in Classes
    BY <1>1, <1>4, ChunkTypes DEF class
  <1>6. QED
    BY <1>4, <1>5 DEF target, Targets

LEMMA OwnAttempt ==
    ASSUME TypeOK
    PROVE  /\ Mine \in Nat /\ IsFiniteSet(Batch) /\ Batch \in SUBSET Nat
           /\ Batch \in SUBSET DOMAIN rows
           /\ Batch # {} => Own \in Batch /\ \A k \in Batch : k <= Own
  <1>1. rows \in Seq(Row) /\ Batch \in SUBSET DOMAIN rows
    BY Typed DEF Batch
  <1>2. QED
    BY <1>1, IndexSet DEF Mine, Own

\* The same plan and the same counts: the same chunk is at work.
LEMMA SameChunk ==
    ASSUME mem'.plan = mem.plan, mem'.completed = mem.completed
    PROVE  Open' = Open /\ idx' = idx /\ class' = class /\ target' = target
  <1>1. Open' = Open
    BY DEF Open
  <1>2. idx' = idx
    BY <1>1 DEF idx
  <1>3. class' = class
    BY <1>2 DEF class
  <1>4. QED
    BY <1>1, <1>2, <1>3 DEF target

LEMMA SameRows ==
    ASSUME rows' = rows
    PROVE  /\ Batch' = Batch /\ Mine' = Mine /\ Own' = Own /\ Unscored' = Unscored
           /\ \A c : Made(c)' = Made(c)
  <1>1. Batch' = Batch
    BY DEF Batch
  <1>2. QED
    BY <1>1 DEF Mine, Own, Unscored, Made

-----------------------------------------------------------------------------
(* Steps around the runner: they leave the runner alone, and the attempt   *)
(* it has at work as it was.                                               *)

LEMMA AroundKept ==
    ASSUME BatchInv, RunnerUnchanged, rows' \in Seq(Row), Grows,
           Batch' = Batch, orphans' \subseteq orphans,
           age' \in [Targets -> 0..Longest], orphans = {} => age' = age,
           pc \in {"inject", "score", "count"} =>
                rows'[Own].recorded = rows[Own].recorded
    PROVE  BatchInv'
  <1> USE DEF BatchInv
  <1>1. /\ pc' = pc /\ then' = then /\ mem' = mem /\ file' = file
        /\ stop' = stop /\ mark' = mark /\ starts' = starts /\ kills' = kills
    BY DEF RunnerUnchanged
  <1>2. Fits(mem) /\ Fits(file) /\ rows \in Seq(Row)
    BY Typed
  <1>3. Open' = Open /\ idx' = idx /\ class' = class
    BY <1>1, SameChunk
  <1>4. Mine' = Mine /\ Own' = Own
    BY DEF Mine, Own
  <1>5. \A c : /\ Cardinality(Made(c)) <= Cardinality(Made(c)')
               /\ Cardinality(Made(c)) \in Nat /\ Cardinality(Made(c)') \in Nat
    BY <1>2, MadeGrows
  <1>6. \A c : Done(mem, c) \in Nat /\ Done(file, c) \in Nat
    BY <1>2, EpisodesFinite
  <1>7. TypeOK'
    <2>1. DOMAIN rows \subseteq DOMAIN rows'
      BY DEF Grows
    <2>2. orphans' \subseteq ((DOMAIN rows') \X {"injector", "scorer"})
      BY <2>1 DEF TypeOK
    <2>3. QED
      BY <1>1, <1>2, <2>2, TypedNext DEF TypeOK
  <1>8. PlanIsComplete'
    BY <1>1 DEF PlanIsComplete
  <1>9. ProgressIsReal'
    <2>1. ASSUME NEW c \in Classes PROVE Done(file, c) <= Cardinality(Made(c)')
      <3>1. Done(file, c) <= Cardinality(Made(c))
        BY DEF ProgressIsReal
      <3>2. QED
        BY <1>5, <1>6, <3>1
    <2>2. QED
      BY <1>1, <2>1 DEF ProgressIsReal
  <1>10. AtWork'
    <2>1. pc \in {"inject", "score", "count"} =>
                /\ Own \in DOMAIN rows /\ rows'[Own].class = rows[Own].class
      BY OwnAttempt DEF AtWork, Grows
    <2>2. QED
      BY <1>1, <1>3, <1>4, <2>1 DEF AtWork
  <1>11. MemoryIsReal'
    <2>1. ASSUME pc # "off", NEW c \in Classes
          PROVE  Done(mem, c) + (IF pc \in {"score", "count"} /\ c = class
                                 THEN 1 ELSE 0) <= Cardinality(Made(c)')
      <3> DEFINE d == IF pc \in {"score", "count"} /\ c = class THEN 1 ELSE 0
      <3>1. Done(mem, c) + d <= Cardinality(Made(c)) /\ d \in Nat
        BY <2>1 DEF MemoryIsReal
      <3> HIDE DEF d
      <3>2. Done(mem, c) + d <= Cardinality(Made(c)')
        BY <1>5, <1>6, <3>1
      <3>3. QED
        BY <3>2 DEF d
    <2>2. QED
      BY <1>1, <1>3, <2>1 DEF MemoryIsReal
  <1>12. FaultsKnown'
    BY <1>1 DEF FaultsKnown
  <1>13. Stopping'
    BY <1>1, <1>4 DEF Stopping
  <1>14. QED
    BY <1>7, <1>8, <1>9, <1>10, <1>11, <1>12, <1>13

LEMMA OrphanInjectorKept ==
    ASSUME BatchInv, NEW r \in DOMAIN rows, OrphanInjector(r)
    PROVE  BatchInv'
  <1> USE DEF BatchInv
  <1>1. rows \in Seq(Row) /\ age \in [Targets -> 0..Longest]
    BY Typed
  <1>2. <<r, "injector">> \in orphans /\ orphans' \subseteq orphans /\ RunnerUnchanged
    BY DEF OrphanInjector
  <1>3. CASE UNCHANGED <<rows, age>>
    <2>1. Grows
      BY <1>3 DEF Grows
    <2>2. Batch' = Batch /\ Own' = Own
      BY <1>3, SameRows
    <2>3. QED
      BY <1>1, <1>2, <1>3, <2>1, <2>2, AroundKept
  <1>4. CASE /\ rows' = Recorded(r, FALSE)
             /\ age' = [age EXCEPT ![TargetOf[rows[r].class]] = 0]
    <2>1. /\ rows' \in Seq(Row) /\ Grows /\ DOMAIN rows' = DOMAIN rows
          /\ \A q \in DOMAIN rows : q # r => rows'[q] = rows[q]
      BY <1>1, <1>4, RecordedRow
    <2>2. Batch' = Batch
      BY <2>1 DEF Batch, Grows
    <2>3. age' \in [Targets -> 0..Longest]
      <3>1. 0 \in 0..Longest
        BY BatchAssumption
      <3>2. QED
        BY <1>1, <1>4, <3>1
    <2>4. pc \in {"inject", "score", "count"} =>
                rows'[Own].recorded = rows[Own].recorded
      <3>1. pc \in {"inject", "score", "count"} => Own \in DOMAIN rows /\ Own # r
        BY <1>2, OwnAttempt DEF AtWork
      <3>2. QED
        BY <2>1, <3>1
    <2>5. QED
      BY <1>2, <2>1, <2>2, <2>3, <2>4, AroundKept
  <1>5. QED
    BY <1>3, <1>4 DEF OrphanInjector

LEMMA ScoredKept ==
    ASSUME BatchInv, RunnerUnchanged, age' = age, orphans' \subseteq orphans,
           NEW S, rows' = Score(S)
    PROVE  BatchInv'
  <1> USE DEF BatchInv
  <1>1. rows \in Seq(Row) /\ age \in [Targets -> 0..Longest]
    BY Typed
  <1>2. /\ rows' \in Seq(Row) /\ Grows /\ DOMAIN rows' = DOMAIN rows
        /\ \A q \in DOMAIN rows : rows'[q].recorded = rows[q].recorded
    BY <1>1, ScoredRows
  <1>3. Batch' = Batch
    BY <1>2 DEF Batch, Grows
  <1>4. pc \in {"inject", "score", "count"} =>
            rows'[Own].recorded = rows[Own].recorded
    BY <1>2, OwnAttempt DEF AtWork
  <1>5. QED
    BY <1>1, <1>2, <1>3, <1>4, AroundKept

LEMMA LiveStartsKept ==
    ASSUME BatchInv, LiveStarts
    PROVE  BatchInv'
  <1> USE DEF BatchInv
  <1>1. rows \in Seq(Row) /\ age \in [Targets -> 0..Longest]
    BY Typed
  <1>2. /\ pc \in {"recency", "inject"} /\ rows' = Append(rows, Attempt(class, "live"))
        /\ RunnerUnchanged /\ orphans' = orphans /\ age' = age
    BY DEF LiveStarts
  <1>3. class \in Classes
    BY <1>2, ChunkAtWork DEF AtWork
  <1>4. /\ rows' \in Seq(Row) /\ Grows
        /\ DOMAIN rows' = DOMAIN rows \cup {Len(rows) + 1}
        /\ \A r \in DOMAIN rows : rows'[r] = rows[r]
        /\ rows'[Len(rows) + 1] = Attempt(class, "live")
    BY <1>1, <1>2, <1>3, AppendedRow
  <1>5. rows'[Len(rows) + 1].by = "live"
    BY <1>4 DEF Attempt
  <1>6. Batch' = Batch
    BY <1>4, <1>5 DEF Batch
  <1>7. pc \in {"inject", "score", "count"} =>
            rows'[Own].recorded = rows[Own].recorded
    BY <1>4, OwnAttempt DEF AtWork
  <1>8. QED
    BY <1>1, <1>2, <1>4, <1>6, <1>7, AroundKept

LEMMA LiveRecordsKept ==
    ASSUME BatchInv, NEW r \in Live, LiveRecords(r)
    PROVE  BatchInv'
  <1> USE DEF BatchInv
  <1>1. rows \in Seq(Row) /\ age \in [Targets -> 0..Longest]
    BY Typed
  <1>2. /\ rows' = Recorded(r, FALSE) /\ r \in DOMAIN rows /\ rows[r].by = "live"
        /\ RunnerUnchanged /\ orphans' = orphans /\ age' = age
    BY DEF LiveRecords, Live
  <1>3. /\ rows' \in Seq(Row) /\ Grows /\ DOMAIN rows' = DOMAIN rows
        /\ \A q \in DOMAIN rows : q # r => rows'[q] = rows[q]
    BY <1>1, <1>2, RecordedRow
  <1>4. Batch' = Batch
    BY <1>3 DEF Batch, Grows
  <1>5. pc \in {"inject", "score", "count"} => Own \in Batch /\ Own # r
    BY <1>2, OwnAttempt DEF AtWork, Batch
  <1>6. pc \in {"inject", "score", "count"} =>
            rows'[Own].recorded = rows[Own].recorded
    BY <1>3, <1>5 DEF Batch
  <1>7. QED
    BY <1>1, <1>2, <1>3, <1>4, <1>6, AroundKept

-----------------------------------------------------------------------------
(* Steps of the runner.                                                    *)

\* _save_plan: the same plan, and no more progress than there is.
LEMMA SaveKept ==
    ASSUME BatchInv, NEW p, Fits(p), p.plan = mem.plan, p.last = mem.last,
           NEW next \in {"baseline", "off", "select", "pause", "archive"},
           SavePlan(p, next), pc # "off",
           \A c \in Classes : Done(p, c) <= Cardinality(Made(c)),
           stop => next \in {"pause", "off"},
           UNCHANGED <<rows, orphans, age, stop, mark, starts, kills>>
    PROVE  BatchInv'
  <1> USE DEF BatchInv
  <1>1. mem' = p /\ file' = Torn /\ pc' = "write" /\ then' = next
    BY DEF SavePlan
  <1>2. /\ Batch' = Batch /\ Mine' = Mine /\ Own' = Own
        /\ \A c : Made(c)' = Made(c)
    BY SameRows
  <1>3. /\ Fits(Torn) /\ Torn.status = "torn" /\ \A c : Done(Torn, c) = 0
    BY NoPlanFits
  <1>4. \A c : Cardinality(Made(c)) \in Nat
    BY Typed, MadeTypes
  <1>5. TypeOK'
    BY <1>1, <1>3, TypedNext DEF TypeOK
  <1>6. PlanIsComplete'
    BY <1>1, <1>3 DEF PlanIsComplete
  <1>7. ProgressIsReal'
    BY <1>1, <1>2, <1>3, <1>4 DEF ProgressIsReal
  <1>8. AtWork'
    BY <1>1, <1>2 DEF AtWork
  <1>9. MemoryIsReal'
    <2>1. \A c \in Classes : Done(p, c) \in Nat
      BY EpisodesFinite
    <2>2. QED
      BY <1>1, <1>2, <1>4, <2>1 DEF MemoryIsReal
  <1>10. FaultsKnown'
    BY <1>1, <1>3 DEF FaultsKnown
  <1>11. Stopping'
    BY <1>1, <1>2 DEF Stopping
  <1>12. QED
    BY <1>5, <1>6, <1>7, <1>8, <1>9, <1>10, <1>11

\* What memory counts is there, also before the attempt at work is counted.
LEMMA MemoryCounts ==
    ASSUME BatchInv, pc # "off"
    PROVE  \A c \in Classes : Done(mem, c) <= Cardinality(Made(c))
  <1> USE DEF BatchInv
  <1>1. ASSUME NEW c \in Classes PROVE Done(mem, c) <= Cardinality(Made(c))
    <2> DEFINE d == IF pc \in {"score", "count"} /\ c = class THEN 1 ELSE 0
    <2>1. Done(mem, c) + d <= Cardinality(Made(c)) /\ d \in Nat
      BY DEF MemoryIsReal
    <2>2. Done(mem, c) \in Nat /\ Cardinality(Made(c)) \in Nat
      BY Typed, EpisodesFinite, MadeTypes
    <2> HIDE DEF d
    <2>3. QED
      BY <2>1, <2>2
  <1>2. QED
    BY <1>1

\* The plan is saved with another status.
LEMMA PausesKept ==
    ASSUME BatchInv, pc \notin {"off", "write"},
           NEW s \in {"paused", "complete"}, NEW next \in {"off", "archive"},
           SavePlan([mem EXCEPT !.status = s], next), stop => next = "off",
           UNCHANGED <<rows, orphans, age, stop, mark, starts, kills>>
    PROVE  BatchInv'
  <1> DEFINE p == [mem EXCEPT !.status = s]
  <1>1. Fits(mem)
    BY Typed DEF BatchInv
  <1>2. /\ Fits(p) /\ p.plan = mem.plan /\ p.completed = mem.completed
        /\ p.last = mem.last
    BY <1>1, StatusFits
  <1> HIDE DEF p
  <1>3. \A c \in Classes : Done(p, c) <= Cardinality(Made(c))
    BY <1>2, MemoryCounts, SameDone
  <1>4. SavePlan(p, next)
    BY DEF p
  <1>5. QED
    BY <1>2, <1>3, <1>4, SaveKept

\* From one point of the loop to the next, nothing else.
LEMMA GotoKept ==
    ASSUME BatchInv, pc \notin {"off", "write"}, ~stop,
           NEW label \in {"select", "recency"}, Goto(label),
           label = "recency" => Open # {},
           UNCHANGED <<rows, orphans, age, stop, mark, starts, kills>>
    PROVE  BatchInv'
  <1> USE DEF BatchInv
  <1>1. pc' = label /\ then' = then /\ mem' = mem /\ file' = file
    BY DEF Goto
  <1>2. /\ Batch' = Batch /\ Mine' = Mine /\ Own' = Own
        /\ \A c : Made(c)' = Made(c)
    BY SameRows
  <1>3. Open' = Open /\ idx' = idx /\ class' = class
    BY <1>1, SameChunk
  <1>4. TypeOK'
    BY <1>1, Typed, TypedNext DEF TypeOK
  <1>5. PlanIsComplete'
    BY <1>1 DEF PlanIsComplete
  <1>6. ProgressIsReal'
    BY <1>1, <1>2 DEF ProgressIsReal
  <1>7. AtWork'
    BY <1>1, <1>2, <1>3 DEF AtWork
  <1>8. MemoryIsReal'
    <2>1. \A c \in Classes : Done(mem, c) <= Cardinality(Made(c)) /\ Done(mem, c) \in Nat
      BY MemoryCounts, Typed, EpisodesFinite
    <2>2. QED
      BY <1>1, <1>2, <2>1 DEF MemoryIsReal
  <1>9. FaultsKnown'
    BY <1>1 DEF FaultsKnown
  <1>10. Stopping'
    BY DEF Stopping
  <1>11. QED
    BY <1>4, <1>5, <1>6, <1>7, <1>8, <1>9, <1>10

\* The process ends, or is killed.
LEMMA ExitKept ==
    ASSUME BatchInv, Exit, pc' = "off", then' = "none",
           UNCHANGED <<rows, age, starts>>,
           orphans' \subseteq ((DOMAIN rows) \X {"injector", "scorer"}),
           \A o \in orphans' : o[2] = "injector" => o[1] \in Batch,
           kills' \in 0..MaxKills, kills' = 0 => kills = 0 /\ orphans' = orphans,
           Fits(file'),
           \A c \in Classes : Done(file', c) <= Cardinality(Made(c)),
           file'.status \in {"running", "paused"} =>
                /\ \A c \in Classes : Ask(file'.plan, c) = Counts[c]
                /\ kills' = 0 => \A t \in Targets : file'.last[t] <= age[t]
    PROVE  BatchInv'
  <1> USE DEF BatchInv
  <1>1. mem' = NoPlan /\ stop' = FALSE /\ mark' = 0
    BY DEF Exit
  <1>2. Batch' = Batch /\ \A c : Made(c)' = Made(c)
    BY SameRows
  <1>3. TypeOK'
    BY <1>1, NoPlanFits, TypedNext DEF TypeOK
  <1>4. PlanIsComplete'
    BY DEF PlanIsComplete
  <1>5. ProgressIsReal'
    BY <1>2 DEF ProgressIsReal
  <1>6. AtWork'
    BY <1>2 DEF AtWork
  <1>7. MemoryIsReal'
    BY DEF MemoryIsReal
  <1>8. FaultsKnown'
    BY DEF FaultsKnown
  <1>9. Stopping'
    BY <1>1 DEF Stopping
  <1>10. QED
    BY <1>3, <1>4, <1>5, <1>6, <1>7, <1>8, <1>9

LEMMA WriteKept ==
    ASSUME BatchInv, Write
    PROVE  BatchInv'
  <1> USE DEF BatchInv
  <1>1. /\ pc = "write" /\ file' = mem /\ pc' = then /\ then' = "none"
        /\ UNCHANGED <<rows, orphans, age, starts, kills>>
    BY DEF Write, ClusterUnchanged
  <1>2. Fits(mem) /\ then # "none"
    BY <1>1, Typed DEF AtWork
  <1>3. \A c \in Classes : Done(mem, c) <= Cardinality(Made(c)) /\ Done(mem, c) \in Nat
    BY <1>1, <1>2, MemoryCounts, EpisodesFinite
  <1>4. CASE then = "off"
    <2>1. Exit
      BY <1>4 DEF Write
    <2>2. /\ \A c \in Classes : Ask(mem.plan, c) = Counts[c]
          /\ kills = 0 => \A t \in Targets : mem.last[t] <= age[t]
      BY <1>1 DEF PlanIsComplete, FaultsKnown
    <2>3. /\ orphans' \subseteq ((DOMAIN rows) \X {"injector", "scorer"})
          /\ \A o \in orphans' : o[2] = "injector" => o[1] \in Batch
          /\ kills' \in 0..MaxKills
      BY <1>1 DEF TypeOK, AtWork
    <2>4. QED
      BY <1>1, <1>2, <1>3, <1>4, <2>1, <2>2, <2>3, ExitKept
  <1>5. CASE then # "off"
    <2>1. UNCHANGED <<mem, stop, mark>>
      BY <1>5 DEF Write
    <2>2. pc' \in {"baseline", "select", "pause", "archive"}
      BY <1>1, <1>2, <1>5 DEF TypeOK
    <2>3. /\ Batch' = Batch /\ Mine' = Mine /\ Own' = Own
          /\ \A c : Made(c)' = Made(c)
      BY <1>1, SameRows
    <2>4. TypeOK'
      BY <1>1, <1>2, <2>1, <2>2, TypedNext DEF TypeOK
    <2>5. PlanIsComplete'
      BY <1>1, <2>1 DEF PlanIsComplete
    <2>6. ProgressIsReal'
      BY <1>1, <1>3, <2>3 DEF ProgressIsReal
    <2>7. AtWork'
      BY <1>1, <2>2, <2>3 DEF AtWork
    <2>8. MemoryIsReal'
      BY <1>3, <2>1, <2>2, <2>3 DEF MemoryIsReal
    <2>9. FaultsKnown'
      BY <1>1, <2>1, <2>2 DEF FaultsKnown
    <2>10. Stopping'
      BY <1>1, <1>5, <2>1, <2>2, <2>3 DEF Stopping
    <2>11. QED
      BY <2>4, <2>5, <2>6, <2>7, <2>8, <2>9, <2>10
  <1>6. QED
    BY <1>4, <1>5

LEMMA StartKept ==
    ASSUME BatchInv, Start
    PROVE  BatchInv'
  <1> USE DEF BatchInv
  <1>1. /\ pc = "off" /\ starts' \in 0..MaxStarts
        /\ UNCHANGED <<stop, mark, rows, orphans, kills>>
    BY BatchAssumption DEF Start, TypeOK
  <1>2. /\ Fits(file) /\ age \in [Targets -> 0..Longest] /\ ~stop
        /\ then = "none"
    BY <1>1, Typed DEF Stopping, AtWork, TypeOK
  <1>3. /\ Batch' = Batch /\ Mine' = Mine /\ Own' = Own
        /\ \A c : Made(c)' = Made(c)
    BY <1>1, SameRows
  <1>4. \A c : Cardinality(Made(c)) \in Nat
    BY Typed, MadeTypes
  <1>5. Stopping'
    BY <1>1, <1>2 DEF Stopping
  <1>6. CASE /\ file.status \in {"running", "paused"}
             /\ mem' = file /\ pc' = "baseline" /\ UNCHANGED <<then, file, age>>
    <2>1. TypeOK'
      BY <1>1, <1>2, <1>6, Typed, TypedNext DEF TypeOK
    <2>2. PlanIsComplete'
      BY <1>6 DEF PlanIsComplete
    <2>3. ProgressIsReal'
      BY <1>3, <1>6 DEF ProgressIsReal
    <2>4. AtWork'
      BY <1>1, <1>2, <1>3, <1>6 DEF AtWork
    <2>5. MemoryIsReal'
      <3>1. \A c \in Classes : Done(file, c) \in Nat
        BY <1>2, EpisodesFinite
      <3>2. QED
        BY <1>3, <1>4, <1>6, <3>1 DEF MemoryIsReal, ProgressIsReal
    <2>6. FaultsKnown'
      BY <1>1, <1>6 DEF FaultsKnown
    <2>7. QED
      BY <1>5, <2>1, <2>2, <2>3, <2>4, <2>5, <2>6
  <1>7. CASE /\ \E items \in Plans : SavePlan(NewPlan(items), "baseline")
             /\ age' = [t \in Targets |-> Longest]
    <2>1. PICK items \in Plans : SavePlan(NewPlan(items), "baseline")
      BY <1>7
    <2>2. /\ items \in Seq([class : Classes, target : Nat])
          /\ \A c \in Classes : Ask(items, c) = Counts[c]
      BY PlanAssumption
    <2>3. /\ Fits(NewPlan(items)) /\ NewPlan(items).plan = items
          /\ NewPlan(items).last = [t \in Targets |-> Longest]
          /\ \A c : Done(NewPlan(items), c) = 0
      BY <2>2, NewPlanFits
    <2>4. /\ mem' = NewPlan(items) /\ file' = Torn /\ pc' = "write"
          /\ then' = "baseline"
      BY <2>1 DEF SavePlan
    <2>5. Fits(Torn) /\ Torn.status = "torn" /\ \A c : Done(Torn, c) = 0
      BY NoPlanFits
    <2>6. age' \in [Targets -> 0..Longest]
      BY <1>7, BatchAssumption
    <2>7. TypeOK'
      BY <1>1, <2>3, <2>4, <2>5, <2>6, Typed, TypedNext DEF TypeOK
    <2>8. PlanIsComplete'
      BY <2>2, <2>3, <2>4, <2>5 DEF PlanIsComplete
    <2>9. ProgressIsReal'
      BY <1>3, <1>4, <2>4, <2>5 DEF ProgressIsReal
    <2>10. AtWork'
      BY <1>1, <1>3, <2>4 DEF AtWork
    <2>11. MemoryIsReal'
      BY <1>3, <1>4, <2>3, <2>4 DEF MemoryIsReal
    <2>12. FaultsKnown'
      <3>1. Longest <= Longest
        BY BatchAssumption
      <3>2. \A t \in Targets : mem'.last[t] <= age'[t]
        BY <1>7, <2>3, <2>4, <3>1
      <3>3. QED
        BY <1>1, <2>4, <3>2 DEF FaultsKnown
    <2>13. QED
      BY <1>5, <2>7, <2>8, <2>9, <2>10, <2>11, <2>12
  <1>8. QED
    BY <1>6, <1>7 DEF Start

\* The checks before an episode, the end of the plan, and the failures.
LEMMA ChecksKept ==
    ASSUME BatchInv,
           RunBaselineCheck \/ FinishPlan \/ WaitForInfraReady \/ InjectorFails
               \/ PauseRequested
    PROVE  BatchInv'
  <1>1. CASE RunBaselineCheck
    <2>1. /\ pc = "baseline" /\ ~stop
          /\ UNCHANGED <<rows, orphans, age, stop, mark, starts, kills>>
      BY <1>1 DEF RunBaselineCheck, ClusterUnchanged, BatchInv, Stopping
    <2>2. Goto("select") \/ SavePlan([mem EXCEPT !.status = "paused"], "off")
      BY <1>1 DEF RunBaselineCheck
    <2>3. QED
      BY <2>1, <2>2, GotoKept, PausesKept
  <1>2. CASE FinishPlan
    <2>1. /\ pc = "select" /\ ~stop
          /\ UNCHANGED <<rows, orphans, age, stop, mark, starts, kills>>
          /\ SavePlan([mem EXCEPT !.status = "complete"], "archive")
      BY <1>2 DEF FinishPlan, ClusterUnchanged, BatchInv, Stopping
    <2>2. QED
      BY <2>1, PausesKept
  <1>3. CASE WaitForInfraReady
    <2>1. /\ pc = "select" /\ ~stop /\ Open # {}
          /\ UNCHANGED <<rows, orphans, age, stop, mark, starts, kills>>
      BY <1>3 DEF WaitForInfraReady, ClusterUnchanged, BatchInv, Stopping
    <2>2. Goto("recency") \/ SavePlan([mem EXCEPT !.status = "paused"], "off")
      BY <1>3 DEF WaitForInfraReady, Fails
    <2>3. QED
      BY <2>1, <2>2, GotoKept, PausesKept
  <1>4. CASE InjectorFails
    <2>1. /\ pc = "inject"
          /\ UNCHANGED <<rows, orphans, age, stop, mark, starts, kills>>
          /\ SavePlan([mem EXCEPT !.status = "paused"], "off")
      BY <1>4 DEF InjectorFails, Fails
    <2>2. QED
      BY <2>1, PausesKept
  <1>5. CASE PauseRequested
    <2>1. /\ pc = "pause"
          /\ UNCHANGED <<rows, orphans, age, stop, mark, starts, kills>>
      BY <1>5 DEF PauseRequested, ClusterUnchanged
    <2>2. SavePlan([mem EXCEPT !.status = "paused"], "off") \/ (~stop /\ Goto("select"))
      BY <1>5 DEF PauseRequested
    <2>3. QED
      BY <2>1, <2>2, GotoKept, PausesKept
  <1>6. QED
    BY <1>1, <1>2, <1>3, <1>4, <1>5

LEMMA ArchiveKept ==
    ASSUME BatchInv, ArchiveCompletedPlan
    PROVE  BatchInv'
  <1> USE DEF BatchInv
  <1>1. /\ pc = "archive" /\ file' = NoFile /\ pc' = "off" /\ Exit
        /\ UNCHANGED <<rows, orphans, age, then, starts, kills>>
    BY DEF ArchiveCompletedPlan, ClusterUnchanged
  <1>2. then' = "none"
    BY <1>1 DEF AtWork, TypeOK
  <1>3. Fits(NoFile) /\ NoFile.status = "none" /\ \A c : Done(NoFile, c) = 0
    BY NoPlanFits
  <1>4. \A c : Cardinality(Made(c)) \in Nat
    BY Typed, MadeTypes
  <1>5. /\ orphans' \subseteq ((DOMAIN rows) \X {"injector", "scorer"})
        /\ \A o \in orphans' : o[2] = "injector" => o[1] \in Batch
        /\ kills' \in 0..MaxKills
    BY <1>1 DEF TypeOK, AtWork
  <1>6. \A c \in Classes : Done(file', c) <= Cardinality(Made(c))
    BY <1>1, <1>3, <1>4
  <1>7. Fits(file') /\ file'.status \notin {"running", "paused"}
    BY <1>1, <1>3
  <1>8. QED
    BY <1>1, <1>2, <1>5, <1>6, <1>7, ExitKept

LEMMA KillKept ==
    ASSUME BatchInv, Kill
    PROVE  BatchInv'
  <1> USE DEF BatchInv
  <1>1. /\ pc # "off" /\ pc' = "off" /\ then' = "none" /\ Exit
        /\ kills' = kills + 1 /\ kills < MaxKills
        /\ UNCHANGED <<file, rows, age, starts>>
    BY DEF Kill
  <1>2. kills' \in 0..MaxKills /\ kills' # 0
    BY <1>1, BatchAssumption DEF TypeOK
  <1>3. rows \in Seq(Row) /\ Fits(file)
    BY Typed
  <1>4. ASSUME pc = "inject" PROVE Own \in Batch /\ Own \in DOMAIN rows
    BY <1>4, OwnAttempt DEF AtWork
  <1>5. ASSUME GetUnscoredEpisode # {} PROVE Max(GetUnscoredEpisode) \in DOMAIN rows
    <2> DEFINE m == Max(Unscored)
    <2>1. Unscored # {} /\ GetUnscoredEpisode = {m}
      BY <1>5 DEF GetUnscoredEpisode
    <2>2. Unscored \in SUBSET DOMAIN rows
      BY DEF Unscored
    <2>3. m \in DOMAIN rows /\ m \in Nat
      BY <1>3, <2>1, <2>2, IndexSet
    <2> HIDE DEF m
    <2>4. Max({m}) = m
      BY <2>3, LargestIsMax
    <2>5. QED
      BY <2>1, <2>3, <2>4
  <1>6. /\ orphans \subseteq ((DOMAIN rows) \X {"injector", "scorer"})
        /\ \A o \in orphans : o[2] = "injector" => o[1] \in Batch
    BY DEF TypeOK, AtWork
  <1>7. /\ orphans' \subseteq ((DOMAIN rows) \X {"injector", "scorer"})
        /\ \A o \in orphans' : o[2] = "injector" => o[1] \in Batch
    <2>1. CASE pc = "inject"
      <3>1. orphans' = orphans \cup {<<Own, "injector">>}
        BY <2>1 DEF Kill
      <3>2. QED
        BY <1>4, <1>6, <2>1, <3>1
    <2>2. CASE pc # "inject" /\ pc = "score" /\ GetUnscoredEpisode # {}
      <3> DEFINE x == Max(GetUnscoredEpisode)
      <3>1. orphans' = orphans \cup {<<x, "scorer">>}
        BY <2>2 DEF Kill
      <3>2. x \in DOMAIN rows
        BY <1>5, <2>2
      <3> HIDE DEF x
      <3>3. QED
        BY <1>6, <3>1, <3>2
    <2>3. CASE pc # "inject" /\ ~(pc = "score" /\ GetUnscoredEpisode # {})
      <3>1. orphans' = orphans
        BY <2>3 DEF Kill
      <3>2. QED
        BY <1>6, <3>1
    <2>4. QED
      BY <2>1, <2>2, <2>3
  <1>8. /\ \A c \in Classes : Done(file', c) <= Cardinality(Made(c))
        /\ file'.status \in {"running", "paused"} =>
                \A c \in Classes : Ask(file'.plan, c) = Counts[c]
        /\ Fits(file')
    BY <1>1, <1>3 DEF ProgressIsReal, PlanIsComplete
  <1>9. QED
    BY <1>1, <1>2, <1>7, <1>8, ExitKept

LEMMA SigintKept ==
    ASSUME BatchInv, Sigint
    PROVE  BatchInv'
  <1> USE DEF BatchInv
  <1>1. /\ pc \in {"recency", "inject", "pause"} /\ stop' = TRUE /\ mark' = Mine
        /\ UNCHANGED <<rows, orphans, age, pc, then, mem, file, starts, kills>>
    BY DEF Sigint, ClusterUnchanged
  <1>2. /\ Batch' = Batch /\ Mine' = Mine /\ Own' = Own
        /\ \A c : Made(c)' = Made(c)
    BY <1>1, SameRows
  <1>3. Open' = Open /\ idx' = idx /\ class' = class
    BY <1>1, SameChunk
  <1>4. Mine \in Nat
    BY OwnAttempt
  <1>5. TypeOK'
    BY <1>1, <1>4, Typed, TypedNext DEF TypeOK
  <1>6. PlanIsComplete'
    BY <1>1 DEF PlanIsComplete
  <1>7. ProgressIsReal'
    BY <1>1, <1>2 DEF ProgressIsReal
  <1>8. AtWork'
    BY <1>1, <1>2, <1>3 DEF AtWork
  <1>9. MemoryIsReal'
    BY <1>1, <1>2, <1>3 DEF MemoryIsReal
  <1>10. FaultsKnown'
    BY <1>1 DEF FaultsKnown
  <1>11. Stopping'
    BY <1>1, <1>2, <1>4 DEF Stopping
  <1>12. QED
    BY <1>5, <1>6, <1>7, <1>8, <1>9, <1>10, <1>11

\* The injector starts: a new attempt, the runner's own.
LEMMA InjectsKept ==
    ASSUME BatchInv, WaitForTargetRecency
    PROVE  BatchInv'
  <1> USE DEF BatchInv
  <1> DEFINE n == Len(rows) + 1
  <1>1. /\ pc = "recency" /\ pc' = "inject"
        /\ rows' = Append(rows, Attempt(class, "batch"))
        /\ UNCHANGED <<then, mem, file, orphans, age, stop, mark, starts, kills>>
    BY DEF WaitForTargetRecency, Goto
  <1>2. rows \in Seq(Row) /\ Fits(mem) /\ Fits(file)
    BY Typed
  <1>3. Open # {} /\ class \in Classes
    BY <1>1, ChunkAtWork DEF AtWork
  <1>4. /\ rows' \in Seq(Row) /\ Grows /\ Len(rows) \in Nat
        /\ DOMAIN rows = 1..Len(rows) /\ DOMAIN rows' = DOMAIN rows \cup {n}
        /\ \A r \in DOMAIN rows : rows'[r] = rows[r]
        /\ rows'[n] = Attempt(class, "batch")
    BY <1>1, <1>2, <1>3, AppendedRow
  <1>5. /\ rows'[n].by = "batch" /\ rows'[n].class = class
        /\ rows'[n].recorded = FALSE
    BY <1>4 DEF Attempt
  <1>6. n \notin DOMAIN rows /\ n \in Nat /\ \A r \in DOMAIN rows : r <= n
    BY <1>4
  <1> HIDE DEF n
  <1>7. Batch' = Batch \cup {n} /\ n \notin Batch
    BY <1>4, <1>5, <1>6 DEF Batch
  <1>8. Mine' = Mine + 1 /\ Mine \in Nat
    BY <1>7, OwnAttempt, FS_AddElement DEF Mine
  <1>9. Own' = n
    <2>1. Batch' \in SUBSET Nat /\ \A k \in Batch' : k <= n
      BY <1>6, <1>7, OwnAttempt DEF Batch
    <2>2. QED
      BY <1>7, <2>1, LargestIsMax DEF Own
  <1>10. \A c : /\ Cardinality(Made(c)) <= Cardinality(Made(c)')
                /\ Cardinality(Made(c)) \in Nat /\ Cardinality(Made(c)') \in Nat
    BY <1>2, <1>4, MadeGrows
  <1>11. \A c : Done(mem, c) \in Nat /\ Done(file, c) \in Nat
    BY <1>2, EpisodesFinite
  <1>12. Open' = Open /\ class' = class
    BY <1>1, SameChunk
  <1>13. TypeOK'
    <2>1. orphans' \subseteq ((DOMAIN rows') \X {"injector", "scorer"})
      BY <1>1, <1>4 DEF TypeOK
    <2>2. QED
      BY <1>1, <1>2, <1>4, <2>1, TypedNext DEF TypeOK
  <1>14. PlanIsComplete'
    BY <1>1 DEF PlanIsComplete
  <1>15. ProgressIsReal'
    <2>1. ASSUME NEW c \in Classes PROVE Done(file, c) <= Cardinality(Made(c)')
      <3>1. Done(file, c) <= Cardinality(Made(c))
        BY DEF ProgressIsReal
      <3>2. QED
        BY <1>10, <1>11, <3>1
    <2>2. QED
      BY <1>1, <2>1 DEF ProgressIsReal
  <1>16. AtWork'
    <2>1. <<n, "injector">> \notin orphans
      BY <1>6 DEF TypeOK
    <2>2. QED
      BY <1>1, <1>3, <1>5, <1>7, <1>9, <1>12, <2>1 DEF AtWork
  <1>17. MemoryIsReal'
    <2>1. ASSUME NEW c \in Classes
          PROVE  Done(mem, c) + 0 <= Cardinality(Made(c)')
      <3>1. Done(mem, c) <= Cardinality(Made(c))
        BY <1>1, MemoryCounts
      <3>2. QED
        BY <1>10, <1>11, <3>1
    <2>2. QED
      BY <1>1, <2>1 DEF MemoryIsReal
  <1>18. FaultsKnown'
    BY <1>1 DEF FaultsKnown
  <1>19. Stopping'
    <2>1. stop => Mine' <= mark' + 1
      BY <1>1, <1>8 DEF Stopping, TypeOK
    <2>2. QED
      BY <1>1, <2>1 DEF Stopping
  <1>20. QED
    BY <1>13, <1>14, <1>15, <1>16, <1>17, <1>18, <1>19

\* The injector records: one episode more of the class at work.
LEMMA RecordsKept ==
    ASSUME BatchInv, InjectorRecords
    PROVE  BatchInv'
  <1> USE DEF BatchInv
  <1> DEFINE l == [mem.last EXCEPT ![target] = 0]
             m == [mem EXCEPT !.last = l]
  <1>1. /\ pc = "inject" /\ pc' = "score"
        /\ age' = [age EXCEPT ![target] = 0] /\ mem' = m
        /\ UNCHANGED <<then, file, orphans, stop, mark, starts, kills>>
    BY DEF InjectorRecords
  <1>2. PICK late \in BOOLEAN : rows' = Recorded(Own, late)
    BY DEF InjectorRecords, Late
  <1>3. /\ rows \in Seq(Row) /\ Fits(mem) /\ Fits(file)
        /\ age \in [Targets -> 0..Longest] /\ mem.last \in [Targets -> 0..Longest]
    BY Typed, ChunkTypes
  <1>4. /\ Open # {} /\ class \in Classes /\ target \in Targets
        /\ Own \in Batch /\ Own \in DOMAIN rows
        /\ rows[Own].class = class /\ ~rows[Own].recorded
    BY <1>1, ChunkAtWork, OwnAttempt DEF AtWork
  <1>5. /\ rows' \in Seq(Row) /\ Grows /\ DOMAIN rows' = DOMAIN rows
        /\ \A r \in DOMAIN rows : r # Own => rows'[r] = rows[r]
        /\ rows'[Own].recorded = TRUE
    BY <1>2, <1>3, <1>4, RecordedRow
  <1>6. Batch' = Batch
    BY <1>5 DEF Batch, Grows
  <1>7. Own' = Own /\ Mine' = Mine
    BY <1>6 DEF Own, Mine
  <1>8. \A c : /\ Cardinality(Made(c)) <= Cardinality(Made(c)')
               /\ Cardinality(Made(c)) \in Nat /\ Cardinality(Made(c)') \in Nat
    BY <1>3, <1>5, MadeGrows
  <1>9. Cardinality(Made(class)') = Cardinality(Made(class)) + 1
    <2>1. Own \notin Made(class)
      BY <1>4 DEF Made
    <2>2. Made(class)' = Made(class) \cup {Own}
      <3>1. \A r : r \in Made(class)' <=>
                r \in Batch' /\ rows'[r].class = class' /\ rows'[r].recorded
        BY DEF Made
      <3>2. class' = class
        BY <1>1, <1>3, LastFits, SameChunk
      <3>3. \A r \in DOMAIN rows : rows'[r].class = rows[r].class
        BY <1>5 DEF Grows
      <3>4. \A r : r \in Made(class)' <=> r \in Made(class) \/ r = Own
        BY <1>4, <1>5, <1>6, <3>1, <3>2, <3>3 DEF Made, Batch
      <3>5. QED
        BY <3>4
    <2>3. IsFiniteSet(Made(class))
      BY <1>3, MadeTypes
    <2>4. QED
      BY <2>1, <2>2, <2>3, FS_AddElement
  <1>10. \A c : Done(mem, c) \in Nat /\ Done(file, c) \in Nat
    BY <1>3, EpisodesFinite
  <1>11. l \in [Targets -> 0..Longest] /\ age' \in [Targets -> 0..Longest]
    <2>1. 0 \in 0..Longest
      BY BatchAssumption
    <2>2. QED
      BY <1>1, <1>3, <2>1
  <1>12. \A t \in Targets : l[t] = (IF t = target THEN 0 ELSE mem.last[t])
                         /\ age'[t] = (IF t = target THEN 0 ELSE age[t])
    BY <1>1, <1>3
  <1> HIDE DEF l
  <1>13. /\ Fits(m) /\ m.plan = mem.plan /\ m.completed = mem.completed
         /\ m.last = l
    BY <1>3, <1>11, LastFits
  <1> HIDE DEF m
  <1>14. Open' = Open /\ class' = class
    BY <1>1, <1>13, SameChunk
  <1>15. TypeOK'
    <2>1. orphans' \subseteq ((DOMAIN rows') \X {"injector", "scorer"})
      BY <1>1, <1>5 DEF TypeOK
    <2>2. QED
      BY <1>1, <1>3, <1>5, <1>11, <1>13, <2>1, TypedNext DEF TypeOK
  <1>16. PlanIsComplete'
    BY <1>1, <1>13 DEF PlanIsComplete
  <1>17. ProgressIsReal'
    <2>1. ASSUME NEW c \in Classes PROVE Done(file, c) <= Cardinality(Made(c)')
      <3>1. Done(file, c) <= Cardinality(Made(c))
        BY DEF ProgressIsReal
      <3>2. QED
        BY <1>8, <1>10, <3>1
    <2>2. QED
      BY <1>1, <2>1 DEF ProgressIsReal
  <1>18. AtWork'
    <2>1. rows'[Own].class = class
      BY <1>4, <1>5 DEF Grows
    <2>2. QED
      BY <1>1, <1>4, <1>5, <1>6, <1>7, <1>14, <2>1 DEF AtWork
  <1>19. MemoryIsReal'
    <2>1. ASSUME NEW c \in Classes
          PROVE  Done(mem, c) + (IF c = class THEN 1 ELSE 0) <= Cardinality(Made(c)')
      <3>1. Done(mem, c) <= Cardinality(Made(c))
        BY <1>1, MemoryCounts
      <3>2. CASE c = class
        <4>1. Cardinality(Made(c)') = Cardinality(Made(c)) + 1
          BY <1>9, <1>14, <3>2
        <4>2. QED
          BY <1>8, <1>10, <3>1, <3>2, <4>1
      <3>3. CASE c # class
        BY <1>8, <1>10, <3>1, <3>3
      <3>4. QED
        BY <3>2, <3>3
    <2>2. \A c : Done(m, c) = Done(mem, c)
      BY <1>13, SameDone
    <2>3. QED
      BY <1>1, <1>14, <2>1, <2>2 DEF MemoryIsReal
  <1>20. FaultsKnown'
    <2>1. kills = 0 => \A t \in Targets : l[t] <= age'[t]
      BY <1>1, <1>12 DEF FaultsKnown
    <2>2. QED
      BY <1>1, <1>13, <2>1 DEF FaultsKnown
  <1>21. Stopping'
    BY <1>1, <1>7 DEF Stopping
  <1>22. QED
    BY <1>15, <1>16, <1>17, <1>18, <1>19, <1>20, <1>21

LEMMA ScorerKept ==
    ASSUME BatchInv, RunScorer
    PROVE  BatchInv'
  <1> USE DEF BatchInv
  <1>1. /\ pc = "score"
        /\ UNCHANGED <<orphans, age, stop, mark, starts, kills>>
    BY DEF RunScorer
  <1>2. CASE rows' = rows /\ Fails
    BY <1>1, <1>2, PausesKept DEF Fails
  <1>3. CASE rows' = Score(GetUnscoredEpisode) /\ Goto("count")
    <2>1. pc' = "count" /\ UNCHANGED <<then, mem, file>>
      BY <1>3 DEF Goto
    <2>2. rows \in Seq(Row) /\ Fits(mem) /\ Fits(file)
      BY Typed
    <2>3. /\ rows' \in Seq(Row) /\ Grows /\ DOMAIN rows' = DOMAIN rows
          /\ \A q \in DOMAIN rows :
                /\ rows'[q].recorded = rows[q].recorded
                /\ rows'[q].class = rows[q].class /\ rows'[q].by = rows[q].by
      BY <1>3, <2>2, ScoredRows
    <2>4. Batch' = Batch
      BY <2>3 DEF Batch
    <2>5. Own' = Own /\ Mine' = Mine
      BY <2>4 DEF Own, Mine
    <2>6. \A c : Made(c)' = Made(c)
      BY <2>3, <2>4 DEF Made, Batch
    <2>7. Open' = Open /\ class' = class
      BY <2>1, SameChunk
    <2>8. TypeOK'
      BY <1>1, <2>1, <2>2, <2>3, TypedNext DEF TypeOK
    <2>9. PlanIsComplete'
      BY <1>1, <2>1 DEF PlanIsComplete
    <2>10. ProgressIsReal'
      BY <2>1, <2>6 DEF ProgressIsReal
    <2>11. AtWork'
      <3>1. Own \in DOMAIN rows
        BY <1>1, OwnAttempt DEF AtWork
      <3>2. rows'[Own].class = rows[Own].class /\ rows'[Own].recorded = rows[Own].recorded
        BY <2>3, <3>1
      <3>3. QED
        BY <1>1, <2>1, <2>4, <2>5, <2>7, <3>2 DEF AtWork
    <2>12. MemoryIsReal'
      BY <1>1, <2>1, <2>6, <2>7 DEF MemoryIsReal
    <2>13. FaultsKnown'
      BY <1>1, <2>1 DEF FaultsKnown
    <2>14. Stopping'
      BY <1>1, <2>1, <2>5 DEF Stopping
    <2>15. QED
      BY <2>8, <2>9, <2>10, <2>11, <2>12, <2>13, <2>14
  <1>4. QED
    BY <1>2, <1>3 DEF RunScorer

LEMMA CountKept ==
    ASSUME BatchInv, CountEpisode
    PROVE  BatchInv'
  <1> USE DEF BatchInv
  <1> DEFINE done == [mem.completed EXCEPT ![idx] = mem.completed[idx] + 1]
             p == [mem EXCEPT !.completed = done]
  <1>1. /\ pc = "count" /\ SavePlan(p, "pause")
        /\ UNCHANGED <<rows, orphans, age, stop, mark, starts, kills>>
    BY DEF CountEpisode
  <1>2. Fits(mem)
    BY Typed
  <1>3. /\ idx \in DOMAIN mem.plan /\ class = mem.plan[idx].class
        /\ mem.completed[idx] < mem.plan[idx].target
    BY <1>1, ChunkAtWork DEF AtWork
  <1>4. /\ mem.completed \in Seq(Nat) /\ DOMAIN mem.completed = DOMAIN mem.plan
        /\ \A i \in DOMAIN mem.plan :
                mem.completed[i] \in Nat /\ mem.plan[i].target \in Nat
    BY <1>2, ChunkTypes
  <1>5. /\ DOMAIN done = DOMAIN mem.plan
        /\ \A i \in DOMAIN mem.plan : done[i] =
                IF i = idx THEN mem.completed[idx] + 1 ELSE mem.completed[i]
    BY <1>4
  <1>6. done \in Seq(Nat)
    <2>1. DOMAIN mem.completed = 1..Len(mem.completed) /\ Len(mem.completed) \in Nat
      BY <1>4, LenProperties
    <2> HIDE DEF done
    <2>2. \A i \in DOMAIN mem.plan : done[i] \in Nat
      BY <1>3, <1>4, <1>5
    <2>3. done = [i \in 1..Len(mem.completed) |-> done[i]]
      BY <1>4, <1>5, <2>1 DEF done
    <2>4. done \in [1..Len(mem.completed) -> Nat]
      BY <1>4, <2>1, <2>2, <2>3
    <2>5. QED
      BY <2>1, <2>4
  <1>7. \A i \in DOMAIN mem.plan : done[i] <= mem.plan[i].target
    <2> HIDE DEF done
    <2>1. ASSUME NEW i \in DOMAIN mem.plan PROVE done[i] <= mem.plan[i].target
      <3>1. mem.completed[i] <= mem.plan[i].target
        BY <1>2 DEF Fits
      <3>2. CASE i = idx
        <4>1. done[i] = mem.completed[i] + 1 /\ mem.completed[i] < mem.plan[i].target
          BY <1>3, <1>5, <3>2
        <4>2. QED
          BY <1>4, <4>1
      <3>3. CASE i # idx
        BY <1>5, <3>1, <3>3
      <3>4. QED
        BY <3>2, <3>3
    <2>2. QED
      BY <2>1
  <1>8. p.completed = done /\ p.plan = mem.plan /\ p.last = mem.last /\ p \in Progress
    <2> HIDE DEF done
    <2>1. mem \in Progress
      BY <1>2 DEF Fits
    <2>2. QED
      BY <1>6, <2>1 DEF Progress
  <1>9. Fits(p)
    <2> HIDE DEF p, done
    <2>1. QED
      BY <1>5, <1>7, <1>8 DEF Fits
  <1>10. ASSUME NEW c \in Classes PROVE Done(p, c) <= Cardinality(Made(c))
    <2> HIDE DEF p
    <2>1. Done(p, c) = Done(mem, c) + (IF c = class THEN 1 ELSE 0)
      BY <1>2, <1>3, <1>8, OneMore
    <2>2. QED
      BY <1>1, <2>1 DEF MemoryIsReal
  <1> HIDE DEF p
  <1>11. QED
    BY <1>1, <1>8, <1>9, <1>10, SaveKept

\* The age of a fault, one step later.
LEMMA Ages ==
    ASSUME NEW f \in [Targets -> 0..Longest], NEW g \in [Targets -> 0..Longest]
    PROVE  /\ Older(f) \in [Targets -> 0..Longest]
           /\ \A t \in Targets : f[t] <= Older(f)[t]
           /\ \A t \in Targets : f[t] <= g[t] => Older(f)[t] <= Older(g)[t]
  <1>1. Longest \in Nat
    BY BatchAssumption
  <1>2. ASSUME NEW h \in [Targets -> 0..Longest], NEW t \in Targets
        PROVE  Older(h)[t] = IF h[t] + 1 <= Longest THEN h[t] + 1 ELSE Longest
    <2>1. h[t] + 1 \in Nat
      BY <1>1
    <2>2. QED
      BY <1>1, <2>1, MinOfTwo DEF Older
  <1>3. Older(f) = [t \in Targets |-> Older(f)[t]]
    BY DEF Older
  <1>4. \A t \in Targets : Older(f)[t] \in 0..Longest /\ f[t] <= Older(f)[t]
    BY <1>1, <1>2
  <1>5. Older(f) \in [Targets -> 0..Longest]
    BY <1>3, <1>4
  <1>6. ASSUME NEW t \in Targets, f[t] <= g[t] PROVE Older(f)[t] <= Older(g)[t]
    <2>1. /\ Older(f)[t] = IF f[t] + 1 <= Longest THEN f[t] + 1 ELSE Longest
          /\ Older(g)[t] = IF g[t] + 1 <= Longest THEN g[t] + 1 ELSE Longest
      BY <1>2
    <2>2. f[t] \in Nat /\ g[t] \in Nat
      BY <1>1
    <2>3. QED
      BY <1>1, <1>6, <2>1, <2>2
  <1>7. QED
    BY <1>4, <1>5, <1>6

LEMMA TickKept ==
    ASSUME BatchInv, Tick
    PROVE  BatchInv'
  <1> USE DEF BatchInv
  <1> DEFINE l == IF pc = "off" THEN mem.last ELSE Older(mem.last)
             k == IF file.status \in {"none", "torn"} THEN file.last
                  ELSE Older(file.last)
  <1>1. /\ pc \in {"off", "recency"} /\ age' = Older(age)
        /\ mem' = [mem EXCEPT !.last = l] /\ file' = [file EXCEPT !.last = k]
        /\ UNCHANGED <<pc, then, stop, mark, rows, orphans, starts, kills>>
    BY DEF Tick
  <1>2. /\ Fits(mem) /\ Fits(file) /\ rows \in Seq(Row)
        /\ age \in [Targets -> 0..Longest]
        /\ mem.last \in [Targets -> 0..Longest]
        /\ file.last \in [Targets -> 0..Longest]
    BY Typed, ChunkTypes
  <1>3. /\ l \in [Targets -> 0..Longest] /\ k \in [Targets -> 0..Longest]
        /\ age' \in [Targets -> 0..Longest]
    BY <1>1, <1>2, Ages
  <1>4. pc # "off" => l = Older(mem.last)
    OBVIOUS
  <1>5. file.status \in {"running", "paused"} => k = Older(file.last)
    OBVIOUS
  <1> HIDE DEF l, k
  <1>6. /\ Fits(mem') /\ mem'.plan = mem.plan /\ mem'.completed = mem.completed
        /\ mem'.last = l
    BY <1>1, <1>2, <1>3, LastFits
  <1>7. /\ Fits(file') /\ file'.plan = file.plan
        /\ file'.completed = file.completed
        /\ file'.last = k /\ file'.status = file.status
    BY <1>1, <1>2, <1>3, LastFits
  <1>8. /\ Batch' = Batch /\ Mine' = Mine /\ Own' = Own
        /\ \A c : Made(c)' = Made(c)
    BY <1>1, SameRows
  <1>9. Open' = Open /\ class' = class
    BY <1>6, SameChunk
  <1>10. \A c : Done(mem', c) = Done(mem, c) /\ Done(file', c) = Done(file, c)
    BY <1>6, <1>7, SameDone
  <1>11. TypeOK'
    BY <1>1, <1>2, <1>3, <1>6, <1>7, TypedNext DEF TypeOK
  <1>12. PlanIsComplete'
    BY <1>1, <1>6, <1>7 DEF PlanIsComplete
  <1>13. ProgressIsReal'
    BY <1>8, <1>10 DEF ProgressIsReal
  <1>14. AtWork'
    BY <1>1, <1>8, <1>9 DEF AtWork
  <1>15. MemoryIsReal'
    BY <1>1, <1>8, <1>9, <1>10 DEF MemoryIsReal
  <1>16. FaultsKnown'
    <2>1. ASSUME kills = 0, pc # "off", NEW t \in Targets PROVE l[t] <= age'[t]
      <3>1. mem.last[t] <= age[t]
        BY <2>1 DEF FaultsKnown
      <3>2. QED
        BY <1>1, <1>2, <1>4, <2>1, <3>1, Ages
    <2>2. ASSUME kills = 0, pc = "off", file.status \in {"running", "paused"},
                 NEW t \in Targets
          PROVE  k[t] <= age'[t]
      <3>1. file.last[t] <= age[t]
        BY <2>2 DEF FaultsKnown
      <3>2. QED
        BY <1>1, <1>2, <1>5, <2>2, <3>1, Ages
    <2>3. kills' = 0 => kills = 0 /\ orphans' = {}
      BY <1>1 DEF FaultsKnown
    <2>4. QED
      BY <1>1, <1>6, <1>7, <2>1, <2>2, <2>3 DEF FaultsKnown
  <1>17. Stopping'
    BY <1>1, <1>8 DEF Stopping
  <1>18. QED
    BY <1>11, <1>12, <1>13, <1>14, <1>15, <1>16, <1>17

-----------------------------------------------------------------------------
(* Theorems.                                                               *)

LEMMA InitHolds == Init => BatchInv
  <1> SUFFICES ASSUME Init PROVE BatchInv
    OBVIOUS
  <1> USE DEF Init
  <1>1. /\ Fits(NoPlan) /\ Fits(NoFile) /\ NoFile.status = "none"
        /\ \A c : Done(NoFile, c) = 0
    BY NoPlanFits
  <1>2. rows \in Seq(Row)
    OBVIOUS
  <1>3. \A c : Cardinality(Made(c)) \in Nat
    BY <1>2, MadeTypes
  <1>4. TypeOK
    <2>1. age \in [Targets -> 0..Longest]
      BY BatchAssumption
    <2>2. \A p \in {mem, file} : Fits(p)
      BY <1>1
    <2>3. \A p \in {mem, file} :
            /\ p \in Progress /\ DOMAIN p.completed = DOMAIN p.plan
            /\ \A i \in DOMAIN p.plan : p.completed[i] <= p.plan[i].target
      BY <2>2 DEF Fits
    <2>4. starts \in 0..MaxStarts /\ kills \in 0..MaxKills
      BY BatchAssumption
    <2>5. QED
      BY <1>2, <2>1, <2>3, <2>4 DEF TypeOK
  <1>5. PlanIsComplete /\ ProgressIsReal /\ MemoryIsReal
    BY <1>1, <1>3 DEF PlanIsComplete, ProgressIsReal, MemoryIsReal
  <1>6. AtWork /\ FaultsKnown /\ Stopping
    BY <1>1 DEF AtWork, FaultsKnown, Stopping
  <1>7. QED
    BY <1>4, <1>5, <1>6 DEF BatchInv

LEMMA NextKept == BatchInv /\ [Next]_vars => BatchInv'
  <1> SUFFICES ASSUME BatchInv, [Next]_vars PROVE BatchInv'
    OBVIOUS
  <1>1. CASE Start
    BY <1>1, StartKept
  <1>2. CASE RunnerStep
    BY <1>2, WriteKept, ChecksKept, ArchiveKept, InjectsKept, RecordsKept,
       ScorerKept, CountKept DEF RunnerStep
  <1>3. CASE Sigint \/ Kill
    BY <1>3, SigintKept, KillKept
  <1>4. CASE \E r \in DOMAIN rows : OrphanInjector(r) \/ OrphanScorer(r)
    <2>1. PICK r \in DOMAIN rows : OrphanInjector(r) \/ OrphanScorer(r)
      BY <1>4
    <2>2. CASE OrphanInjector(r)
      BY <2>2, OrphanInjectorKept
    <2>3. CASE OrphanScorer(r)
      <3>1. /\ RunnerUnchanged /\ age' = age /\ orphans' \subseteq orphans
            /\ rows' = Score({r})
        BY <2>3 DEF OrphanScorer
      <3>2. QED
        BY <3>1, ScoredKept
    <2>4. QED
      BY <2>1, <2>2, <2>3
  <1>5. CASE LiveStarts \/ \E r \in Live : LiveRecords(r) \/ LiveScored(r)
    <2>1. CASE LiveStarts
      BY <2>1, LiveStartsKept
    <2>2. ASSUME NEW r \in Live, LiveRecords(r) \/ LiveScored(r) PROVE BatchInv'
      <3>1. CASE LiveRecords(r)
        BY <3>1, LiveRecordsKept
      <3>2. CASE LiveScored(r)
        <4>1. /\ RunnerUnchanged /\ age' = age /\ orphans' \subseteq orphans
              /\ rows' = Score({r})
          BY <3>2 DEF LiveScored
        <4>2. QED
          BY <4>1, ScoredKept
      <3>3. QED
        BY <2>2, <3>1, <3>2
    <2>3. QED
      BY <1>5, <2>1, <2>2
  <1>6. CASE Tick
    BY <1>6, TickKept
  <1>7. CASE UNCHANGED vars
    <2>1. /\ RunnerUnchanged /\ rows' = rows /\ orphans' = orphans /\ age' = age
      BY <1>7 DEF vars, RunnerUnchanged
    <2>2. Grows
      BY <2>1 DEF Grows
    <2>3. Batch' = Batch /\ Own' = Own
      BY <2>1, SameRows
    <2>4. rows \in Seq(Row) /\ age \in [Targets -> 0..Longest]
      BY Typed DEF BatchInv
    <2>5. QED
      BY <2>1, <2>2, <2>3, <2>4, AroundKept
  <1>8. QED
    BY <1>1, <1>2, <1>3, <1>4, <1>5, <1>6, <1>7 DEF Next

\* Whatever the plan, however often the runner is paused, killed and resumed:
\* the plan asks for what was asked, and what memory and file count of each
\* class was recorded (run_batch_plan.py, _save_plan and main).
THEOREM BatchInvariant == Spec => []BatchInv
  BY InitHolds, NextKept, PTL DEF Spec

\* After Ctrl+C at most one more fault is injected, at any point it comes
\* (_pause_requested, main's loop).
THEOREM StopTakesEffect == Spec => []StopIsHonoured
  <1>1. BatchInv => StopIsHonoured
    BY DEF BatchInv, Stopping, StopIsHonoured
  <1>2. QED
    BY <1>1, BatchInvariant, PTL

\* No fault within the recency window of the last one on its target, pauses
\* and resumes included, but for Ctrl+C in the wait and kills
\* (_wait_for_target_recency).
THEOREM RecencyIsKept == Spec => RecencyKept
  <1>1. BatchInv /\ [Next]_vars =>
          [(pc = "recency" /\ pc' = "inject") =>
              (age[target] >= Window[class] \/ stop \/ kills > 0)]_vars
    <2> SUFFICES ASSUME BatchInv, Next, pc = "recency", pc' = "inject"
                 PROVE  age[target] >= Window[class] \/ stop \/ kills > 0
      BY DEF vars
    <2> USE DEF BatchInv
    <2>1. WaitForTargetRecency
      BY DEF Next, RunnerStep, Start, Write, RunBaselineCheck, FinishPlan,
         ArchiveCompletedPlan, WaitForInfraReady, InjectorRecords, InjectorFails,
         RunScorer, CountEpisode, PauseRequested, Sigint, Kill, OrphanInjector,
         OrphanScorer, LiveStarts, LiveRecords, LiveScored, Tick, RunnerUnchanged
    <2>2. mem.last[target] >= Window[class] \/ stop
      BY <2>1 DEF WaitForTargetRecency
    <2>3. class \in Classes /\ target \in Targets
      BY ChunkAtWork DEF AtWork
    <2>4. mem.last[target] \in Nat /\ age[target] \in Nat /\ Window[class] \in Nat
      <3>1. mem.last \in [Targets -> 0..Longest] /\ age \in [Targets -> 0..Longest]
        BY Typed, ChunkTypes
      <3>2. Longest \in Nat
        BY BatchAssumption
      <3>3. mem.last[target] \in 0..Longest /\ age[target] \in 0..Longest
        BY <2>3, <3>1
      <3>4. QED
        BY <2>3, <3>2, <3>3, BatchAssumption
    <2>5. kills = 0 => mem.last[target] <= age[target]
      BY <2>3 DEF FaultsKnown
    <2>6. kills \in Nat
      BY BatchAssumption DEF TypeOK
    <2>7. QED
      BY <2>2, <2>4, <2>5, <2>6
  <1>2. QED
    BY <1>1, BatchInvariant, PTL DEF Spec, RecencyKept

\* What a step around the runner does to an attempt that was there: an orphan
\* scorer or a live episode takes nothing back.
LEMMA AroundTakesNothingBack ==
    ASSUME BatchInv, pc = "count", pc' = "count", [Next]_vars
    PROVE  /\ Own' = Own
           /\ Own \in DOMAIN rows
           /\ \A r \in DOMAIN rows :
                /\ r \in DOMAIN rows' /\ rows'[r].by = rows[r].by
                /\ rows[r].recorded => rows'[r].recorded
                /\ rows[r].scored => rows'[r].scored
           /\ rows'[Own].old = rows[Own].old
  <1> USE DEF BatchInv
  <1>1. rows \in Seq(Row)
    BY Typed
  <1>2. Own \in Batch /\ Own \in DOMAIN rows /\ <<Own, "injector">> \notin orphans
    BY OwnAttempt DEF AtWork
  <1>3. \/ UNCHANGED rows
        \/ \E r \in DOMAIN rows :
            \/ OrphanInjector(r) /\ rows' = Recorded(r, FALSE)
            \/ r \in Live /\ rows' = Recorded(r, FALSE)
        \/ \E S : rows' = Score(S)
    BY DEF vars, Next, RunnerStep, Start, Write, RunBaselineCheck, FinishPlan,
       ArchiveCompletedPlan, WaitForInfraReady, WaitForTargetRecency,
       InjectorRecords, InjectorFails, RunScorer, CountEpisode, PauseRequested,
       SavePlan, Sigint, Kill, OrphanInjector, OrphanScorer, LiveStarts,
       LiveRecords, LiveScored, Live, Tick, ClusterUnchanged
  <1>4. CASE UNCHANGED rows
    BY <1>2, <1>4, SameRows
  <1>5. CASE \E r \in DOMAIN rows :
            \/ OrphanInjector(r) /\ rows' = Recorded(r, FALSE)
            \/ r \in Live /\ rows' = Recorded(r, FALSE)
    <2>1. PICK r \in DOMAIN rows : /\ rows' = Recorded(r, FALSE)
                                   /\ OrphanInjector(r) \/ r \in Live
      BY <1>5
    <2>2. r # Own
      BY <1>2, <2>1 DEF OrphanInjector, Live, Batch
    <2>3. /\ Grows /\ DOMAIN rows' = DOMAIN rows
          /\ \A q \in DOMAIN rows : q # r => rows'[q] = rows[q]
          /\ rows'[r].scored = rows[r].scored
      BY <1>1, <2>1, RecordedRow
    <2>4. Batch' = Batch
      BY <2>3 DEF Batch, Grows
    <2>5. Own' = Own
      BY <2>4 DEF Own
    <2>6. QED
      BY <1>2, <2>2, <2>3, <2>5 DEF Grows
  <1>6. CASE \E S : rows' = Score(S)
    <2>1. PICK S : rows' = Score(S)
      BY <1>6
    <2>2. /\ Grows /\ DOMAIN rows' = DOMAIN rows
          /\ \A q \in DOMAIN rows :
                /\ rows'[q].old = rows[q].old
                /\ rows'[q].scored = (rows[q].scored \/ q \in S)
      BY <1>1, <2>1, ScoredRows
    <2>3. Batch' = Batch
      BY <2>2 DEF Batch, Grows
    <2>4. Own' = Own
      BY <2>3 DEF Own
    <2>5. QED
      BY <1>2, <2>2, <2>4 DEF Grows
  <1>7. QED
    BY <1>3, <1>4, <1>5, <1>6

\* The scorer picks the latest unscored row; when that is not the runner's
\* own, it is a later live one (get_unscored_episode, run_scorer).
LEMMA ScorerTakesOwn ==
    ASSUME BatchInv, pc = "score", rows' = Score(GetUnscoredEpisode)
    PROVE  /\ Own' = Own
           /\ \/ rows'[Own].scored \/ rows'[Own].old
              \/ \E q \in DOMAIN rows' :
                    q > Own /\ rows'[q].by = "live" /\ rows'[q].recorded
  <1> USE DEF BatchInv
  <1>1. rows \in Seq(Row)
    BY Typed
  <1>2. /\ Own \in Batch /\ Own \in DOMAIN rows /\ Own \in Nat
        /\ rows[Own].recorded /\ \A k \in Batch : k <= Own
    BY OwnAttempt DEF AtWork
  <1>3. /\ Grows /\ DOMAIN rows' = DOMAIN rows
        /\ \A q \in DOMAIN rows :
                /\ rows'[q].recorded = rows[q].recorded
                /\ rows'[q].old = rows[q].old /\ rows'[q].by = rows[q].by
                /\ rows'[q].scored = (rows[q].scored \/ q \in GetUnscoredEpisode)
    BY <1>1, ScoredRows
  <1>4. Batch' = Batch
    BY <1>3 DEF Batch
  <1>5. Own' = Own
    BY <1>4 DEF Own
  <1>6. CASE rows[Own].scored
    BY <1>2, <1>3, <1>5, <1>6
  <1>7. CASE ~rows[Own].scored
    <2> DEFINE m == Max(Unscored)
    <2>1. Own \in Unscored /\ Unscored \in SUBSET DOMAIN rows
      BY <1>2, <1>7 DEF Unscored
    <2>2. m \in Unscored /\ Own <= m /\ m \in Nat /\ m \in DOMAIN rows
      BY <1>1, <2>1, IndexSet
    <2>3. GetUnscoredEpisode = IF rows[m].old THEN {} ELSE {m}
      BY <2>1 DEF GetUnscoredEpisode
    <2>4. rows[m].recorded /\ rows[m] \in Row
      BY <1>1, <2>2, IndexSet DEF Unscored
    <2> HIDE DEF m
    <2>5. CASE m = Own
      BY <1>2, <1>3, <1>5, <2>3, <2>5
    <2>6. CASE m # Own
      <3>1. m > Own
        BY <1>2, <2>2, <2>6
      <3>2. m \notin Batch
        BY <1>2, <2>2, <3>1
      <3>3. rows[m].by = "live"
        BY <2>2, <2>4, <3>2 DEF Batch, Row
      <3>4. QED
        BY <1>3, <1>5, <2>2, <2>4, <3>1, <3>3
    <2>7. QED
      BY <2>5, <2>6
  <1>8. QED
    BY <1>6, <1>7

\* An episode the plan counts was scored, but for one too old and for a live
\* injector that came between (main, run_scorer, get_unscored_episode).
THEOREM CountedWasScored == Spec => []CountedIsScored
  <1>1. Init => CountedIsScored
    BY DEF Init, CountedIsScored
  <1>2. BatchInv /\ BatchInv' /\ CountedIsScored /\ [Next]_vars => CountedIsScored'
    <2> SUFFICES ASSUME BatchInv, CountedIsScored, [Next]_vars, pc' = "count",
                        BatchInv'
                 PROVE  \/ rows'[Own'].scored \/ rows'[Own'].old
                        \/ \E q \in DOMAIN rows' :
                            q > Own' /\ rows'[q].by = "live" /\ rows'[q].recorded
      BY DEF CountedIsScored
    <2>1. CASE pc = "count"
      <3>1. /\ Own' = Own /\ Own \in DOMAIN rows
            /\ \A r \in DOMAIN rows :
                /\ r \in DOMAIN rows' /\ rows'[r].by = rows[r].by
                /\ rows[r].recorded => rows'[r].recorded
                /\ rows[r].scored => rows'[r].scored
            /\ rows'[Own].old = rows[Own].old
        BY <2>1, AroundTakesNothingBack
      <3>2. QED
        BY <2>1, <3>1 DEF CountedIsScored
    <2>2. CASE pc # "count"
      <3>1. pc = "score" /\ rows' = Score(GetUnscoredEpisode)
        <4>1. pc = "write" => then # "count"
          BY DEF BatchInv, TypeOK
        <4>2. QED
          BY <2>2, <4>1 DEF vars, Next, RunnerStep, Start, Write, RunBaselineCheck,
             FinishPlan, ArchiveCompletedPlan, WaitForInfraReady,
             WaitForTargetRecency, InjectorRecords, InjectorFails, RunScorer,
             CountEpisode, PauseRequested, SavePlan, Fails, Goto, Sigint, Kill,
             OrphanInjector, OrphanScorer, LiveStarts, LiveRecords, LiveScored,
             Tick, RunnerUnchanged
      <3>2. QED
        BY <3>1, ScorerTakesOwn
    <2>3. QED
      BY <2>1, <2>2
  <1>3. QED
    BY <1>1, <1>2, BatchInvariant, PTL DEF Spec
=============================================================================
