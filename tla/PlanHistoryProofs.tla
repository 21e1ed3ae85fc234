-------------------------- MODULE PlanHistoryProofs --------------------------
(***************************************************************************)
(* Theorems about PlanHistory, for all limits and any number of edits: the *)
(* types of the variables, that a cleanup keeps as many of the newest      *)
(* plans as it should, that the plan the status refers to stays but for    *)
(* the two cases that CurrentKept names, and that the history implements   *)
(* RetainedPlans.                                                          *)
(*                                                                         *)
(* Split says what a cleanup that is deleting still has to go through:     *)
(* plans older than those it leaves, which are enough.  Followed counts    *)
(* the plans newer than the current one.  Listed says that nothing is left *)
(* to delete between cleanups.                                             *)
(***************************************************************************)
EXTENDS PlanHistory, FiniteSetTheorems, TLAPS

Split ==
  pc = "deleting" =>
    /\ \A d \in toDelete, s \in plans \ toDelete : d < s
    /\ Cardinality(plans \ toDelete) >= keep

NoneNewer == \A q \in plans : q <= current
OneNewer == \A q, r \in plans : q > current /\ r > current => q = r

Followed ==
  /\ pc = "recorded" => \A q \in plans : q <= recorded
  /\ pc \in {"planning", "recorded"} => newPlan
  /\ current # 0 /\ ~deferred =>
       /\ pc \in {"decided", "applying"} => NoneNewer
       /\ ~newPlan => OneNewer
       /\ pc \in {"decided", "applying", "cleanup", "deleting"} => ~newPlan

-----------------------------------------------------------------------------
(* Ranks in a finite set of numbers *)

Rank(S, p) == Cardinality({q \in S : q < p})

\* A number of the set that is greater has the greater rank.
LEMMA RankGrows ==
  ASSUME NEW S \in SUBSET Nat, IsFiniteSet(S), NEW p \in S, NEW r \in S, p < r
  PROVE  Rank(S, p) < Rank(S, r)
<1> DEFINE A == {q \in S : q < p}
           B == {q \in S : q < r}
<1>1. A \in SUBSET B /\ p \in B /\ p \notin A
  <2>1. p \in Nat /\ r \in Nat /\ \A q \in S : q \in Nat
    OBVIOUS
  <2>2. \A q \in S : q < p => q < r
    BY <2>1
  <2>3. p \in B /\ ~(p < p)
    BY <2>1
  <2>4. A \subseteq B
    BY <2>2
  <2>5. p \notin A
    BY <2>3
  <2> QED
    BY <2>3, <2>4, <2>5
<1>2. IsFiniteSet(B)
  BY FS_Subset
<1>3. IsFiniteSet(A) /\ Cardinality(A) <= Cardinality(B) /\ Cardinality(A) # Cardinality(B)
  BY <1>1, <1>2, FS_Subset
<1>4. Cardinality(A) \in Nat /\ Cardinality(B) \in Nat
  BY <1>2, <1>3, FS_CardinalityType
<1> QED
  BY <1>3, <1>4 DEF Rank

LEMMA RankType ==
  ASSUME NEW S \in SUBSET Nat, IsFiniteSet(S), NEW p \in S
  PROVE  Rank(S, p) \in 0 .. (Cardinality(S) - 1)
<1> DEFINE A == {q \in S : q < p}
<1>1. A \in SUBSET S /\ p \notin A
  OBVIOUS
<1>2. IsFiniteSet(A) /\ Cardinality(A) <= Cardinality(S) /\ Cardinality(A) # Cardinality(S)
  BY <1>1, FS_Subset
<1>3. Cardinality(A) \in Nat /\ Cardinality(S) \in Nat
  BY <1>2, FS_CardinalityType
<1> QED
  BY <1>2, <1>3 DEF Rank

\* No more than n - m numbers have a rank from m to n - 1, or there were two of one
\* rank.
LEMMA FewBetween ==
  ASSUME NEW S \in SUBSET Nat, IsFiniteSet(S), NEW n \in Nat, NEW m \in 0 .. n,
         NEW T \in SUBSET S, \A p \in T : Rank(S, p) \in m .. (n - 1)
  PROVE  IsFiniteSet(T) /\ Cardinality(T) \in Nat /\ Cardinality(T) <= n - m
<1>1. IsFiniteSet(T) /\ Cardinality(T) \in Nat
  BY FS_Subset, FS_CardinalityType
<1>2. IsFiniteSet(m .. (n - 1)) /\ Cardinality(m .. (n - 1)) = n - m
  <2>1. m \in Int /\ n - 1 \in Int
    OBVIOUS
  <2>2. /\ IsFiniteSet(m .. (n - 1))
        /\ Cardinality(m .. (n - 1)) = IF m > n - 1 THEN 0 ELSE (n - 1) - m + 1
    BY <2>1, FS_Interval
  <2> QED
    BY <2>2
<1>3. SUFFICES ASSUME Cardinality(T) > n - m PROVE FALSE
  BY <1>1
<1> DEFINE rank == [p \in T |-> Rank(S, p)]
<1>4. rank \in [T -> m .. (n - 1)]
  OBVIOUS
<1>5. \E x, y \in T : x # y /\ rank[x] = rank[y]
  <2>1. Cardinality(m .. (n - 1)) < Cardinality(T)
    BY <1>1, <1>2, <1>3
  <2> HIDE DEF rank
  <2> QED
    BY <1>1, <1>2, <1>4, <2>1, FS_PigeonHole
<1>6. PICK x \in T, y \in T : x # y /\ rank[x] = rank[y]
  BY <1>5
<1>7. x \in Nat /\ y \in Nat /\ (x < y \/ y < x)
  BY <1>6
<1>8. Rank(S, x) = Rank(S, y) /\ Rank(S, x) \in Nat
  BY <1>6, RankType
<1> QED
  BY <1>7, <1>8, RankGrows

\* So exactly n numbers have a rank below n: at most so many have, and at most the
\* rest has not.
LEMMA AsManyBelow ==
  ASSUME NEW S \in SUBSET Nat, IsFiniteSet(S), NEW n \in 0 .. Cardinality(S)
  PROVE  Cardinality({p \in S : Rank(S, p) < n}) = n
<1> DEFINE A == {p \in S : Rank(S, p) < n}
<1>1. Cardinality(S) \in Nat /\ n \in Nat
  BY FS_CardinalityType
<1>2. \A p \in S : Rank(S, p) \in 0 .. (Cardinality(S) - 1)
  BY RankType
<1>3. IsFiniteSet(A) /\ Cardinality(A) \in Nat /\ Cardinality(A) <= n
  <2>1. A \in SUBSET S /\ 0 \in 0 .. n /\ \A p \in A : Rank(S, p) \in 0 .. (n - 1)
    BY <1>1, <1>2
  <2> HIDE DEF A
  <2>2. IsFiniteSet(A) /\ Cardinality(A) \in Nat /\ Cardinality(A) <= n - 0
    BY <1>1, <2>1, FewBetween
  <2> QED
    BY <1>1, <2>2
<1>4. Cardinality(S \ A) \in Nat /\ Cardinality(S \ A) <= Cardinality(S) - n
  <2>1. S \ A \in SUBSET S /\ \A p \in S \ A : Rank(S, p) \in n .. (Cardinality(S) - 1)
    BY <1>1, <1>2
  <2> HIDE DEF A
  <2> QED
    BY <1>1, <2>1, FewBetween
<1>5. Cardinality(S \ A) = Cardinality(S) - Cardinality(A)
  <2>1. S \cap A = A
    OBVIOUS
  <2> HIDE DEF A
  <2> QED
    BY <2>1, FS_Difference
<1> HIDE DEF A
<1>6. Cardinality(A) = n
  BY <1>1, <1>3, <1>4, <1>5
<1> QED
  BY <1>6 DEF A

\* The number of rank 0 is the least.
LEMMA MinExists ==
  ASSUME NEW S \in SUBSET Nat, IsFiniteSet(S), S # {}
  PROVE  Min(S) \in S /\ \A y \in S : Min(S) <= y
<1>1. \E x \in S : \A y \in S : x <= y
  <2>1. SUFFICES ASSUME \A x \in S : \E y \in S : y < x PROVE FALSE
    OBVIOUS
  <2> DEFINE c == Cardinality(S)
             rank == [p \in S |-> Rank(S, p)]
  <2>2. c \in Nat
    BY FS_CardinalityType
  <2>3. ASSUME NEW p \in S PROVE Rank(S, p) \in 1 .. (c - 1)
    <3>1. PICK y \in S : y < p
      BY <2>1
    <3>2. Rank(S, y) < Rank(S, p)
      BY <3>1, RankGrows
    <3>3. Rank(S, y) \in 0 .. (c - 1) /\ Rank(S, p) \in 0 .. (c - 1)
      BY RankType
    <3> QED
      BY <2>2, <3>2, <3>3
  <2>4. rank \in [S -> 1 .. (c - 1)]
    BY <2>3
  <2>5. IsFiniteSet(1 .. (c - 1)) /\ Cardinality(1 .. (c - 1)) < c
    <3>1. c # 0
      BY FS_EmptySet
    <3>2. 1 \in Int /\ c - 1 \in Int
      BY <2>2
    <3> HIDE DEF c
    <3>3. /\ IsFiniteSet(1 .. (c - 1))
          /\ Cardinality(1 .. (c - 1)) = IF 1 > c - 1 THEN 0 ELSE (c - 1) - 1 + 1
      BY <3>2, FS_Interval
    <3> QED
      BY <2>2, <3>1, <3>3
  <2>6. \E x, y \in S : x # y /\ rank[x] = rank[y]
    <3> HIDE DEF rank
    <3> QED
      BY <2>4, <2>5, FS_PigeonHole
  <2>7. PICK x \in S, y \in S : x # y /\ rank[x] = rank[y]
    BY <2>6
  <2>8. x \in Nat /\ y \in Nat /\ (x < y \/ y < x)
    BY <2>7
  <2>9. Rank(S, x) = Rank(S, y) /\ Rank(S, x) \in Nat
    BY <2>7, RankType
  <2> QED
    BY <2>8, <2>9, RankGrows
<1> QED
  BY <1>1 DEF Min

-----------------------------------------------------------------------------
(* Types *)

LEMMA LimitsAreNumbers ==
  ASSUME TypeOK
  PROVE  /\ limit \in Nat \ {0} /\ keep \in Nat \ {0}
         /\ plans \in SUBSET Nat /\ IsFiniteSet(plans)
         /\ toDelete \in SUBSET Nat /\ IsFiniteSet(toDelete)
         /\ IsFiniteSet(plans \ toDelete)
<1>1. generation \in Int /\ plans \in SUBSET (1 .. generation) /\ toDelete \in SUBSET plans
  BY GenerationAssumption DEF TypeOK
<1>2. IsFiniteSet(1 .. generation)
  BY <1>1, FS_Interval
<1>3. IsFiniteSet(plans)
  BY <1>1, <1>2, FS_Subset
<1>4. IsFiniteSet(toDelete) /\ IsFiniteSet(plans \ toDelete)
  BY <1>1, <1>3, FS_Subset
<1>5. limit \in Nat \ {0} /\ keep \in Nat \ {0}
  BY LimitsAssumption DEF TypeOK
<1> QED
  BY <1>1, <1>3, <1>4, <1>5

\* A cleanup deletes the least of what it has listed.
LEMMA DeletesALeast ==
  ASSUME TypeOK, DeletePlan
  PROVE  Min(toDelete) \in toDelete
  BY LimitsAreNumbers, MinExists DEF DeletePlan

\* Every variable keeps its type.
THEOREM TypeInvariant == Spec => []TypeOK
<1>1. Init => TypeOK
  <2>1. 1 \in 1 .. MaxGeneration /\ 0 \in 0 .. 1
    BY GenerationAssumption
  <2> QED
    BY <2>1 DEF Init, TypeOK, WorkerSteps
<1>2. TypeOK /\ [Next]_vars => TypeOK'
  <2> SUFFICES ASSUME TypeOK, [Next]_vars PROVE TypeOK'
    OBVIOUS
  <2>g. MaxGeneration \in Nat \ {0} /\ generation \in 1 .. MaxGeneration
    BY GenerationAssumption DEF TypeOK
  <2> USE DEF TypeOK, WorkerSteps, specVars, statusVars, cleanupVars
  <2>1. ASSUME NEW l \in Limits, Edit(l) PROVE TypeOK'
    BY <2>1, <2>g DEF Edit
  <2>2. CASE PlanBegins \/ ReferToRecord \/ Bypass \/ ApplyOrNot
    BY <2>2 DEF PlanBegins, ReferToRecord, Bypass, ApplyOrNot
  <2>3. CASE CreateRecord \/ RecordApply
    <3>1. generation \in 1 .. generation /\ generation \in 0 .. generation
      BY <2>g
    <3>2. plans \cup {generation} \subseteq 1 .. generation
      BY <3>1
    <3>3. toDelete \subseteq plans \cup {generation}
      OBVIOUS
    <3>4. /\ plans' = plans \cup {generation} /\ recorded' = generation
          /\ generation' = generation /\ pc' \in WorkerSteps
      BY <2>3 DEF CreateRecord, RecordApply
    <3> QED
      BY <2>3, <3>1, <3>2, <3>3, <3>4 DEF CreateRecord, RecordApply
  <2>4. CASE DeferToRequest
    <3>1. newPlan' \in BOOLEAN
      BY <2>4 DEF DeferToRequest
    <3>2. deferred' \in BOOLEAN
      BY <2>4 DEF DeferToRequest
    <3>3. pc' \in {"cleanup", "decided"}
      BY <2>4 DEF DeferToRequest
    <3> QED
      BY <2>4, <3>1, <3>2, <3>3 DEF DeferToRequest
  <2>5. CASE ListWithin \/ CleanupEnds \/ Interrupted
    BY <2>5 DEF ListWithin, CleanupEnds, Interrupted
  <2>6. CASE ListBeyond
    BY <2>6 DEF ListBeyond, Oldest
  <2>7. CASE DeletePlan
    BY <2>7 DEF DeletePlan
  <2>8. CASE UNCHANGED vars
    BY <2>8 DEF vars
  <2> QED
    BY <2>1, <2>2, <2>3, <2>4, <2>5, <2>6, <2>7, <2>8 DEF Next
<1> QED
  BY <1>1, <1>2, PTL DEF Spec

-----------------------------------------------------------------------------
(* The limit *)

\* What a cleanup lists is older than what it leaves, and leaves enough.
LEMMA ListSplits ==
  ASSUME TypeOK, ListBeyond
  PROVE  Split' /\ Cardinality(toDelete') = Cardinality(plans) - limit
<1> DEFINE n == Cardinality(plans) - limit
<1>1. /\ plans \in SUBSET Nat /\ IsFiniteSet(plans)
      /\ Cardinality(plans) \in Nat /\ limit \in Nat /\ n \in Nat
  <2>1. plans \in SUBSET Nat /\ IsFiniteSet(plans) /\ limit \in Nat
    BY LimitsAreNumbers
  <2>2. Cardinality(plans) \in Nat /\ Cardinality(plans) > limit
    BY <2>1, FS_CardinalityType DEF ListBeyond
  <2> QED
    BY <2>1, <2>2
<1> HIDE DEF n
<1>2. Oldest(n) \in SUBSET plans /\ \A p \in plans : p \in Oldest(n) <=> Rank(plans, p) < n
  BY DEF Oldest, Rank
<1>3. Cardinality(Oldest(n)) = n
  <2>1. n \in 0 .. Cardinality(plans)
    BY <1>1 DEF n
  <2>2. Oldest(n) = {p \in plans : Rank(plans, p) < n}
    BY DEF Oldest, Rank
  <2> QED
    BY <1>1, <2>1, <2>2, AsManyBelow
<1>4. Cardinality(plans \ Oldest(n)) = limit
  <2>1. plans \cap Oldest(n) = Oldest(n)
    BY <1>2
  <2>2. Cardinality(plans \ Oldest(n)) = Cardinality(plans) - Cardinality(plans \cap Oldest(n))
    BY <1>1, FS_Difference
  <2>3. Cardinality(plans \ Oldest(n)) = Cardinality(plans) - n
    BY <1>3, <2>1, <2>2
  <2> QED
    BY <1>1, <2>3 DEF n
<1>5. ASSUME NEW d \in Oldest(n), NEW s \in plans \ Oldest(n) PROVE d < s
  <2>1. d \in plans /\ d \in Nat /\ s \in Nat /\ d # s
    BY <1>1, <1>2
  <2>2. Rank(plans, d) < n /\ ~(Rank(plans, s) < n)
    BY <1>2
  <2>3. Rank(plans, d) \in Int /\ Rank(plans, s) \in Int
    BY <1>1, <2>1, RankType
  <2>4. s < d => Rank(plans, s) < Rank(plans, d)
    BY <1>1, <2>1, RankGrows
  <2> QED
    BY <1>1, <2>1, <2>2, <2>3, <2>4
<1>6. toDelete' = Oldest(n) /\ plans' = plans /\ keep' = limit
  BY DEF ListBeyond, n
<1> QED
  BY <1>1, <1>3, <1>4, <1>5, <1>6 DEF Split, n

LEMMA NextSplit == TypeOK /\ Split /\ [Next]_vars => Split'
<1> SUFFICES ASSUME TypeOK, Split, [Next]_vars PROVE Split'
  OBVIOUS
<1>1. CASE ListBeyond
  BY <1>1, ListSplits
<1>2. CASE DeletePlan
  <2>1. Min(toDelete) \in toDelete
    BY <1>2, DeletesALeast
  <2>2. plans' \ toDelete' = plans \ toDelete /\ toDelete' \subseteq toDelete
    BY <1>2, <2>1 DEF DeletePlan
  <2>3. pc = "deleting" /\ keep' = keep
    BY <1>2 DEF DeletePlan
  <2> QED
    BY <2>2, <2>3 DEF Split
<1>3. ASSUME NEW l \in Limits, Edit(l) PROVE Split'
  BY <1>3 DEF Edit, Split, cleanupVars
<1>4. CASE pc' # "deleting"
  BY <1>4 DEF Split
<1>5. CASE UNCHANGED vars
  BY <1>5 DEF vars, cleanupVars, Split
<1>6. ASSUME PlanBegins \/ CreateRecord \/ ReferToRecord \/ Bypass \/ DeferToRequest
             \/ ApplyOrNot \/ RecordApply \/ ListWithin \/ CleanupEnds \/ Interrupted
      PROVE  pc' # "deleting"
  BY <1>6 DEF PlanBegins, CreateRecord, ReferToRecord, Bypass, DeferToRequest, ApplyOrNot,
              RecordApply, ListWithin, CleanupEnds, Interrupted
<1> QED
  BY <1>1, <1>2, <1>3, <1>4, <1>5, <1>6 DEF Next

\* Plans go away by DeletePlan only.
LEMMA OnlyDeletePlan ==
  ASSUME [Next]_vars, NEW p \in plans \ plans'
  PROVE  DeletePlan /\ p = Min(toDelete)
<1>1. CASE DeletePlan
  BY <1>1 DEF DeletePlan
<1>2. ASSUME ~DeletePlan PROVE plans \subseteq plans'
  BY <1>2 DEF Next, Edit, PlanBegins, CreateRecord, ReferToRecord, Bypass, DeferToRequest,
              ApplyOrNot, RecordApply, ListWithin, ListBeyond, CleanupEnds, Interrupted, vars
<1> QED
  BY <1>1, <1>2

\* A plan that is deleted leaves as many newer ones as its cleanup read for a
\* limit, wherever earlier cleanups stopped.
THEOREM NewestAreKept == Spec => KeepsTheLimit
<1>1. Init => Split
  BY DEF Init, Split
<1>2. TypeOK /\ Split /\ [Next]_vars
      => \A p \in plans \ plans' : Cardinality({q \in plans' : q > p}) >= keep
  <2> SUFFICES ASSUME TypeOK, Split, [Next]_vars, NEW p \in plans \ plans'
               PROVE  Cardinality({q \in plans' : q > p}) >= keep
    OBVIOUS
  <2> DEFINE Left == plans \ toDelete
             Newer == {q \in plans' : q > p}
  <2>1. DeletePlan /\ p = Min(toDelete)
    BY OnlyDeletePlan
  <2>2. p \in toDelete /\ pc = "deleting" /\ plans' = plans \ {p}
    BY <2>1, DeletesALeast DEF DeletePlan
  <2>3. \A s \in Left : p < s
    BY <2>2 DEF Split
  <2>4. Left \in SUBSET Newer
    <3>1. plans \in SUBSET Nat /\ p \in Nat
      BY <2>2, LimitsAreNumbers
    <3> QED
      BY <2>2, <2>3, <3>1
  <2>5. IsFiniteSet(Newer) /\ IsFiniteSet(Left)
    <3>1. Newer \in SUBSET plans
      BY <2>2
    <3> QED
      BY <3>1, LimitsAreNumbers, FS_Subset
  <2>6. Cardinality(Left) <= Cardinality(Newer) /\ Cardinality(Left) >= keep
    BY <2>2, <2>4, <2>5, FS_Subset DEF Split
  <2>7. Cardinality(Left) \in Nat /\ Cardinality(Newer) \in Nat /\ keep \in Nat
    BY <2>5, FS_CardinalityType, LimitsAreNumbers
  <2> HIDE DEF Left, Newer
  <2> QED
    BY <2>6, <2>7 DEF Newer
<1> QED
  BY <1>1, <1>2, NextSplit, TypeInvariant, PTL DEF Spec, KeepsTheLimit

-----------------------------------------------------------------------------
(* The current plan *)

LEMMA NextFollowed == TypeOK /\ Followed /\ [Next]_vars => Followed'
<1> SUFFICES ASSUME TypeOK, Followed, [Next]_vars PROVE Followed'
  OBVIOUS
<1>t. /\ generation \in Nat /\ current \in Nat /\ recorded \in Nat
      /\ plans \subseteq 1 .. generation /\ toDelete \subseteq plans
  BY GenerationAssumption DEF TypeOK
<1> USE DEF Followed, NoneNewer, OneNewer, specVars, statusVars, cleanupVars
<1>1. ASSUME NEW l \in Limits, Edit(l) PROVE Followed'
  BY <1>1 DEF Edit
<1>2. CASE PlanBegins
  BY <1>2 DEF PlanBegins
<1>3. CASE CreateRecord
  BY <1>3, <1>t DEF CreateRecord
<1>4. CASE ReferToRecord
  BY <1>4, <1>t DEF ReferToRecord
<1>5. CASE Bypass \/ ApplyOrNot
  BY <1>5 DEF Bypass, ApplyOrNot
<1>6. CASE DeferToRequest
  <2>1. CASE current = 0
    BY <1>6, <2>1 DEF DeferToRequest
  <2>2. CASE current # 0
    <3>1. deferred' /\ pc' = "decided"
      BY <1>6, <2>2 DEF DeferToRequest
    <3> QED
      BY <3>1
  <2> QED
    BY <2>1, <2>2
<1>7. CASE RecordApply
  BY <1>7, <1>t DEF RecordApply
<1>8. CASE ListWithin \/ ListBeyond \/ CleanupEnds \/ Interrupted
  BY <1>8 DEF ListWithin, ListBeyond, CleanupEnds, Interrupted
<1>9. CASE DeletePlan
  BY <1>9 DEF DeletePlan
<1>10. CASE UNCHANGED vars
  BY <1>10 DEF vars
<1> QED
  BY <1>1, <1>2, <1>3, <1>4, <1>5, <1>6, <1>7, <1>8, <1>9, <1>10 DEF Next

\* The plan that the status refers to is deleted only if one plan is to be kept,
\* or after an apply on request that no plan came before.
THEOREM CurrentPlanIsKept == Spec => CurrentKept
<1>1. Init => Split /\ Followed
  BY DEF Init, Split, Followed
<1>2. TypeOK /\ Split /\ Followed /\ [Next]_vars
      => (current \in plans \ plans' => keep = 1 \/ deferred)
  <2> SUFFICES ASSUME TypeOK, Split, Followed, [Next]_vars,
                      current \in plans \ plans', ~deferred
               PROVE  keep = 1
    OBVIOUS
  <2> DEFINE Left == plans \ toDelete
  <2>1. DeletePlan /\ current = Min(toDelete)
    BY OnlyDeletePlan
  <2>2. current \in toDelete /\ pc = "deleting"
    BY <2>1, DeletesALeast DEF DeletePlan
  <2>3. current # 0 /\ current \in Nat /\ plans \in SUBSET Nat
    <3>1. plans \subseteq 1 .. generation /\ generation \in Nat
      BY GenerationAssumption DEF TypeOK
    <3> QED
      BY <3>1
  <2>4. OneNewer
    BY <2>2, <2>3 DEF Followed
  <2>5. \A q, r \in Left : q = r
    <3>1. \A q \in Left : current < q
      BY <2>2 DEF Split
    <3> QED
      BY <2>3, <2>4, <3>1 DEF OneNewer
  <2>6. IsFiniteSet(Left) /\ keep \in Nat \ {0} /\ Cardinality(Left) >= keep
    BY <2>2, LimitsAreNumbers DEF Split
  <2> HIDE DEF Left
  <2>7. Cardinality(Left) \in {0, 1}
    <3>1. CASE Left = {}
      BY <3>1, FS_EmptySet
    <3>2. CASE Left # {}
      <4>1. PICK x \in Left : TRUE
        BY <3>2
      <4>2. Left = {x}
        BY <2>5, <4>1
      <4> QED
        BY <4>2, FS_Singleton
    <3> QED
      BY <3>1, <3>2
  <2> QED
    BY <2>6, <2>7
<1> QED
  BY <1>1, <1>2, NextSplit, NextFollowed, TypeInvariant, PTL DEF Spec, CurrentKept

-----------------------------------------------------------------------------
(* The refinement of RetainedPlans *)

\* RetainedPlans counts as PlanHistory does.
LEMMA SameCount == \A S : Retained!Cardinality(S) = Cardinality(S)
BY DEF Retained!Cardinality, Cardinality

\* Only a cleanup that is deleting has plans to delete.
Listed == pc # "deleting" => toDelete = {}

LEMMA NextListed == TypeOK /\ Listed /\ [Next]_vars => Listed'
<1> SUFFICES ASSUME TypeOK, Listed, [Next]_vars PROVE Listed'
  OBVIOUS
<1> USE DEF Listed, cleanupVars
<1>1. ASSUME NEW l \in Limits, Edit(l) PROVE Listed'
  BY <1>1 DEF Edit
<1>2. CASE PlanBegins \/ CreateRecord \/ ReferToRecord \/ Bypass \/ DeferToRequest
  BY <1>2 DEF PlanBegins, CreateRecord, ReferToRecord, Bypass, DeferToRequest
<1>3. CASE ApplyOrNot \/ RecordApply \/ ListWithin \/ ListBeyond
  BY <1>3 DEF ApplyOrNot, RecordApply, ListWithin, ListBeyond
<1>4. CASE DeletePlan \/ CleanupEnds \/ Interrupted
  BY <1>4 DEF DeletePlan, CleanupEnds, Interrupted
<1>5. CASE UNCHANGED vars
  BY <1>5 DEF vars
<1> QED
  BY <1>1, <1>2, <1>3, <1>4, <1>5 DEF Next

\* What a cleanup deletes is the oldest plan there is.
LEMMA DeletesTheOldest ==
  ASSUME TypeOK, Split, DeletePlan
  PROVE  Retained!Drop(Min(toDelete)) /\ Min(toDelete) \in plans
<1> DEFINE g == Min(toDelete)
<1>1. g \in toDelete /\ \A d \in toDelete : g <= d
  BY LimitsAreNumbers, MinExists DEF DeletePlan
<1>2. plans \in SUBSET Nat /\ IsFiniteSet(toDelete) /\ toDelete \subseteq plans
  BY LimitsAreNumbers DEF TypeOK
<1>3. plans' = plans \ {g} /\ toDelete' = toDelete \ {g} /\ limit' = limit /\ pc = "deleting"
  BY DEF DeletePlan, specVars
<1> HIDE DEF g
<1>4. \A q \in plans : g <= q
  <2>1. \A s \in plans \ toDelete : g < s
    BY <1>1, <1>3 DEF Split
  <2>2. g \in Nat
    BY <1>1, <1>2
  <2> QED
    BY <1>1, <1>2, <2>1, <2>2
<1>5. Cardinality(toDelete') = Cardinality(toDelete) - 1
  BY <1>1, <1>2, <1>3, FS_RemoveElement
<1>6. Cardinality(toDelete) > 0
  <2>1. Cardinality(toDelete) \in Nat /\ Cardinality(toDelete) # 0
    BY <1>1, <1>2, FS_CardinalityType, FS_EmptySet
  <2> QED
    BY <2>1
<1> QED
  BY <1>1, <1>2, <1>3, <1>4, <1>5, <1>6 DEF Retained!Drop, g

\* Every step of the worker is one of RetainedPlans or a stutter.
LEMMA RetentionStep ==
  ASSUME TypeOK, Split, Listed, [Next]_vars
  PROVE  Retained!Next \/ UNCHANGED Retained!vars
<1>0. Cardinality({}) = 0
  BY FS_EmptySet
<1>1. ASSUME NEW l \in Limits, Edit(l)
      PROVE  Retained!Next
  <2>1. Retained!SetLimit(l)
    BY <1>1 DEF Edit, cleanupVars, Retained!SetLimit
  <2> QED
    BY <2>1 DEF Retained!Next
<1>2. CASE CreateRecord \/ RecordApply
  <2>1. toDelete = {} /\ toDelete' = {}
    BY <1>2 DEF CreateRecord, RecordApply, Listed, cleanupVars
  <2>2. generation \in 1 .. MaxGeneration /\ \A q \in plans : q <= generation
    BY DEF TypeOK
  <2>3. Retained!Add(generation)
    BY <1>0, <1>2, <2>1, <2>2 DEF CreateRecord, RecordApply, specVars, Retained!Add
  <2> QED
    BY <2>2, <2>3 DEF Retained!Next
<1>3. CASE ListBeyond
  <2>1. toDelete = {} /\ plans' = plans /\ limit' = limit /\ Cardinality(plans) > limit
    BY <1>3 DEF ListBeyond, Listed, specVars
  <2>2. Cardinality(toDelete') = Cardinality(plans) - limit
    BY <1>3, ListSplits
  <2>3. Retained!Start
    BY <1>0, <2>1, <2>2, SameCount DEF Retained!Start
  <2> QED
    BY <2>3 DEF Retained!Next
<1>4. CASE DeletePlan
  BY <1>4, DeletesTheOldest DEF Retained!Next
<1>5. CASE Interrupted
  <2>1. Retained!Interrupt
    BY <1>0, <1>5 DEF Interrupted, specVars, Retained!Interrupt
  <2> QED
    BY <2>1 DEF Retained!Next
<1>6. CASE UNCHANGED <<plans, limit, toDelete>>
  BY <1>6 DEF Retained!vars
<1>7. ASSUME PlanBegins \/ ReferToRecord \/ Bypass \/ DeferToRequest \/ ApplyOrNot
             \/ ListWithin \/ CleanupEnds \/ UNCHANGED vars
      PROVE  UNCHANGED <<plans, limit, toDelete>>
  BY <1>7 DEF PlanBegins, ReferToRecord, Bypass, DeferToRequest, ApplyOrNot, ListWithin,
     CleanupEnds, vars, specVars, cleanupVars
<1> QED
  BY <1>1, <1>2, <1>3, <1>4, <1>5, <1>6, <1>7 DEF Next

\* The worker keeps what is promised of the history, for all limits, edits and
\* interruptions: plans go oldest first and one by one, as many as there were too
\* many when they were listed, and none comes in between.  [cleanupOldPlans]
THEOREM RetentionImplemented == Spec => ImplementsRetention
<1>1. Init => Split /\ Listed
  BY DEF Init, Split, Listed
<1>2. Init => Retained!Init
  <2>1. Cardinality({}) = 0
    BY FS_EmptySet
  <2> QED
    BY <2>1 DEF Init, Retained!Init
<1>3. TypeOK /\ Split /\ Listed /\ [Next]_vars => [Retained!Next]_(Retained!vars)
  BY RetentionStep
<1> QED
  BY <1>1, <1>2, <1>3, NextSplit, NextListed, TypeInvariant, PTL
  DEF Spec, ImplementsRetention, Retained!Spec

=============================================================================
