--------------------------- MODULE EventLog_proofs ---------------------------
(***************************************************************************)
(* Facts about dates, event logs and findings that the proofs about the    *)
(* components built on them cite: induction over the days, what addDays'   *)
(* loop counts, which event of a log is the first of its type, and when    *)
(* the finding on a conformance rule is final.                             *)
(***************************************************************************)
EXTENDS ConformanceRules, FiniteSetsExt, FiniteSetTheorems, TLAPS

-----------------------------------------------------------------------------
(* Numbers.  The induction principles of the library quantify over         *)
(* operators; these quantify over sets, from the well-foundedness of the   *)
(* finite subsets.                                                         *)

LEMMA LeastNumber ==
  ASSUME NEW T \in SUBSET Nat, T # {}
  PROVE  \E m \in T : \A n \in T : m <= n
<1> DEFINE Upto == {0..n : n \in T}
<1>1. Upto \subseteq FiniteSubsetsOf(Nat) /\ Upto # {}
  <2>1. \A n \in T : 0..n \in SUBSET Nat /\ IsFiniteSet(0..n)
    BY FS_Interval
  <2> QED
    BY <2>1 DEF FiniteSubsetsOf
<1>2. IsWellFoundedOn(StrictSubsetOrdering(Nat), FiniteSubsetsOf(Nat))
  BY FS_StrictSubsetOrderingWellFounded
<1> HIDE DEF Upto
<1>3. PICK X \in Upto : \A Y \in Upto : <<Y, X>> \notin StrictSubsetOrdering(Nat)
  BY <1>1, <1>2, WFMin
<1> USE DEF Upto
<1>4. PICK m \in T : X = 0..m
  OBVIOUS
<1>5. ASSUME NEW n \in T, n < m
      PROVE  FALSE
  <2>1. n \in Nat /\ m \in Nat
    OBVIOUS
  <2>2. 0..n \subseteq 0..m /\ m \in 0..m /\ m \notin 0..n
    BY <1>5, <2>1
  <2>3. <<0..n, 0..m>> \in StrictSubsetOrdering(Nat)
    BY <2>1, <2>2 DEF StrictSubsetOrdering
  <2> QED
    BY <1>3, <1>4, <2>3
<1> QED
  BY <1>4, <1>5

LEMMA Induction ==
  ASSUME NEW S, 0 \in S, \A n \in Nat : n \in S => n + 1 \in S
  PROVE  Nat \subseteq S
<1> SUFFICES ASSUME Nat \ S # {}
             PROVE  FALSE
  OBVIOUS
<1>1. PICK m \in Nat \ S : \A n \in Nat \ S : m <= n
  BY LeastNumber
<1>2. m # 0 /\ m - 1 \in Nat
  BY <1>1
<1>3. m - 1 \in S
  BY <1>1, <1>2
<1> QED
  BY <1>1, <1>2, <1>3

\* A finite set of numbers has an upper bound.
LEMMA FiniteIsBounded ==
  ASSUME NEW S \in SUBSET Nat, IsFiniteSet(S)
  PROVE  \E m \in Nat : \A n \in S : n <= m
<1> DEFINE Bounded(T) == \E m \in Nat : \A n \in T : n <= m
           Unbounded == {T \in FiniteSubsetsOf(S) : ~Bounded(T)}
<1> SUFFICES ASSUME ~Bounded(S)
             PROVE  FALSE
  OBVIOUS
<1>1. S \in Unbounded
  BY DEF FiniteSubsetsOf
<1>2. IsWellFoundedOn(StrictSubsetOrdering(S), FiniteSubsetsOf(S))
  BY FS_StrictSubsetOrderingWellFounded
<1>3. PICK T \in Unbounded : \A U \in Unbounded : <<U, T>> \notin StrictSubsetOrdering(S)
  <2> HIDE DEF Bounded
  <2>1. Unbounded \subseteq FiniteSubsetsOf(S) /\ Unbounded # {}
    BY <1>1
  <2> HIDE DEF Unbounded
  <2> QED
    BY <1>2, <2>1, WFMin
<1>4. T \in SUBSET S /\ IsFiniteSet(T) /\ ~Bounded(T)
  BY <1>3 DEF FiniteSubsetsOf
<1>5. PICK x \in T : TRUE
  BY <1>4
<1>6. T \ {x} \in SUBSET S /\ IsFiniteSet(T \ {x}) /\ T \ {x} # T
  BY <1>4, <1>5, FS_RemoveElement
<1>7. Bounded(T \ {x})
  <2>1. <<T \ {x}, T>> \in StrictSubsetOrdering(S)
    BY <1>4, <1>6 DEF StrictSubsetOrdering
  <2> QED
    BY <1>3, <1>6, <2>1 DEF FiniteSubsetsOf
<1>8. PICK m \in Nat : \A n \in T \ {x} : n <= m
  BY <1>7
<1>9. m + x \in Nat /\ \A n \in T : n <= m + x
  BY <1>4, <1>5, <1>8
<1> QED
  BY <1>4, <1>9

\* The extremes of a finite set of numbers.
LEMMA Extremes ==
  ASSUME NEW S \in SUBSET Nat, S # {}
  PROVE  /\ Min(S) \in S /\ \A x \in S : Min(S) <= x
         /\ IsFiniteSet(S) => Max(S) \in S /\ \A x \in S : x <= Max(S)
<1>1. Min(S) \in S /\ \A x \in S : Min(S) <= x
  BY LeastNumber DEF Min
<1>2. ASSUME IsFiniteSet(S)
      PROVE  Max(S) \in S /\ \A x \in S : x <= Max(S)
  <2> DEFINE Bounds == {b \in Nat : \A x \in S : x <= b}
  <2>1. PICK m \in Bounds : \A b \in Bounds : m <= b
    <3>1. Bounds \in SUBSET Nat /\ Bounds # {}
      BY <1>2, FiniteIsBounded
    <3> HIDE DEF Bounds
    <3> QED
      BY <3>1, LeastNumber
  <2>2. ASSUME m \notin S
        PROVE  FALSE
    <3>1. m \in Nat /\ \A x \in S : x \in Nat /\ x < m
      BY <2>2
    <3>2. m - 1 \in Nat /\ \A x \in S : x <= m - 1
      <4>1. PICK x \in S : TRUE
        OBVIOUS
      <4>2. m # 0
        BY <3>1, <4>1
      <4> HIDE DEF Bounds
      <4> QED
        BY <3>1, <4>2
    <3> QED
      BY <2>1, <3>1, <3>2
  <2>3. \A x \in S : m >= x
    OBVIOUS
  <2>4. Max(S) \in S /\ \A x \in S : Max(S) >= x
    BY <2>2, <2>3 DEF Max
  <2> QED
    BY <2>4
<1> QED
  BY <1>1, <1>2

-----------------------------------------------------------------------------
(* Business days *)

\* The business days after day d, up to day e.
BusinessDays(d, e) == {x \in (d + 1)..e : IsBusinessDay(x)}
Count(d, e) == Cardinality(BusinessDays(d, e))

LEMMA CountIsNumber ==
  ASSUME NEW d \in Nat, NEW e \in Nat
  PROVE  /\ IsFiniteSet(BusinessDays(d, e))
         /\ Count(d, e) \in Nat
         /\ e <= d => BusinessDays(d, e) = {} /\ Count(d, e) = 0
<1>1. IsFiniteSet((d + 1)..e) /\ BusinessDays(d, e) \in SUBSET ((d + 1)..e)
  BY FS_Interval DEF BusinessDays
<1>2. IsFiniteSet(BusinessDays(d, e))
  BY <1>1, FS_Subset
<1>3. e <= d => BusinessDays(d, e) = {}
  BY DEF BusinessDays
<1> QED
  BY <1>2, <1>3, FS_CardinalityType, FS_EmptySet DEF Count

LEMMA CountMonotone ==
  ASSUME NEW d \in Nat, NEW e \in Nat, NEW dd \in Nat, NEW ee \in Nat, d <= dd, ee <= e
  PROVE  /\ Count(dd, ee) <= Count(d, e)
         /\ (\E x \in BusinessDays(d, e) : x \notin BusinessDays(dd, ee))
            => Count(dd, ee) < Count(d, e)
<1>1. BusinessDays(dd, ee) \in SUBSET BusinessDays(d, e)
  BY DEF BusinessDays
<1>2. IsFiniteSet(BusinessDays(d, e)) /\ Count(d, e) \in Nat /\ Count(dd, ee) \in Nat
  BY CountIsNumber
<1>3. /\ Count(dd, ee) <= Count(d, e)
      /\ Count(d, e) = Count(dd, ee) => BusinessDays(d, e) = BusinessDays(dd, ee)
  BY <1>1, <1>2, FS_Subset DEF Count
<1> QED
  BY <1>2, <1>3

\* One day more, at either end.
LEMMA CountStep ==
  ASSUME NEW d \in Nat, NEW e \in Nat, d <= e
  PROVE  /\ Count(d, e + 1) = Count(d, e) + (IF IsBusinessDay(e + 1) THEN 1 ELSE 0)
         /\ d < e => Count(d, e) = Count(d + 1, e) + (IF IsBusinessDay(d + 1) THEN 1 ELSE 0)
<1>1. BusinessDays(d, e + 1)
        = BusinessDays(d, e) \cup (IF IsBusinessDay(e + 1) THEN {e + 1} ELSE {})
  BY DEF BusinessDays
<1>2. e + 1 \notin BusinessDays(d, e)
  BY DEF BusinessDays
<1>3. ASSUME d < e
      PROVE  /\ BusinessDays(d, e)
                  = BusinessDays(d + 1, e) \cup (IF IsBusinessDay(d + 1) THEN {d + 1} ELSE {})
             /\ d + 1 \notin BusinessDays(d + 1, e)
  BY <1>3 DEF BusinessDays
<1>4. IsFiniteSet(BusinessDays(d, e)) /\ IsFiniteSet(BusinessDays(d + 1, e))
      /\ Count(d, e) \in Nat /\ Count(d + 1, e) \in Nat
  <2>1. d + 1 \in Nat
    OBVIOUS
  <2> QED
    BY <2>1, CountIsNumber
<1>5. ASSUME NEW S, NEW T, IsFiniteSet(S), NEW x, x \notin S, NEW P \in BOOLEAN,
             T = S \cup (IF P THEN {x} ELSE {}), Cardinality(S) \in Nat
      PROVE  Cardinality(T) = Cardinality(S) + (IF P THEN 1 ELSE 0)
  <2>1. CASE P
    BY <1>5, <2>1, FS_AddElement
  <2>2. CASE ~P
    BY <1>5, <2>2
  <2> QED
    BY <2>1, <2>2
<1>6. \A x : IsBusinessDay(x) \in BOOLEAN
  BY DEF IsBusinessDay
<1>7. Count(d, e + 1) = Count(d, e) + (IF IsBusinessDay(e + 1) THEN 1 ELSE 0)
  BY <1>1, <1>2, <1>4, <1>5, <1>6, Zenon DEF Count
<1>8. d < e => Count(d, e) = Count(d + 1, e) + (IF IsBusinessDay(d + 1) THEN 1 ELSE 0)
  BY <1>3, <1>4, <1>5, <1>6, Zenon DEF Count
<1> QED
  BY <1>7, <1>8

\* The list of closures ends, and a weekend has two days.
LEMMA BusinessDayAfter ==
  ASSUME NEW d \in Nat
  PROVE  \E e \in Nat : d < e /\ IsBusinessDay(e)
<1>1. PICK last \in Nat : \A h \in Holidays : h <= last
  BY HolidaysAssumption, FiniteIsBounded
<1>2. PICK e \in {d + last + 1, d + last + 2, d + last + 3} : ~(e % 7 \in {5, 6})
  OBVIOUS
<1>3. e \in Nat /\ d < e /\ last < e
  BY <1>2
<1>4. e \notin Holidays
  BY <1>1, <1>3
<1>5. ~IsWeekend(e)
  BY <1>2 DEF IsWeekend
<1> QED
  BY <1>3, <1>4, <1>5 DEF IsBusinessDay

LEMMA CountReached ==
  ASSUME NEW d \in Nat, NEW n \in Nat
  PROVE  \E e \in Nat : d <= e /\ Count(d, e) = n
<1> DEFINE Reached(k) == \E e \in Nat : d <= e /\ Count(d, e) = k
           S == {k \in Nat : Reached(k)}
<1>1. 0 \in S
  BY CountIsNumber
<1>2. ASSUME NEW k \in Nat, k \in S
      PROVE  k + 1 \in S
  <2>1. PICK e \in Nat : d <= e /\ Count(d, e) = k
    BY <1>2
  <2> DEFINE T == {x \in Nat : e < x /\ IsBusinessDay(x)}
  <2>2. PICK x \in T : \A y \in T : x <= y
    <3>1. T \in SUBSET Nat /\ T # {}
      BY BusinessDayAfter
    <3> HIDE DEF T
    <3> QED
      BY <3>1, LeastNumber
  <2>3. x \in Nat /\ e < x /\ IsBusinessDay(x)
    OBVIOUS
  <2>4. \A y \in Nat : e < y /\ y < x => ~IsBusinessDay(y)
    BY <2>2, <2>3
  <2>5. BusinessDays(d, x - 1) = BusinessDays(d, e)
    BY <2>1, <2>3, <2>4 DEF BusinessDays
  <2>6. Count(d, x) = k + 1
    <3>1. x - 1 \in Nat /\ d <= x - 1 /\ (x - 1) + 1 = x
      BY <2>1, <2>3
    <3>2. Count(d, (x - 1) + 1) = Count(d, x - 1) + 1
      BY <2>3, <3>1, CountStep
    <3> QED
      BY <2>1, <2>5, <3>1, <3>2 DEF Count
  <2> QED
    BY <2>1, <2>3, <2>6
<1> HIDE DEF Reached
<1>3. Nat \subseteq S
  BY <1>1, <1>2, Induction
<1> QED
  BY <1>3 DEF Reached

\* The first day by which n business days after day d have begun.
IsReach(d, n, e) == /\ e \in Nat /\ d <= e /\ Count(d, e) = n
                    /\ \A m \in Nat : d <= m /\ Count(d, m) = n => e <= m
Reach(d, n) == CHOOSE e : IsReach(d, n, e)

LEMMA ReachExists ==
  ASSUME NEW d \in Nat, NEW n \in Nat
  PROVE  /\ IsReach(d, n, Reach(d, n))
         /\ \A e : IsReach(d, n, e) => e = Reach(d, n)
<1> DEFINE T == {e \in Nat : d <= e /\ Count(d, e) = n}
<1>1. PICK e \in T : \A m \in T : e <= m
  <2>1. T \in SUBSET Nat /\ T # {}
    BY CountReached
  <2> HIDE DEF T
  <2> QED
    BY <2>1, LeastNumber
<1>2. IsReach(d, n, e)
  BY <1>1 DEF IsReach
<1>3. IsReach(d, n, Reach(d, n))
  BY <1>2 DEF Reach
<1>4. ASSUME NEW x, NEW y, IsReach(d, n, x), IsReach(d, n, y)
      PROVE  x = y
  <2>1. x \in Nat /\ y \in Nat /\ x <= y /\ y <= x
    BY <1>4 DEF IsReach
  <2> QED
    BY <2>1
<1> QED
  BY <1>3, <1>4

\* It is the day itself, or a business day after it.
LEMMA ReachIsBusinessDay ==
  ASSUME NEW d \in Nat, NEW n \in Nat
  PROVE  /\ n = 0 => Reach(d, n) = d
         /\ n > 0 => d < Reach(d, n) /\ IsBusinessDay(Reach(d, n))
<1> DEFINE e == Reach(d, n)
<1>1. /\ e \in Nat /\ d <= e /\ Count(d, e) = n
      /\ \A m \in Nat : d <= m /\ Count(d, m) = n => e <= m
  BY ReachExists DEF IsReach
<1>2. Count(d, d) = 0
  BY CountIsNumber
<1> HIDE DEF e
<1>3. ASSUME n > 0
      PROVE  d < e /\ IsBusinessDay(e)
  <2>1. d < e /\ e - 1 \in Nat /\ d <= e - 1 /\ (e - 1) + 1 = e
    BY <1>1, <1>2, <1>3
  <2>2. Count(d, (e - 1) + 1) = Count(d, e - 1) + (IF IsBusinessDay((e - 1) + 1) THEN 1 ELSE 0)
    BY <2>1, CountStep
  <2>3. Count(d, e - 1) \in Nat
    BY <2>1, CountIsNumber
  <2>4. ~IsBusinessDay(e) => Count(d, e - 1) = n
    BY <1>1, <2>1, <2>2, <2>3
  <2> QED
    BY <1>1, <2>1, <2>4
<1> QED
  BY <1>1, <1>2, <1>3 DEF e

\* One step of the loop does not change where it ends.
LEMMA ReachStep ==
  ASSUME NEW d \in Nat, NEW n \in Nat \ {0}
  PROVE  Reach(d, n) = Reach(d + 1, IF IsBusinessDay(d + 1) THEN n - 1 ELSE n)
<1> DEFINE e == Reach(d, n)
           k == IF IsBusinessDay(d + 1) THEN n - 1 ELSE n
<1>1. k \in Nat /\ d + 1 \in Nat /\ n = k + (IF IsBusinessDay(d + 1) THEN 1 ELSE 0)
  OBVIOUS
<1>2. /\ e \in Nat /\ d < e /\ Count(d, e) = n
      /\ \A m \in Nat : d <= m /\ Count(d, m) = n => e <= m
  BY ReachExists, ReachIsBusinessDay DEF IsReach
<1>3. ASSUME NEW m \in Nat, d < m
      PROVE  Count(d, m) = n <=> Count(d + 1, m) = k
  <2>1. Count(d, m) = Count(d + 1, m) + (IF IsBusinessDay(d + 1) THEN 1 ELSE 0)
    BY <1>3, CountStep
  <2>2. Count(d, m) \in Nat /\ Count(d + 1, m) \in Nat
    BY <1>1, CountIsNumber
  <2> HIDE DEF k
  <2> QED
    BY <1>1, <2>1, <2>2
<1>4. IsReach(d + 1, k, e)
  <2> HIDE DEF e, k
  <2> QED
    BY <1>1, <1>2, <1>3 DEF IsReach
<1> HIDE DEF e, k
<1>5. e = Reach(d + 1, k)
  BY <1>1, <1>4, ReachExists
<1> QED
  BY <1>5 DEF e, k

\* addDays' loop ends, wherever it starts, on the day Reach names.
IsWalk(w) ==
  w = [at \in Nat \X Nat |->
         IF at[2] = 0 THEN at[1]
         ELSE w[<<at[1] + 1, IF IsBusinessDay(at[1] + 1) THEN at[2] - 1 ELSE at[2]>>]]

LEMMA WalkStep ==
  ASSUME NEW w, IsWalk(w), NEW d \in Nat, NEW n \in Nat
  PROVE  w[<<d, n>>] = IF n = 0 THEN d
                       ELSE w[<<d + 1, IF IsBusinessDay(d + 1) THEN n - 1 ELSE n>>]
<1>1. <<d, n>> \in Nat \X Nat /\ <<d, n>>[1] = d /\ <<d, n>>[2] = n
  OBVIOUS
<1> QED
  BY <1>1 DEF IsWalk

LEMMA WalkExists == IsWalk(Walk)
<1> DEFINE f == [at \in Nat \X Nat |-> Reach(at[1], at[2])]
<1>1. ASSUME NEW at \in Nat \X Nat
      PROVE  f[at] = IF at[2] = 0 THEN at[1]
                     ELSE f[<<at[1] + 1, IF IsBusinessDay(at[1] + 1) THEN at[2] - 1 ELSE at[2]>>]
  <2>1. PICK d \in Nat, n \in Nat : at = <<d, n>>
    OBVIOUS
  <2>2. CASE n = 0
    BY <2>1, <2>2, ReachIsBusinessDay
  <2>3. CASE n # 0
    <3> DEFINE k == IF IsBusinessDay(d + 1) THEN n - 1 ELSE n
    <3>1. k \in Nat /\ d + 1 \in Nat
      BY <2>3
    <3>2. Reach(d, n) = Reach(d + 1, k)
      BY <2>3, ReachStep
    <3> HIDE DEF k
    <3>3. f[<<d + 1, k>>] = Reach(d + 1, k) /\ f[<<d, n>>] = Reach(d, n)
      BY <3>1
    <3> QED
      BY <2>1, <2>3, <3>2, <3>3 DEF k
  <2> QED
    BY <2>2, <2>3
<1>2. IsWalk(f)
  <2> DEFINE g == [at \in Nat \X Nat |->
                     IF at[2] = 0 THEN at[1]
                     ELSE f[<<at[1] + 1, IF IsBusinessDay(at[1] + 1) THEN at[2] - 1 ELSE at[2]>>]]
  <2>1. \A at \in Nat \X Nat : f[at] = g[at]
    BY <1>1
  <2>2. f = g
    BY <2>1
  <2> QED
    BY <2>2 DEF IsWalk
<1>3. Walk = CHOOSE w : IsWalk(w)
  BY DEF Walk, IsWalk
<1> HIDE DEF f
<1> QED
  BY <1>2, <1>3

LEMMA WalkReaches ==
  ASSUME NEW d \in Nat, NEW n \in Nat
  PROVE  Walk[<<d, n>>] = Reach(d, n)
<1> DEFINE Good(k) == \A b \in Nat, m \in Nat : Reach(b, m) = b + k => Walk[<<b, m>>] = b + k
           S == {k \in Nat : Good(k)}
<1>1. 0 \in S
  <2> SUFFICES ASSUME NEW b \in Nat, NEW m \in Nat, Reach(b, m) = b + 0
               PROVE  Walk[<<b, m>>] = b + 0
    OBVIOUS
  <2>1. m = 0
    BY ReachIsBusinessDay
  <2>2. Walk[<<b, m>>] = IF m = 0 THEN b
                         ELSE Walk[<<b + 1, IF IsBusinessDay(b + 1) THEN m - 1 ELSE m>>]
    BY WalkExists, WalkStep
  <2> QED
    BY <2>1, <2>2
<1>2. ASSUME NEW k \in Nat, k \in S
      PROVE  k + 1 \in S
  <2> SUFFICES ASSUME NEW b \in Nat, NEW m \in Nat, Reach(b, m) = b + (k + 1)
               PROVE  Walk[<<b, m>>] = b + (k + 1)
    OBVIOUS
  <2>1. m # 0
    BY ReachIsBusinessDay
  <2> DEFINE j == IF IsBusinessDay(b + 1) THEN m - 1 ELSE m
  <2>2. j \in Nat /\ b + 1 \in Nat
    BY <2>1
  <2>3. Walk[<<b, m>>] = Walk[<<b + 1, j>>]
    BY <2>1, WalkExists, WalkStep
  <2>4. Reach(b, m) = Reach(b + 1, j)
    BY <2>1, ReachStep
  <2> HIDE DEF j
  <2>5. Reach(b + 1, j) = (b + 1) + k
    BY <2>4
  <2>6. Walk[<<b + 1, j>>] = (b + 1) + k
    BY <1>2, <2>2, <2>5
  <2> QED
    BY <2>3, <2>6
<1> HIDE DEF Good
<1>3. Nat \subseteq S
  BY <1>1, <1>2, Induction
<1>4. Reach(d, n) \in Nat /\ d <= Reach(d, n)
  BY ReachExists DEF IsReach
<1>5. PICK k \in Nat : Reach(d, n) = d + k
  <2>1. Reach(d, n) - d \in Nat /\ Reach(d, n) = d + (Reach(d, n) - d)
    BY <1>4
  <2> QED
    BY <2>1
<1>6. Good(k)
  BY <1>3
<1> QED
  BY <1>5, <1>6 DEF Good

\* A day has come to n business days after d when so many have been counted.
LEMMA ReachedByCount ==
  ASSUME NEW d \in Nat, NEW n \in Nat \ {0}, NEW e \in Nat
  PROVE  Reach(d, n) <= e <=> n <= Count(d, e)
<1> DEFINE r == Reach(d, n)
<1>1. r \in Nat /\ d < r /\ Count(d, r) = n /\ IsBusinessDay(r)
  BY ReachExists, ReachIsBusinessDay DEF IsReach
<1> HIDE DEF r
<1>2. r <= e => n <= Count(d, e)
  BY <1>1, CountMonotone
<1>3. ASSUME e < r
      PROVE  Count(d, e) < n
  <2>1. r \in BusinessDays(d, r) /\ r \notin BusinessDays(d, e)
    BY <1>1, <1>3 DEF BusinessDays
  <2> QED
    BY <1>1, <1>3, <2>1, CountMonotone
<1>4. Count(d, e) \in Nat
  BY CountIsNumber
<1> QED
  BY <1>1, <1>2, <1>3, <1>4 DEF r

LEMMA ReachMonotone ==
  ASSUME NEW d \in Nat, NEW dd \in Nat, d <= dd, NEW n \in Nat
  PROVE  Reach(d, n) <= Reach(dd, n)
<1>1. Reach(dd, n) \in Nat /\ dd <= Reach(dd, n) /\ Count(dd, Reach(dd, n)) = n
  BY ReachExists DEF IsReach
<1>2. CASE n = 0
  BY <1>1, <1>2, ReachIsBusinessDay
<1>3. CASE n # 0
  <2>1. n <= Count(d, Reach(dd, n))
    BY <1>1, CountMonotone
  <2> QED
    BY <1>1, <1>3, <2>1, ReachedByCount
<1> QED
  BY <1>2, <1>3

-----------------------------------------------------------------------------
(* addDays *)

LEMMA DatesAreNumbers ==
  ASSUME NEW t \in Nat
  PROVE  /\ DateOf(t) \in Nat
         /\ DateOnly(t) \in Nat /\ DateOf(DateOnly(t)) = t
         /\ \A u \in Nat : t <= u => DateOf(t) <= DateOf(u) /\ DateOnly(t) <= DateOnly(u)
         /\ \A u \in Nat : DateOnly(t) <= u <=> t <= DateOf(u)
BY DEF DateOf, DateOnly

\* n business days are added by going to the day that Reach names.
LEMMA BusinessDaysAdded ==
  ASSUME NEW t \in Nat, NEW n \in Nat
  PROVE  AddDays(t, n, "business_day") = DateOnly(Reach(DateOf(t), n))
BY DatesAreNumbers, WalkReaches DEF AddDays

\* A later start never gives an earlier date.
LEMMA AddDaysMonotone ==
  ASSUME NEW t \in Nat, NEW n \in Nat, NEW unit
  PROVE  /\ AddDays(t, n, unit) \in Nat
         /\ \A u \in Nat : t <= u => AddDays(t, n, unit) <= AddDays(u, n, unit)
<1>1. DateOf(t) \in Nat
  BY DatesAreNumbers
<1>2. CASE unit = "calendar_day"
  <2>1. \A u \in Nat : AddDays(u, n, unit) = DateOnly(DateOf(u) + n) /\ DateOf(u) + n \in Nat
    BY <1>2, DatesAreNumbers DEF AddDays
  <2>2. \A u \in Nat : t <= u => DateOf(t) + n <= DateOf(u) + n
    BY DatesAreNumbers
  <2> QED
    BY <2>1, <2>2, DatesAreNumbers
<1>3. CASE unit # "calendar_day"
  <2>1. \A u \in Nat : /\ AddDays(u, n, unit) = DateOnly(Reach(DateOf(u), n))
                       /\ Reach(DateOf(u), n) \in Nat
    BY <1>3, DatesAreNumbers, WalkReaches, ReachExists DEF AddDays, IsReach
  <2>2. \A u \in Nat : t <= u => Reach(DateOf(t), n) <= Reach(DateOf(u), n)
    BY <1>1, DatesAreNumbers, ReachMonotone
  <2> QED
    BY <2>1, <2>2, DatesAreNumbers
<1> QED
  BY <1>2, <1>3

-----------------------------------------------------------------------------
(* The first event of a type, in a log of dated events *)

IsDated(E) == \A e \in E : e.at \in Nat

IsFirst(l, t, i) == i \in OfType(l, t) /\ \A j \in OfType(l, t) \ {i} : Before(l, i, j)

LEMMA LogEntries ==
  ASSUME NEW E, IsDated(E), NEW l \in Seq(E)
  PROVE  /\ Len(l) \in Nat /\ DOMAIN l = 1..Len(l)
         /\ \A i \in DOMAIN l : i \in Nat /\ l[i] \in E /\ l[i].at \in Nat
BY DEF IsDated

LEMMA FirstIsUnique ==
  ASSUME NEW E, IsDated(E), NEW l \in Seq(E), NEW t, NEW i, IsFirst(l, t, i)
  PROVE  First(l, t) = i /\ FirstAt(l, t) = l[i].at
<1>1. ASSUME NEW k, IsFirst(l, t, k)
      PROVE  k = i
  <2> SUFFICES ASSUME k # i
               PROVE  FALSE
    OBVIOUS
  <2>1. i \in DOMAIN l /\ k \in DOMAIN l
    BY <1>1 DEF IsFirst, OfType
  <2>2. i \in Nat /\ k \in Nat /\ l[i].at \in Nat /\ l[k].at \in Nat
    BY <2>1, LogEntries
  <2>3. Before(l, i, k) /\ Before(l, k, i)
    BY <1>1 DEF IsFirst
  <2> QED
    BY <2>2, <2>3 DEF Before
<1>2. First(l, t) = i
  BY <1>1 DEF First, IsFirst
<1> QED
  BY <1>2 DEF FirstAt, IsFirst

\* Of every recorded type, some event is the first.
LEMMA FirstsExist ==
  ASSUME NEW E, IsDated(E), NEW l \in Seq(E), NEW t, OfType(l, t) # {}
  PROVE  /\ IsFirst(l, t, First(l, t))
         /\ First(l, t) \in DOMAIN l
         /\ FirstAt(l, t) = l[First(l, t)].at
         /\ FirstAt(l, t) \in Nat
<1>1. /\ \A i \in DOMAIN l : i \in Nat /\ l[i].at \in Nat
      /\ OfType(l, t) \subseteq DOMAIN l
  BY LogEntries DEF OfType
<1> DEFINE Times == {l[i].at : i \in OfType(l, t)}
<1>2. PICK at \in Times : \A u \in Times : at <= u
  <2>1. Times \in SUBSET Nat /\ Times # {}
    BY <1>1
  <2> HIDE DEF Times
  <2> QED
    BY <2>1, LeastNumber
<1> DEFINE Places == {i \in OfType(l, t) : l[i].at = at}
<1>3. PICK i \in Places : \A j \in Places : i <= j
  <2>1. Places \in SUBSET Nat /\ Places # {}
    BY <1>1
  <2> HIDE DEF Places
  <2> QED
    BY <2>1, LeastNumber
<1>4. i \in OfType(l, t) /\ l[i].at = at /\ at \in Nat /\ i \in Nat
  BY <1>1
<1>5. ASSUME NEW j \in OfType(l, t) \ {i}
      PROVE  Before(l, i, j)
  <2>1. j \in Nat /\ l[j].at \in Nat /\ at <= l[j].at
    BY <1>1, <1>2
  <2>2. l[j].at = at => i <= j
    BY <1>3, <1>5
  <2> QED
    BY <1>4, <2>1, <2>2 DEF Before
<1>6. IsFirst(l, t, i)
  BY <1>4, <1>5 DEF IsFirst
<1>7. First(l, t) = i /\ FirstAt(l, t) = l[i].at
  BY <1>6, FirstIsUnique
<1> QED
  BY <1>1, <1>4, <1>6, <1>7

LEMMA NothingIsNoDate ==
  ASSUME NEW E, IsDated(E), NEW l \in Seq(E), NEW t
  PROVE  /\ FirstAt(l, t) = NoDate <=> OfType(l, t) = {}
         /\ FirstAt(l, t) \in Nat \cup {NoDate}
         /\ FirstAt(l, t) # NoDate => \E i \in DOMAIN l : l[i].type = t /\ l[i].at = FirstAt(l, t)
<1>1. CASE OfType(l, t) = {}
  BY <1>1 DEF FirstAt
<1>2. CASE OfType(l, t) # {}
  <2>1. IsFirst(l, t, First(l, t)) /\ FirstAt(l, t) = l[First(l, t)].at /\ FirstAt(l, t) \in Nat
    BY <1>2, FirstsExist
  <2> QED
    BY <1>2, <2>1, NoDateAssumption DEF IsFirst, OfType
<1> QED
  BY <1>1, <1>2

-----------------------------------------------------------------------------
(* Recording one more event *)

LEMMA AppendedTypes ==
  ASSUME NEW E, IsDated(E), NEW l \in Seq(E), NEW e \in E, NEW t
  PROVE  /\ Append(l, e) \in Seq(E) /\ e.at \in Nat /\ Len(l) \in Nat
         /\ Len(Append(l, e)) = Len(l) + 1 /\ Append(l, e)[Len(l) + 1] = e
         /\ \A i \in DOMAIN l : i \in Nat /\ i < Len(l) + 1 /\ Append(l, e)[i] = l[i]
         /\ OfType(Append(l, e), t)
              = OfType(l, t) \cup (IF e.type = t THEN {Len(l) + 1} ELSE {})
BY DEF OfType, IsDated

\* A first event stays the first when a later one is recorded, and otherwise
\* gives way to the new one.
LEMMA FirstAfterAppend ==
  ASSUME NEW E, IsDated(E), NEW l \in Seq(E), NEW e \in E, NEW t, NEW i, IsFirst(l, t, i)
  PROVE  IF e.type = t /\ e.at < l[i].at THEN IsFirst(Append(l, e), t, Len(l) + 1)
                                         ELSE IsFirst(Append(l, e), t, i)
<1> DEFINE m == Append(l, e)
           n == Len(l) + 1
<1>1. /\ \A k \in DOMAIN l : k \in Nat /\ k < n /\ l[k].at \in Nat /\ m[k] = l[k]
      /\ n \in Nat /\ m[n] = e /\ e.at \in Nat
  <2>1. \A k \in DOMAIN l : k \in Nat /\ l[k].at \in Nat
    BY LogEntries
  <2> QED
    BY <2>1, AppendedTypes
<1>2. OfType(m, t) = OfType(l, t) \cup (IF e.type = t THEN {n} ELSE {})
  BY AppendedTypes
<1>3. OfType(l, t) \subseteq DOMAIN l /\ i \in OfType(l, t)
  BY DEF OfType, IsFirst
<1>4. \A j \in OfType(l, t) \ {i} : Before(l, i, j)
  BY DEF IsFirst
<1> HIDE DEF m, n
<1>5. CASE e.type = t /\ e.at < l[i].at
  <2>1. ASSUME NEW j \in OfType(m, t) \ {n}
        PROVE  Before(m, n, j)
    <3>1. j \in OfType(l, t) /\ j \in DOMAIN l
      BY <1>2, <1>3, <2>1
    <3>2. l[i].at <= l[j].at
      BY <1>1, <1>3, <1>4, <3>1 DEF Before
    <3> QED
      BY <1>1, <1>3, <1>5, <3>1, <3>2 DEF Before
  <2> QED
    BY <1>2, <1>5, <2>1 DEF IsFirst, m, n
<1>6. CASE ~(e.type = t /\ e.at < l[i].at)
  <2>1. ASSUME NEW j \in OfType(m, t) \ {i}
        PROVE  Before(m, i, j)
    <3>1. CASE j \in OfType(l, t)
      BY <1>1, <1>3, <1>4, <2>1, <3>1 DEF Before
    <3>2. CASE e.type = t /\ j = n
      BY <1>1, <1>3, <1>6, <3>2 DEF Before
    <3> QED
      BY <1>2, <2>1, <3>1, <3>2
  <2> QED
    BY <1>2, <1>3, <1>6, <2>1 DEF IsFirst, m, n
<1> QED
  BY <1>5, <1>6

\* What one more record does to the time of the first event of a type, whenever
\* the event occurred: the new event's time counts if it is the first of its
\* type or earlier than the others.
LEMMA FirstAtAfterAppend ==
  ASSUME NEW E, IsDated(E), NEW l \in Seq(E), NEW e \in E, NEW t
  PROVE  FirstAt(Append(l, e), t)
           = IF e.type = t /\ (FirstAt(l, t) = NoDate \/ e.at < FirstAt(l, t))
             THEN e.at ELSE FirstAt(l, t)
<1>0. Append(l, e) \in Seq(E)
  BY AppendedTypes
<1>1. CASE OfType(l, t) # {}
  <2> DEFINE i == First(l, t)
  <2>1. /\ IsFirst(l, t, i) /\ FirstAt(l, t) = l[i].at /\ FirstAt(l, t) \in Nat /\ i \in DOMAIN l
        /\ FirstAt(l, t) # NoDate
    BY <1>1, FirstsExist, NothingIsNoDate
  <2> HIDE DEF i
  <2>2. CASE e.type = t /\ e.at < l[i].at
    <3>1. IsFirst(Append(l, e), t, Len(l) + 1)
      BY <2>1, <2>2, FirstAfterAppend
    <3>2. FirstAt(Append(l, e), t) = Append(l, e)[Len(l) + 1].at
      BY <1>0, <3>1, FirstIsUnique
    <3> QED
      BY <2>1, <2>2, <3>2, AppendedTypes
  <2>3. CASE ~(e.type = t /\ e.at < l[i].at)
    <3>1. IsFirst(Append(l, e), t, i)
      BY <2>1, <2>3, FirstAfterAppend
    <3>2. FirstAt(Append(l, e), t) = Append(l, e)[i].at
      BY <1>0, <3>1, FirstIsUnique
    <3> QED
      BY <2>1, <2>3, <3>2, AppendedTypes
  <2> QED
    BY <2>2, <2>3
<1>2. CASE OfType(l, t) = {} /\ e.type # t
  BY <1>2, AppendedTypes DEF FirstAt
<1>3. CASE OfType(l, t) = {} /\ e.type = t
  <2>1. IsFirst(Append(l, e), t, Len(l) + 1)
    BY <1>3, AppendedTypes DEF IsFirst
  <2>2. FirstAt(Append(l, e), t) = Append(l, e)[Len(l) + 1].at
    BY <1>0, <2>1, FirstIsUnique
  <2>3. FirstAt(l, t) = NoDate
    BY <1>3 DEF FirstAt
  <2> QED
    BY <1>3, <2>2, <2>3, AppendedTypes
<1> QED
  BY <1>1, <1>2, <1>3

\* An event that occurs with or after all others moves no first event, and is
\* the first of its type only if there was none.
LEMMA LateEventsMoveNothing ==
  ASSUME NEW E, IsDated(E), NEW l \in Seq(E), NEW e \in E, NEW t,
         \A i \in DOMAIN l : l[i].at <= e.at
  PROVE  /\ \/ FirstAt(Append(l, e), t) = FirstAt(l, t)
            \/ FirstAt(l, t) = NoDate /\ FirstAt(Append(l, e), t) = e.at /\ e.type = t
         /\ FirstAt(l, t) # NoDate => FirstAt(l, t) \in Nat /\ FirstAt(l, t) <= e.at
<1>1. FirstAt(l, t) # NoDate => FirstAt(l, t) \in Nat /\ FirstAt(l, t) <= e.at
  BY NothingIsNoDate
<1>2. e.at \in Nat
  BY AppendedTypes
<1> QED
  BY <1>1, <1>2, FirstAtAfterAppend

LEMMA FirstStaysFirst ==
  ASSUME NEW E, IsDated(E), NEW l \in Seq(E), NEW e \in E, NEW t,
         \A i \in DOMAIN l : l[i].at <= e.at, OfType(l, t) # {}
  PROVE  First(Append(l, e), t) = First(l, t) /\ Append(l, e)[First(l, t)] = l[First(l, t)]
<1>1. IsFirst(l, t, First(l, t)) /\ First(l, t) \in DOMAIN l /\ l[First(l, t)].at \in Nat
  BY FirstsExist
<1>2. Append(l, e) \in Seq(E) /\ e.at \in Nat /\ Append(l, e)[First(l, t)] = l[First(l, t)]
  BY <1>1, AppendedTypes
<1>3. IsFirst(Append(l, e), t, First(l, t))
  BY <1>1, <1>2, FirstAfterAppend
<1> QED
  BY <1>2, <1>3, FirstIsUnique

-----------------------------------------------------------------------------
(* Findings, when facts are recorded in the order they occurred *)

Kinds == {"required_event", "required_before", "minimum_lead_time"}

\* The constraint, before the exception is looked at.
LEMMA ConstraintIsFinal ==
  ASSUME NEW E, IsDated(E), NEW l \in Seq(E), NEW e \in E, NEW r, r.kind \in Kinds,
         \A i \in DOMAIN l : l[i].at <= e.at
  PROVE  /\ Constraint(r, l) \in {"UNDETERMINED", "CONFORMANT", "NONCONFORMANT"}
         /\ Constraint(r, Append(l, e)) \in {"UNDETERMINED", "CONFORMANT", "NONCONFORMANT"}
         /\ Constraint(r, l) = "CONFORMANT" => Constraint(r, Append(l, e)) = "CONFORMANT"
         /\ Constraint(r, l) = "NONCONFORMANT" =>
              \/ Constraint(r, Append(l, e)) = "NONCONFORMANT"
              \/ r.kind = "required_event" /\ Constraint(r, Append(l, e)) = "CONFORMANT"
<1> DEFINE m == Append(l, e)
<1>1. \A t : /\ \/ FirstAt(m, t) = FirstAt(l, t)
                \/ FirstAt(l, t) = NoDate /\ FirstAt(m, t) = e.at /\ e.type = t
             /\ FirstAt(l, t) # NoDate => FirstAt(l, t) \in Nat /\ FirstAt(l, t) <= e.at
  BY LateEventsMoveNothing
<1>2. e.at \in Nat /\ NoDate # e.at
  BY NoDateAssumption DEF IsDated
<1> HIDE DEF m
<1>3. CASE r.kind = "required_event"
  BY <1>1, <1>2, <1>3 DEF Constraint, RequiredEvent, m
<1>4. CASE r.kind = "required_before"
  BY <1>1, <1>2, <1>4 DEF Constraint, RequiredBefore, m
<1>5. CASE r.kind = "minimum_lead_time"
  BY <1>1, <1>2, <1>5 DEF Constraint, MinimumLeadTime, m
<1> QED
  BY <1>3, <1>4, <1>5 DEF Kinds

\* The finding: no question is opened that was answered.
LEMMA FindingIsFinal ==
  ASSUME NEW E, IsDated(E), NEW l \in Seq(E), NEW e \in E, NEW r, r.kind \in Kinds,
         \A i \in DOMAIN l : l[i].at <= e.at
  PROVE  Finding(r, Append(l, e)) \in
           CASE Finding(r, l) = "UNDETERMINED" ->
                  {"UNDETERMINED", "CONFORMANT", "NONCONFORMANT", "EXCEPTION_APPLIES"}
             [] Finding(r, l) = "CONFORMANT" -> {"CONFORMANT"}
             [] Finding(r, l) = "EXCEPTION_APPLIES" -> {"CONFORMANT", "EXCEPTION_APPLIES"}
             [] OTHER -> {"NONCONFORMANT", "CONFORMANT", "EXCEPTION_APPLIES"}
<1> DEFINE m == Append(l, e)
<1>1. \A t : FirstAt(l, t) # NoDate => FirstAt(m, t) = FirstAt(l, t)
  BY LateEventsMoveNothing
<1>2. /\ Constraint(r, l) \in {"UNDETERMINED", "CONFORMANT", "NONCONFORMANT"}
      /\ Constraint(r, m) \in {"UNDETERMINED", "CONFORMANT", "NONCONFORMANT"}
      /\ Constraint(r, l) = "CONFORMANT" => Constraint(r, m) = "CONFORMANT"
      /\ Constraint(r, l) = "NONCONFORMANT" => Constraint(r, m) \in {"NONCONFORMANT", "CONFORMANT"}
  BY ConstraintIsFinal
<1> HIDE DEF m
<1>3. \/ Finding(r, l) = "UNDETERMINED"
         /\ Finding(r, m) \in {"UNDETERMINED", "CONFORMANT", "NONCONFORMANT", "EXCEPTION_APPLIES"}
      \/ Finding(r, l) = "CONFORMANT" /\ Finding(r, m) = "CONFORMANT"
      \/ Finding(r, l) = "EXCEPTION_APPLIES" /\ Finding(r, m) \in {"CONFORMANT", "EXCEPTION_APPLIES"}
      \/ Finding(r, l) = "NONCONFORMANT"
         /\ Finding(r, m) \in {"NONCONFORMANT", "CONFORMANT", "EXCEPTION_APPLIES"}
  BY <1>1, <1>2 DEF Finding
<1> QED
  BY <1>3 DEF m

\* A finding depends on a log through the first times of its types of event.
LEMMA FindingOfTimes ==
  ASSUME NEW l, NEW m, \A t : FirstAt(l, t) = FirstAt(m, t), NEW r, r.kind \in Kinds
  PROVE  Constraint(r, l) = Constraint(r, m) /\ Finding(r, l) = Finding(r, m)
<1>1. RequiredEvent(r, l) = RequiredEvent(r, m)
  BY DEF RequiredEvent
<1>2. RequiredBefore(r, l) = RequiredBefore(r, m)
  BY DEF RequiredBefore
<1>3. MinimumLeadTime(r, l) = MinimumLeadTime(r, m)
  BY DEF MinimumLeadTime
<1>4. Constraint(r, l) = Constraint(r, m)
  BY <1>1, <1>2, <1>3 DEF Constraint, Kinds
<1> QED
  BY <1>4 DEF Finding

-----------------------------------------------------------------------------
(* Exchanging two neighbouring records *)

Exchanged(l, k) == [l EXCEPT ![k] = l[k + 1], ![k + 1] = l[k]]

LEMMA ExchangedLog ==
  ASSUME NEW E, NEW l \in Seq(E), NEW k \in 1..(Len(l) - 1)
  PROVE  /\ k \in DOMAIN l /\ k + 1 \in DOMAIN l
         /\ Exchanged(l, k) \in Seq(E) /\ DOMAIN Exchanged(l, k) = DOMAIN l
         /\ Exchanged(l, k)[k] = l[k + 1] /\ Exchanged(l, k)[k + 1] = l[k]
         /\ \A i \in DOMAIN l \ {k, k + 1} : Exchanged(l, k)[i] = l[i]
BY DEF Exchanged

\* The first event of a type is found where it has gone, or, when the two
\* exchanged are of that type and of the same instant, at the earlier place.
LEMMA FirstAfterExchange ==
  ASSUME NEW E, IsDated(E), NEW l \in Seq(E), NEW k \in 1..(Len(l) - 1), NEW t, NEW i, IsFirst(l, t, i)
  PROVE  \E j \in OfType(Exchanged(l, k), t) :
           IsFirst(Exchanged(l, k), t, j) /\ Exchanged(l, k)[j].at = l[i].at
<1> DEFINE m == Exchanged(l, k)
<1>1. /\ k \in DOMAIN l /\ k + 1 \in DOMAIN l /\ DOMAIN m = DOMAIN l
      /\ m[k] = l[k + 1] /\ m[k + 1] = l[k]
      /\ \A j \in DOMAIN l \ {k, k + 1} : m[j] = l[j]
  BY ExchangedLog
<1>2. k \in Nat /\ \A j \in DOMAIN l : j \in Nat /\ l[j].at \in Nat
  <2>1. \A j \in DOMAIN l : j \in Nat /\ l[j].at \in Nat
    BY LogEntries
  <2> QED
    BY <2>1
<1>3. i \in DOMAIN l /\ l[i].type = t
  BY DEF IsFirst, OfType
<1>4. \A j \in DOMAIN l \ {i} : l[j].type = t => Before(l, i, j)
  BY DEF IsFirst, OfType
<1> HIDE DEF m
<1>5. CASE i \notin {k, k + 1}
  <2>1. ASSUME NEW j \in DOMAIN m \ {i}, m[j].type = t
        PROVE  Before(m, i, j)
    <3>1. m[i] = l[i]
      BY <1>1, <1>3, <1>5
    <3>2. CASE j = k
      <4>1. m[j] = l[k + 1] /\ Before(l, i, k + 1)
        BY <1>1, <1>4, <1>5, <2>1, <3>2
      <4> QED
        BY <1>1, <1>2, <1>3, <1>5, <3>1, <3>2, <4>1 DEF Before
    <3>3. CASE j = k + 1
      <4>1. m[j] = l[k] /\ Before(l, i, k)
        BY <1>1, <1>4, <1>5, <2>1, <3>3
      <4> QED
        BY <1>1, <1>2, <1>3, <1>5, <3>1, <3>3, <4>1 DEF Before
    <3>4. CASE j \notin {k, k + 1}
      <4>1. m[j] = l[j] /\ Before(l, i, j)
        BY <1>1, <1>4, <2>1, <3>4
      <4> QED
        BY <3>1, <4>1 DEF Before
    <3> QED
      BY <3>2, <3>3, <3>4
  <2> QED
    BY <1>1, <1>3, <1>5, <2>1 DEF IsFirst, OfType, m
<1>6. CASE i = k /\ l[k + 1].type = t /\ l[k + 1].at = l[k].at
  <2>1. \A j \in DOMAIN m \ {k} : m[j].type = t => Before(m, k, j)
    BY <1>1, <1>2, <1>3, <1>4, <1>6 DEF Before
  <2> QED
    BY <1>1, <1>6, <2>1 DEF IsFirst, OfType, m
<1>7. CASE i = k /\ ~(l[k + 1].type = t /\ l[k + 1].at = l[k].at)
  <2>1. ASSUME NEW j \in DOMAIN m \ {k + 1}, m[j].type = t
        PROVE  Before(m, k + 1, j)
    <3>1. CASE j = k
      <4>1. Before(l, k, k + 1) /\ l[k + 1].at # l[k].at
        BY <1>1, <1>2, <1>4, <1>7, <2>1, <3>1
      <4> QED
        BY <1>1, <1>2, <3>1, <4>1 DEF Before
    <3>2. CASE j # k
      BY <1>1, <1>2, <1>4, <1>7, <2>1, <3>2 DEF Before
    <3> QED
      BY <3>1, <3>2
  <2> QED
    BY <1>1, <1>3, <1>7, <2>1 DEF IsFirst, OfType, m
<1>8. CASE i = k + 1
  <2>1. ASSUME NEW j \in DOMAIN m \ {k}, m[j].type = t
        PROVE  Before(m, k, j)
    <3>1. CASE j = k + 1
      <4>1. Before(l, k + 1, k)
        BY <1>1, <1>2, <1>4, <1>8, <2>1, <3>1
      <4> QED
        BY <1>1, <1>2, <3>1, <4>1 DEF Before
    <3>2. CASE j # k + 1
      <4>1. Before(l, k + 1, j) /\ m[j] = l[j]
        BY <1>1, <1>2, <1>4, <1>8, <2>1, <3>2
      <4> QED
        BY <1>1, <1>2, <2>1, <4>1 DEF Before
    <3> QED
      BY <3>1, <3>2
  <2> QED
    BY <1>1, <1>3, <1>8, <2>1 DEF IsFirst, OfType, m
<1> QED
  BY <1>5, <1>6, <1>7, <1>8

LEMMA ExchangeMovesNothing ==
  ASSUME NEW E, IsDated(E), NEW l \in Seq(E), NEW k \in 1..(Len(l) - 1), NEW t
  PROVE  FirstAt(Exchanged(l, k), t) = FirstAt(l, t)
<1> DEFINE m == Exchanged(l, k)
           i == First(l, t)
<1>1. /\ m \in Seq(E) /\ DOMAIN m = DOMAIN l /\ k \in DOMAIN l /\ k + 1 \in DOMAIN l
      /\ m[k] = l[k + 1] /\ m[k + 1] = l[k]
      /\ \A j \in DOMAIN l \ {k, k + 1} : m[j] = l[j]
  BY ExchangedLog
<1> HIDE DEF m
<1>2. CASE OfType(l, t) # {}
  <2>1. IsFirst(l, t, i) /\ FirstAt(l, t) = l[i].at
    BY <1>2, FirstsExist
  <2> HIDE DEF i
  <2>2. PICK j : IsFirst(m, t, j) /\ m[j].at = l[i].at
    <3>1. \A x : IsFirst(l, t, x) =>
            \E j \in OfType(Exchanged(l, k), t) :
              IsFirst(Exchanged(l, k), t, j) /\ Exchanged(l, k)[j].at = l[x].at
      BY FirstAfterExchange, SMTT(30)
    <3> QED
      BY <2>1, <3>1 DEF m
  <2>3. FirstAt(m, t) = m[j].at
    BY <1>1, <2>2, FirstIsUnique
  <2> QED
    BY <2>1, <2>2, <2>3 DEF m
<1>3. CASE OfType(l, t) = {}
  <2>1. OfType(m, t) = {}
    BY <1>1, <1>3 DEF OfType
  <2> QED
    BY <1>3, <2>1 DEF FirstAt, m
<1> QED
  BY <1>2, <1>3

=============================================================================
