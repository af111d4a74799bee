----------------------- MODULE AuthorityResolver_proofs -----------------------
(***************************************************************************)
(* What the authority of a case depends on, how it may move and when there *)
(* is one, for any documents, scopes and lineage claims.                   *)
(*                                                                         *)
(* A resolution looks at the instant only through the set of retired       *)
(* documents, to which a replacement adds the old document for good on its *)
(* effective date; at the claims only through the records each document    *)
(* has, in whatever order; and the walk up these records, as long as there *)
(* are documents, tells a tree from a circle.                              *)
(***************************************************************************)
EXTENDS AuthorityResolver, FiniteSetTheorems, TLAPS

TypeInv == /\ effective \in [Source -> Nat]
           /\ relationships \in Seq(Relationship)
           /\ asOf \in Nat

LEMMA InitTypeInv == Init => TypeInv
BY AuthorityAssumption DEF Init, TypeInv

LEMMA NextTypeInv == TypeInv /\ [Next]_vars => TypeInv'
<1> SUFFICES ASSUME TypeInv, [Next]_vars
             PROVE  TypeInv'
  OBVIOUS
<1> USE AuthorityAssumption DEF TypeInv
<1>1. ASSUME NEW r \in Lineage, Validate(r)
      PROVE  TypeInv'
  BY <1>1 DEF Validate
<1>2. ASSUME NEW t \in Instant, Later(t)
      PROVE  TypeInv'
  BY <1>2 DEF Later
<1>3. CASE UNCHANGED vars
  BY <1>3 DEF vars
<1> QED
  BY <1>1, <1>2, <1>3 DEF Next

LEMMA SpecTypeInv == Spec => []TypeInv
BY InitTypeInv, NextTypeInv, PTL DEF Spec

\* What a step may change: a claim is added at the end, or time passes.
LEMMA StepsAdvance ==
  ASSUME TypeInv, [Next]_vars
  PROVE  /\ query' = query /\ effective' = effective
         /\ asOf' \in Nat /\ asOf <= asOf'
         /\ \A i \in DOMAIN relationships :
              i \in DOMAIN relationships' /\ relationships'[i] = relationships[i]
<1> USE AuthorityAssumption DEF TypeInv
<1>1. ASSUME NEW r \in Lineage, Validate(r)
      PROVE  \A i \in DOMAIN relationships :
               i \in DOMAIN relationships' /\ relationships'[i] = relationships[i]
  BY <1>1 DEF Validate
<1>2. ASSUME NEW t \in Instant, Later(t)
      PROVE  asOf' \in Nat /\ asOf <= asOf' /\ relationships' = relationships
  BY <1>2 DEF Later
<1> QED
  BY <1>1, <1>2 DEF Next, Validate, Later, vars

-----------------------------------------------------------------------------
\* Rules may only be compiled from a candidate.
LEMMA AllowedAreCandidates ==
  ASSUME NEW rels, NEW C
  PROVE  Governing(rels, C).allowed \subseteq C
BY DEF Governing, SourceConflict

\* Replaced documents stay retired (applySupersession): no document that has
\* been replaced is ever allowed again (ReplacedNeverReturns).
THEOREM ReplacedStayRetired == Spec => ReplacedNeverReturns
<1>1. TypeInv /\ [Next]_vars => Replaced \cap Then.allowed = {}
  <2> SUFFICES ASSUME TypeInv, [Next]_vars, NEW s \in Replaced
               PROVE  s \notin Then.allowed
    OBVIOUS
  <2>1. PICK i \in DOMAIN relationships :
          /\ relationships[i].type = "SUPERSEDES"
          /\ {relationships[i].from, relationships[i].to} \subseteq Matched
          /\ effective[relationships[i].from] <= asOf
          /\ s = relationships[i].to
    BY DEF Replaced, Range
  <2> DEFINE r == relationships[i]
  <2>2. /\ i \in DOMAIN relationships' /\ relationships'[i] = r
        /\ asOf <= asOf' /\ asOf \in Nat /\ asOf' \in Nat
        /\ effective' = effective /\ Matched' = Matched
    BY <2>1, StepsAdvance DEF TypeInv, Matched
  <2>3. effective[r.from] \in Nat
    BY <2>1 DEF TypeInv, Relationship
  <2>4. r \in {x \in Range(relationships') : /\ x.type = "SUPERSEDES"
                                             /\ {x.from, x.to} \subseteq Matched'}
    BY <2>1, <2>2 DEF Range
  <2>5. effective'[r.from] <= asOf'
    BY <2>1, <2>2, <2>3
  <2>6. s \in Retired(relationships, asOf)'
    BY <2>1, <2>4, <2>5 DEF Retired
  <2>7. Then.allowed \subseteq Candidates(relationships, asOf)'
    BY AllowedAreCandidates DEF Then, Authority, Resolution, SourceUnavailable
  <2> QED
    BY <2>6, <2>7 DEF Candidates
<1> QED
  BY <1>1, SpecTypeInv, PTL DEF Spec, ReplacedNeverReturns

\* Time alone moves the authority only on the effective date of a validated
\* replacement (resolveAuthority; AuthorityMovesOnEffectiveDates).
THEOREM TimeMovesOnEffectiveDates == Spec => AuthorityMovesOnEffectiveDates
<1>1. TypeInv /\ [Next]_vars =>
        [(relationships' = relationships /\ Then # Authority)
          => \E r \in Range(relationships) : /\ r.type = "SUPERSEDES"
                                             /\ effective[r.from] > asOf
                                             /\ effective[r.from] <= asOf']_vars
  <2> SUFFICES ASSUME TypeInv, [Next]_vars, relationships' = relationships,
                      ~\E r \in Range(relationships) : /\ r.type = "SUPERSEDES"
                                                       /\ effective[r.from] > asOf
                                                       /\ effective[r.from] <= asOf'
               PROVE  Then = Authority
    OBVIOUS
  <2> DEFINE Replacements == {x \in Range(relationships) :
                                /\ x.type = "SUPERSEDES"
                                /\ {x.from, x.to} \subseteq Matched}
  <2>1. /\ effective' = effective /\ Matched' = Matched
        /\ asOf <= asOf' /\ asOf \in Nat /\ asOf' \in Nat
    BY StepsAdvance DEF TypeInv, Matched
  <2>2. ASSUME NEW r \in Replacements
        PROVE  effective[r.from] <= asOf <=> effective[r.from] <= asOf'
    <3>1. effective[r.from] \in Nat
      BY DEF TypeInv, Relationship, Range
    <3>2. ~(effective[r.from] > asOf /\ effective[r.from] <= asOf')
      OBVIOUS
    <3> QED
      BY <2>1, <3>1, <3>2
  <2>3. Retired(relationships, asOf)' = Retired(relationships, asOf)
    BY <2>1, <2>2 DEF Retired
  <2>4. Candidates(relationships, asOf)' = Candidates(relationships, asOf)
    BY <2>1, <2>3 DEF Candidates, Guidance
  <2> QED
    BY <2>4 DEF Then, Authority, Resolution
<1> QED
  BY <1>1, SpecTypeInv, PTL DEF Spec, AuthorityMovesOnEffectiveDates
-----------------------------------------------------------------------------
(* Numbers *)

LEMMA Induction ==
  ASSUME NEW S, 0 \in S, \A n \in Nat : n \in S => n + 1 \in S
  PROVE  Nat \subseteq S
<1> DEFINE Missed == {0..n : n \in Nat \ S}
<1> SUFFICES ASSUME Missed # {}
             PROVE  FALSE
  OBVIOUS
<1>1. Missed \subseteq FiniteSubsetsOf(Nat)
  <2>1. \A n \in Nat : 0..n \in SUBSET Nat /\ IsFiniteSet(0..n)
    BY FS_Interval
  <2> QED
    BY <2>1 DEF FiniteSubsetsOf
<1>2. IsWellFoundedOn(StrictSubsetOrdering(Nat), FiniteSubsetsOf(Nat))
  BY FS_StrictSubsetOrderingWellFounded
<1> HIDE DEF Missed
<1>3. PICK X \in Missed : \A Y \in Missed : <<Y, X>> \notin StrictSubsetOrdering(Nat)
  BY <1>1, <1>2, WFMin
<1> USE DEF Missed
<1>4. PICK m \in Nat \ S : X = 0..m
  OBVIOUS
<1>5. m - 1 \in Nat \ S
  BY <1>4
<1>6. <<0..(m - 1), 0..m>> \in StrictSubsetOrdering(Nat)
  <2>1. 0..(m - 1) \subseteq 0..m /\ m \in 0..m /\ m \notin 0..(m - 1) /\ 0..m \subseteq Nat
    BY <1>4
  <2> QED
    BY <2>1 DEF StrictSubsetOrdering
<1> QED
  BY <1>3, <1>4, <1>5, <1>6

-----------------------------------------------------------------------------
(* The superiors of a source *)

LEMMA RecordsAreFinite ==
  ASSUME NEW rels \in Seq(Relationship), NEW C, NEW s
  PROVE  /\ Records(s, rels, C) \subseteq 1..Len(rels)
         /\ IsFiniteSet(Records(s, rels, C))
         /\ Cardinality(Records(s, rels, C)) \in Nat
         /\ Cardinality(Records(s, rels, C)) = 0 <=> Records(s, rels, C) = {}
<1>1. Records(s, rels, C) \subseteq 1..Len(rels) /\ IsFiniteSet(1..Len(rels))
  BY FS_Interval DEF Records
<1>2. IsFiniteSet(Records(s, rels, C))
  BY <1>1, FS_Subset
<1> QED
  BY <1>1, <1>2, FS_CardinalityType, FS_EmptySet

LEMMA RecordsNameCandidates ==
  ASSUME NEW rels \in Seq(Relationship), NEW C, NEW s, NEW i \in Records(s, rels, C)
  PROVE  i \in DOMAIN rels /\ Child(rels[i]) = s /\ s \in C /\ Parent(rels[i]) \in C
BY DEF Records, Child, Parent

\* Without a source with several superiors, one record is all there is.
LEMMA SuperiorIsParent ==
  ASSUME NEW rels \in Seq(Relationship), NEW C, MultiParent(rels, C) = {},
         NEW s \in C, NEW i \in Records(s, rels, C)
  PROVE  /\ Records(s, rels, C) = {i}
         /\ Superior(rels, C)[s] = Parent(rels[i])
<1>1. Cardinality(Records(s, rels, C)) \in Nat /\ Cardinality(Records(s, rels, C)) # 0
  BY RecordsAreFinite
<1>2. ~(Cardinality(Records(s, rels, C)) > 1)
  BY DEF MultiParent
<1>3. Cardinality(Records(s, rels, C)) = 1
  BY <1>1, <1>2
<1>4. Records(s, rels, C) = {i}
  BY <1>3, RecordsAreFinite, FS_Singleton
<1>5. Min({i}) = i
  <2>1. i \in Nat
    BY RecordsAreFinite
  <2> QED
    BY <2>1 DEF Min
<1> QED
  BY <1>4, <1>5 DEF Superior

LEMMA NoRecordNoSuperior ==
  ASSUME NEW rels, NEW C, NEW s \in C, Records(s, rels, C) = {}
  PROVE  Superior(rels, C)[s] = NoSource
BY DEF Superior

LEMMA SuperiorType ==
  ASSUME NEW rels \in Seq(Relationship), NEW C, MultiParent(rels, C) = {}
  PROVE  Superior(rels, C) \in [C -> C \cup {NoSource}]
<1>1. ASSUME NEW s \in C
      PROVE  Superior(rels, C)[s] \in C \cup {NoSource}
  <2>1. CASE Records(s, rels, C) = {}
    BY <2>1, NoRecordNoSuperior
  <2>2. ASSUME NEW i \in Records(s, rels, C)
        PROVE  Superior(rels, C)[s] \in C
    BY <2>2, SuperiorIsParent, RecordsNameCandidates
  <2> QED
    BY <2>1, <2>2
<1> QED
  BY <1>1 DEF Superior

-----------------------------------------------------------------------------
(* The order of validation *)

\* The claims rels with the k-th and the next one exchanged.
Exchanged(rels, k) == [rels EXCEPT ![k] = rels[k + 1], ![k + 1] = rels[k]]
Other(i, k) == IF i = k THEN k + 1 ELSE IF i = k + 1 THEN k ELSE i

LEMMA ExchangedClaims ==
  ASSUME NEW rels \in Seq(Relationship), NEW k \in 1..(Len(rels) - 1)
  PROVE  /\ Exchanged(rels, k) \in Seq(Relationship)
         /\ DOMAIN Exchanged(rels, k) = 1..Len(rels) /\ Len(Exchanged(rels, k)) = Len(rels)
         /\ \A i \in 1..Len(rels) : /\ Other(i, k) \in 1..Len(rels)
                                    /\ Other(Other(i, k), k) = i
                                    /\ Exchanged(rels, k)[i] = rels[Other(i, k)]
         /\ Range(Exchanged(rels, k)) = Range(rels)
<1>1. k \in Nat /\ Len(rels) \in Nat /\ k \in 1..Len(rels) /\ k + 1 \in 1..Len(rels)
  OBVIOUS
<1>2. /\ Exchanged(rels, k) \in Seq(Relationship)
      /\ DOMAIN Exchanged(rels, k) = 1..Len(rels) /\ Len(Exchanged(rels, k)) = Len(rels)
  BY <1>1 DEF Exchanged
<1>3. \A i \in 1..Len(rels) : /\ Other(i, k) \in 1..Len(rels)
                              /\ Other(Other(i, k), k) = i
                              /\ Exchanged(rels, k)[i] = rels[Other(i, k)]
  BY <1>1 DEF Exchanged, Other
<1>4. Range(Exchanged(rels, k)) = Range(rels)
  BY <1>2, <1>3 DEF Range
<1> QED
  BY <1>2, <1>3, <1>4

LEMMA ExchangedRecords ==
  ASSUME NEW rels \in Seq(Relationship), NEW k \in 1..(Len(rels) - 1), NEW C, NEW s
  PROVE  /\ \A i \in 1..Len(rels) :
              i \in Records(s, Exchanged(rels, k), C) <=> Other(i, k) \in Records(s, rels, C)
         /\ Cardinality(Records(s, Exchanged(rels, k), C)) = Cardinality(Records(s, rels, C))
<1> DEFINE old == Records(s, rels, C)
           new == Records(s, Exchanged(rels, k), C)
           f == [i \in new |-> Other(i, k)]
<1>1. \A i \in 1..Len(rels) : i \in new <=> Other(i, k) \in old
  BY ExchangedClaims DEF Records
<1>2. new \subseteq 1..Len(rels) /\ old \subseteq 1..Len(rels) /\ IsFiniteSet(new)
  <2>1. Exchanged(rels, k) \in Seq(Relationship) /\ Len(Exchanged(rels, k)) = Len(rels)
    BY ExchangedClaims
  <2> QED
    BY <2>1, RecordsAreFinite
<1>3. f \in Bijection(new, old)
  <2>1. f \in [new -> old]
    BY <1>1, <1>2
  <2>2. \A i, j \in new : f[i] = f[j] => i = j
    BY <1>2, ExchangedClaims
  <2>3. \A j \in old : \E i \in new : f[i] = j
    <3> SUFFICES ASSUME NEW j \in old
                 PROVE  Other(j, k) \in new /\ f[Other(j, k)] = j
      OBVIOUS
    <3> QED
      BY <1>1, <1>2, ExchangedClaims
  <2> HIDE DEF f, new, old
  <2> QED
    BY <2>1, <2>2, <2>3 DEF Bijection, Injection, Surjection, IsInjective
<1>4. Cardinality(old) = Cardinality(new)
  <2> HIDE DEF f, new, old
  <2> QED
    BY <1>2, <1>3, FS_Bijection DEF ExistsBijection
<1> QED
  BY <1>1, <1>4

LEMMA ExchangedSuperior ==
  ASSUME NEW rels \in Seq(Relationship), NEW k \in 1..(Len(rels) - 1), NEW C,
         MultiParent(rels, C) = {}, MultiParent(Exchanged(rels, k), C) = {}
  PROVE  Superior(Exchanged(rels, k), C) = Superior(rels, C)
<1> DEFINE new == Exchanged(rels, k)
<1>1. ASSUME NEW s \in C
      PROVE  Superior(new, C)[s] = Superior(rels, C)[s]
  <2>1. CASE Records(s, rels, C) = {}
    <3>1. Records(s, new, C) = {}
      BY <2>1, ExchangedRecords, ExchangedClaims, RecordsAreFinite
    <3> QED
      BY <2>1, <3>1, NoRecordNoSuperior
  <2>2. ASSUME NEW j \in Records(s, rels, C)
        PROVE  Superior(new, C)[s] = Superior(rels, C)[s]
    <3>1. j \in 1..Len(rels)
      BY RecordsAreFinite
    <3>2. Other(j, k) \in Records(s, new, C) /\ new[Other(j, k)] = rels[j]
      BY <3>1, ExchangedClaims, ExchangedRecords
    <3>3. Superior(new, C)[s] = Parent(new[Other(j, k)])
      <4>1. new \in Seq(Relationship)
        BY ExchangedClaims
      <4> HIDE DEF new
      <4>2. MultiParent(new, C) = {}
        BY DEF new
      <4> QED
        BY <3>2, <4>1, <4>2, SuperiorIsParent
    <3> QED
      BY <3>2, <3>3, SuperiorIsParent
  <2> QED
    BY <2>1, <2>2
<1> QED
  BY <1>1 DEF Superior

\* Which claims there are decides, not the order in which they came in
\* (resolveAuthority; ValidationOrderIrrelevant).
THEOREM ValidationOrderDoesNotMatter == Spec => []ValidationOrderIrrelevant
<1>1. TypeInv => ValidationOrderIrrelevant
  <2> SUFFICES ASSUME TypeInv, NEW k \in 1..(Len(relationships) - 1)
               PROVE  Resolution(Swapped(k), asOf) = Resolution(relationships, asOf)
    BY DEF ValidationOrderIrrelevant, Authority
  <2> DEFINE rels == relationships
             new == Exchanged(rels, k)
             C == Candidates(rels, asOf)
  <2>1. Swapped(k) = new /\ rels \in Seq(Relationship)
    BY DEF Swapped, Exchanged, TypeInv
  <2>2. Candidates(new, asOf) = C
    <3>1. Range(new) = Range(rels)
      BY <2>1, ExchangedClaims
    <3> QED
      BY <3>1 DEF Candidates, Retired, Guidance
  <2> HIDE DEF new, C
  <2>3. /\ Roots(new, C) = Roots(rels, C)
        /\ MultiParent(new, C) = MultiParent(rels, C)
    <3>1. \A s \in C : Cardinality(Records(s, new, C)) = Cardinality(Records(s, rels, C))
      BY <2>1, ExchangedRecords DEF new
    <3>2. \A s \in C : Records(s, new, C) = {} <=> Records(s, rels, C) = {}
      BY <2>1, <3>1, RecordsAreFinite, ExchangedClaims DEF new
    <3> QED
      BY <3>1, <3>2 DEF Roots, MultiParent
  <2>4. ASSUME MultiParent(rels, C) = {}
        PROVE  \A s, root : Connected(s, root, new, C) = Connected(s, root, rels, C)
    <3>1. Superior(new, C) = Superior(rels, C)
      BY <2>1, <2>3, <2>4, ExchangedSuperior DEF new
    <3> QED
      BY <3>1 DEF Connected
  <2>5. Governing(new, C) = Governing(rels, C)
    BY <2>3, <2>4 DEF Governing
  <2> QED
    BY <2>1, <2>2, <2>5 DEF Resolution, C
<1> QED
  BY <1>1, SpecTypeInv, PTL

-----------------------------------------------------------------------------
(* Chains of superiors *)

\* f is the chain from s up to its n-th member.
Climbs(f, s, superior, n) ==
  f = [m \in 0..n |-> IF m = 0 THEN s
                      ELSE IF f[m - 1] = NoSource THEN NoSource ELSE superior[f[m - 1]]]

LEMMA ChainExists ==
  ASSUME NEW C, IsFiniteSet(C), NEW superior, DOMAIN superior = C, NEW s
  PROVE  /\ Cardinality(C) \in Nat
         /\ Climbs(Chain(s, superior), s, superior, Cardinality(C))
<1> DEFINE N == Cardinality(C)
           Reached == {n \in Nat : \E f : Climbs(f, s, superior, n)}
<1>1. N \in Nat
  BY FS_CardinalityType
<1>2. 0 \in Reached
  <2>1. Climbs([m \in 0..0 |-> s], s, superior, 0)
    BY DEF Climbs
  <2> QED
    BY <2>1
<1>3. ASSUME NEW n \in Nat, n \in Reached
      PROVE  n + 1 \in Reached
  <2>1. PICK f : Climbs(f, s, superior, n)
    BY <1>3
  <2> DEFINE g == [m \in 0..(n + 1) |-> IF m <= n THEN f[m]
                                        ELSE IF f[n] = NoSource THEN NoSource ELSE superior[f[n]]]
             h == [m \in 0..(n + 1) |-> IF m = 0 THEN s
                                        ELSE IF g[m - 1] = NoSource THEN NoSource
                                        ELSE superior[g[m - 1]]]
  <2>2. \A m \in 0..n : f[m] = IF m = 0 THEN s
                               ELSE IF f[m - 1] = NoSource THEN NoSource ELSE superior[f[m - 1]]
    <3> DEFINE F == [m \in 0..n |-> IF m = 0 THEN s
                                    ELSE IF f[m - 1] = NoSource THEN NoSource
                                    ELSE superior[f[m - 1]]]
    <3>1. f = F
      BY <2>1 DEF Climbs
    <3>2. \A m \in 0..n : F[m] = IF m = 0 THEN s
                               ELSE IF f[m - 1] = NoSource THEN NoSource ELSE superior[f[m - 1]]
      OBVIOUS
    <3> QED
      BY ONLY <3>1, <3>2
  <2>3. ASSUME NEW m \in 0..(n + 1)
        PROVE  g[m] = h[m]
    <3>1. CASE m = 0
      BY <2>2, <3>1
    <3>2. CASE m \in 1..n
      <4>1. m - 1 \in 0..n /\ g[m - 1] = f[m - 1] /\ g[m] = f[m] /\ m # 0
        BY <3>2
      <4> QED
        BY <2>2, <4>1
    <3>3. CASE m = n + 1
      <4>1. m - 1 = n /\ g[m - 1] = f[n] /\ m # 0 /\ ~(m <= n)
        BY <3>3
      <4> QED
        BY <4>1
    <3> QED
      BY <3>1, <3>2, <3>3
  <2>4. g = h
    BY <2>3
  <2>5. Climbs(g, s, superior, n + 1)
    BY <2>4 DEF Climbs
  <2> QED
    BY <2>5
<1>4. \E f : Climbs(f, s, superior, N)
  <2> HIDE DEF Reached, N
  <2>1. Nat \subseteq Reached
    BY <1>2, <1>3, Induction
  <2> QED
    BY <1>1, <2>1 DEF Reached
<1>5. Chain(s, superior) = CHOOSE f : Climbs(f, s, superior, N)
  BY DEF Chain, Climbs
<1> QED
  BY <1>1, <1>4, <1>5

LEMMA ChainSteps ==
  ASSUME NEW C, IsFiniteSet(C), NEW superior \in [C -> C \cup {NoSource}], NEW s
  PROVE  /\ Cardinality(C) \in Nat
         /\ Chain(s, superior)[0] = s
         /\ \A n \in 0..(Cardinality(C) - 1) :
              Chain(s, superior)[n + 1] =
                IF Chain(s, superior)[n] = NoSource THEN NoSource
                ELSE superior[Chain(s, superior)[n]]
<1> DEFINE N == Cardinality(C)
           c == Chain(s, superior)
           F == [m \in 0..N |-> IF m = 0 THEN s
                                ELSE IF c[m - 1] = NoSource THEN NoSource ELSE superior[c[m - 1]]]
<1>1. N \in Nat /\ c = F
  BY ChainExists DEF Climbs
<1>2. F[0] = s
  BY <1>1
<1>3. ASSUME NEW n \in 0..(N - 1)
      PROVE  F[n + 1] = IF c[n] = NoSource THEN NoSource ELSE superior[c[n]]
  <2>1. n + 1 \in 0..N /\ n + 1 # 0 /\ (n + 1) - 1 = n
    BY <1>1
  <2> HIDE DEF N, c
  <2> QED
    BY <2>1
<1> QED
  BY ONLY <1>1, <1>2, <1>3

\* A chain never leaves a set of sources that holds the superiors of its members.
LEMMA ChainStaysBelow ==
  ASSUME NEW C, IsFiniteSet(C), NEW superior \in [C -> C \cup {NoSource}],
         NEW U \in SUBSET C, NEW s \in U,
         \A x \in U : superior[x] \in U \cup {NoSource}
  PROVE  \A n \in 0..Cardinality(C) : Chain(s, superior)[n] \in U \cup {NoSource}
<1> DEFINE N == Cardinality(C)
           c == Chain(s, superior)
           Within == {n \in Nat : n <= N => c[n] \in U \cup {NoSource}}
<1>1. /\ N \in Nat /\ c[0] = s
      /\ \A n \in 0..(N - 1) : c[n + 1] = IF c[n] = NoSource THEN NoSource ELSE superior[c[n]]
  BY ChainSteps
<1> HIDE DEF N, c
<1>2. 0 \in Within
  BY <1>1
<1>3. ASSUME NEW n \in Nat, n \in Within
      PROVE  n + 1 \in Within
  <2> SUFFICES ASSUME n + 1 <= N
               PROVE  c[n + 1] \in U \cup {NoSource}
    OBVIOUS
  <2>1. n \in 0..(N - 1) /\ c[n] \in U \cup {NoSource}
    BY <1>1, <1>3
  <2> QED
    BY <1>1, <2>1
<1>4. Nat \subseteq Within
  <2> HIDE DEF Within
  <2> QED
    BY <1>2, <1>3, Induction
<1> QED
  BY <1>1, <1>4 DEF N, c

\* Where every set that holds s and the superiors of its members holds g, which
\* has no superior, the chain from s ends, and passes through g: had it come
\* back to itself, its members up to there would be such a set without g.
LEMMA ChainReachesTheTop ==
  ASSUME NEW C, IsFiniteSet(C), NoSource \notin C,
         NEW superior \in [C -> C \cup {NoSource}],
         NEW g \in C, superior[g] = NoSource, NEW s \in C \ {g},
         \A U \in SUBSET C :
           s \in U /\ (\A x \in U : superior[x] \in U \cup {NoSource}) => g \in U
  PROVE  /\ Chain(s, superior)[Cardinality(C)] = NoSource
         /\ \E n \in 1..Cardinality(C) : Chain(s, superior)[n] = g
<1> DEFINE N == Cardinality(C)
           c == Chain(s, superior)
           Upto(n) == {c[k] : k \in 0..n}
<1>1. /\ N \in Nat /\ c[0] = s
      /\ \A n \in 0..(N - 1) : c[n + 1] = IF c[n] = NoSource THEN NoSource ELSE superior[c[n]]
  BY ChainSteps
<1>2. \A n \in 0..N : c[n] \in C \cup {NoSource}
  <2>1. \A x \in C : superior[x] \in C \cup {NoSource}
    OBVIOUS
  <2> QED
    BY <2>1, ChainStaysBelow
<1> HIDE DEF N, c
<1>3. c[N] = NoSource
  <2> DEFINE Distinct == {n \in Nat : n <= N =>
                            \/ c[n] = NoSource
                            \/ /\ Upto(n) \subseteq C /\ IsFiniteSet(Upto(n))
                               /\ Cardinality(Upto(n)) = n + 1}
  <2>1. 0 \in Distinct
    <3>1. Upto(0) = {s}
      BY <1>1
    <3> QED
      BY <3>1, FS_Singleton
  <2>2. ASSUME NEW n \in Nat, n \in Distinct
        PROVE  n + 1 \in Distinct
    <3> SUFFICES ASSUME n + 1 <= N, c[n + 1] # NoSource
                 PROVE  /\ Upto(n + 1) \subseteq C /\ IsFiniteSet(Upto(n + 1))
                        /\ Cardinality(Upto(n + 1)) = (n + 1) + 1
      OBVIOUS
    <3>1. n \in 0..(N - 1) /\ n <= N /\ n + 1 \in 0..N
      BY <1>1
    <3>2. c[n] # NoSource /\ c[n + 1] = superior[c[n]]
      BY <1>1, <3>1
    <3>3. /\ Upto(n) \subseteq C /\ IsFiniteSet(Upto(n))
          /\ Cardinality(Upto(n)) = n + 1
      BY <2>2, <3>1, <3>2
    <3>4. c[n + 1] \in C
      BY <1>2, <3>1
    <3>5. Upto(n + 1) = Upto(n) \cup {c[n + 1]}
      <4>1. 0..(n + 1) = (0..n) \cup {n + 1}
        OBVIOUS
      <4> QED
        BY <4>1
    <3>6. c[n + 1] \notin Upto(n)
      <4> SUFFICES ASSUME c[n + 1] \in Upto(n)
                   PROVE  FALSE
        OBVIOUS
      <4>1. ASSUME NEW x \in Upto(n)
            PROVE  superior[x] \in Upto(n)
        <5>1. PICK k \in 0..n : x = c[k]
          OBVIOUS
        <5>2. CASE k = n
          BY <3>2, <5>1, <5>2
        <5>3. CASE k # n
          <6>1. k \in 0..(N - 1) /\ k + 1 \in 0..n
            BY <1>1, <3>1, <5>3
          <6>2. c[k] \in C
            BY <3>3
          <6>3. c[k + 1] = superior[c[k]]
            BY <1>1, <6>1, <6>2
          <6> QED
            BY <5>1, <6>1, <6>3
        <5> QED
          BY <5>2, <5>3
      <4>2. s \in Upto(n)
        BY <1>1
      <4> HIDE DEF Upto
      <4>3. g \in Upto(n)
        BY <3>3, <4>1, <4>2
      <4>4. NoSource \in Upto(n)
        BY <4>1, <4>3
      <4> QED
        BY <3>3, <4>4
    <3> HIDE DEF Upto
    <3> QED
      BY <3>3, <3>4, <3>5, <3>6, FS_AddElement
  <2>3. Nat \subseteq Distinct
    <3> HIDE DEF Distinct
    <3> QED
      BY <2>1, <2>2, Induction
  <2>4. ASSUME c[N] # NoSource
        PROVE  FALSE
    <3>1. Upto(N) \subseteq C /\ Cardinality(Upto(N)) = N + 1
      BY <1>1, <2>3, <2>4
    <3>2. Cardinality(Upto(N)) <= N
      <4> HIDE DEF Upto
      <4> QED
        BY <3>1, FS_Subset DEF N
    <3> QED
      BY <1>1, <3>1, <3>2
  <2> QED
    BY <2>4
<1>4. \E n \in 1..N : c[n] = g
  <2> DEFINE U == {x \in C : \E n \in 0..N : c[n] = x}
  <2>1. s \in U
    BY <1>1
  <2>2. ASSUME NEW x \in U
        PROVE  superior[x] \in U \cup {NoSource}
    <3>1. PICK n \in 0..N : c[n] = x
      OBVIOUS
    <3>2. x \in C /\ n # N
      BY <1>3, <3>1
    <3>3. n \in 0..(N - 1) /\ n + 1 \in 0..N
      BY <1>1, <3>2
    <3>4. c[n + 1] = superior[x]
      BY <1>1, <3>1, <3>2, <3>3
    <3> QED
      BY <1>2, <3>3, <3>4
  <2>3. g \in U
    <3> HIDE DEF U
    <3>1. U \in SUBSET C
      BY DEF U
    <3> QED
      BY <2>1, <2>2, <3>1
  <2>4. PICK n \in 0..N : c[n] = g
    BY <2>3
  <2>5. n # 0
    BY <1>1, <2>4
  <2> QED
    BY <1>1, <2>4, <2>5
<1> QED
  BY <1>3, <1>4 DEF N, c

-----------------------------------------------------------------------------
(* The lineage *)

\* Following superiors and following records is the same.
LEMMA ClosedBySuperiors ==
  ASSUME NEW rels \in Seq(Relationship), NEW C, NoSource \notin C,
         MultiParent(rels, C) = {}, NEW U \in SUBSET C
  PROVE  (\A s \in U : \A i \in Records(s, rels, C) : Parent(rels[i]) \in U)
           <=> \A s \in U : Superior(rels, C)[s] \in U \cup {NoSource}
<1> DEFINE superior == Superior(rels, C)
<1>1. ASSUME NEW s \in U, Records(s, rels, C) = {}
      PROVE  superior[s] = NoSource
  BY <1>1, NoRecordNoSuperior
<1>2. ASSUME NEW s \in U, NEW i \in Records(s, rels, C)
      PROVE  superior[s] = Parent(rels[i]) /\ Records(s, rels, C) = {i} /\ Parent(rels[i]) \in C
  BY <1>2, SuperiorIsParent, RecordsNameCandidates
<1> HIDE DEF superior
<1>3. ASSUME \A s \in U : \A i \in Records(s, rels, C) : Parent(rels[i]) \in U,
             NEW s \in U
      PROVE  superior[s] \in U \cup {NoSource}
  BY <1>1, <1>2, <1>3
<1>4. ASSUME \A s \in U : superior[s] \in U \cup {NoSource},
             NEW s \in U, NEW i \in Records(s, rels, C)
      PROVE  Parent(rels[i]) \in U
  BY <1>2, <1>4
<1> QED
  BY <1>3, <1>4 DEF superior

\* A source g that has no superior and is above all others, which have one each.
Tops(rels, C) ==
  {g \in C : /\ Records(g, rels, C) = {}
             /\ \A s \in C \ {g} :
                  /\ Cardinality(Records(s, rels, C)) = 1
                  /\ \A U \in SUBSET C :
                       s \in U /\ (\A x \in U : \A i \in Records(x, rels, C) : Parent(rels[i]) \in U)
                         => g \in U}

LEMMA GoverningIsTop ==
  ASSUME NEW rels \in Seq(Relationship), NEW C, IsFiniteSet(C), NoSource \notin C,
         Governing(rels, C).status = "APPLICABLE"
  PROVE  Governing(rels, C).governing \in Tops(rels, C) /\ Governing(rels, C).allowed = C
<1> DEFINE roots == Roots(rels, C)
           root == CHOOSE s \in roots : TRUE
           superior == Superior(rels, C)
<1>1. /\ MultiParent(rels, C) = {} /\ Cardinality(roots) = 1
      /\ \A s \in C \ {root} : Connected(s, root, rels, C)
      /\ Governing(rels, C).governing = root /\ Governing(rels, C).allowed = C
  BY DEF Governing, SourceConflict
<1>2. roots = {root} /\ root \in C
  <2>1. IsFiniteSet(roots)
    BY FS_Subset DEF Roots
  <2>2. PICK x : roots = {x}
    BY <1>1, <2>1, FS_Singleton
  <2> QED
    BY <2>2 DEF Roots
<1> HIDE DEF root
<1>3. Records(root, rels, C) = {}
  BY <1>2 DEF Roots
<1>4. ASSUME NEW s \in C \ {root}
      PROVE  /\ Cardinality(Records(s, rels, C)) = 1
             /\ \A U \in SUBSET C :
                  s \in U /\ (\A x \in U : \A i \in Records(x, rels, C) : Parent(rels[i]) \in U)
                    => root \in U
  <2>1. Cardinality(Records(s, rels, C)) = 1
    <3>1. Records(s, rels, C) # {}
      BY <1>2 DEF Roots
    <3>2. ~(Cardinality(Records(s, rels, C)) > 1)
      BY <1>1 DEF MultiParent
    <3> QED
      BY <3>1, <3>2, RecordsAreFinite
  <2>2. ASSUME NEW U \in SUBSET C, s \in U,
               \A x \in U : \A i \in Records(x, rels, C) : Parent(rels[i]) \in U
        PROVE  root \in U
    <3>1. \A x \in U : superior[x] \in U \cup {NoSource}
      BY <1>1, <2>2, ClosedBySuperiors
    <3>2. superior \in [C -> C \cup {NoSource}]
      BY <1>1, SuperiorType
    <3> HIDE DEF superior
    <3>3. \A n \in 0..Cardinality(C) : Chain(s, superior)[n] \in U \cup {NoSource}
      BY <2>2, <3>1, <3>2, ChainStaysBelow
    <3>4. PICK n \in 1..Cardinality(C) : Chain(s, superior)[n] = root
      BY <1>1 DEF Connected, superior
    <3>5. n \in 0..Cardinality(C)
      BY FS_CardinalityType
    <3> QED
      BY <1>2, <3>3, <3>4, <3>5
  <2> QED
    BY <2>1, <2>2
<1>5. root \in Tops(rels, C)
  BY <1>2, <1>3, <1>4 DEF Tops
<1> QED
  BY <1>1, <1>5 DEF root

LEMMA TopIsApplicable ==
  ASSUME NEW rels \in Seq(Relationship), NEW C, IsFiniteSet(C), NoSource \notin C,
         NEW g \in Tops(rels, C)
  PROVE  Governing(rels, C).status = "APPLICABLE"
<1> DEFINE roots == Roots(rels, C)
           superior == Superior(rels, C)
<1>1. g \in C /\ Records(g, rels, C) = {}
  BY DEF Tops
<1>2. \A s \in C \ {g} : Cardinality(Records(s, rels, C)) = 1
  BY DEF Tops
<1>3. MultiParent(rels, C) = {}
  <2>1. ASSUME NEW s \in C
        PROVE  ~(Cardinality(Records(s, rels, C)) > 1)
    <3>1. CASE s = g
      BY <1>1, <3>1, RecordsAreFinite
    <3>2. CASE s # g
      BY <1>2, <3>2
    <3> QED
      BY <3>1, <3>2
  <2> QED
    BY <2>1 DEF MultiParent
<1>4. roots = {g}
  <2>1. \A s \in C \ {g} : Records(s, rels, C) # {}
    BY <1>2, RecordsAreFinite
  <2> QED
    BY <1>1, <2>1 DEF Roots
<1>5. Cardinality(roots) = 1 /\ (CHOOSE s \in roots : TRUE) = g
  BY <1>4, FS_Singleton
<1>6. ASSUME NEW s \in C \ {g}
      PROVE  Connected(s, g, rels, C)
  <2>1. superior \in [C -> C \cup {NoSource}] /\ superior[g] = NoSource
    BY <1>1, <1>3, SuperiorType, NoRecordNoSuperior
  <2>2. \A U \in SUBSET C :
          s \in U /\ (\A x \in U : superior[x] \in U \cup {NoSource}) => g \in U
    BY <1>3, ClosedBySuperiors DEF Tops
  <2> HIDE DEF superior
  <2>3. /\ Chain(s, superior)[Cardinality(C)] = NoSource
        /\ \E n \in 1..Cardinality(C) : Chain(s, superior)[n] = g
    BY <1>1, <2>1, <2>2, ChainReachesTheTop
  <2> QED
    BY <2>3 DEF Connected, superior
<1> QED
  BY <1>3, <1>5, <1>6 DEF Governing

\* A governing source is named exactly when the lineage of the sources in force
\* is a tree with that source at the top (resolveAuthority; LineageIsATree).
THEOREM AuthorityIsATree == Spec => []LineageIsATree
<1>1. TypeInv => LineageIsATree
  <2> SUFFICES ASSUME TypeInv
               PROVE  LineageIsATree
    OBVIOUS
  <2> DEFINE rels == relationships
             C == Candidates(rels, asOf)
             records == {i \in DOMAIN rels :
                           /\ rels[i].type \in {"GOVERNS", "IMPLEMENTS", "EXTENDS"}
                           /\ {rels[i].from, rels[i].to} \subseteq C}
             RecordsOf(s) == {i \in records : Child(rels[i]) = s}
             Closed(U) == \A i \in records : Child(rels[i]) \in U => Parent(rels[i]) \in U
             IsTop(g) == /\ RecordsOf(g) = {}
                         /\ \A s \in C \ {g} :
                              /\ Cardinality(RecordsOf(s)) = 1
                              /\ \A U \in SUBSET C : s \in U /\ Closed(U) => g \in U
  <2>1. /\ rels \in Seq(Relationship)
        /\ IsFiniteSet(C) /\ NoSource \notin C
    <3>1. C \subseteq Source
      BY DEF Candidates, Matched
    <3> QED
      BY <3>1, AuthorityAssumption, FS_Subset DEF TypeInv
  <2>2. \A s : RecordsOf(s) = Records(s, rels, C)
    BY DEF Records
  <2>3. \A U : Closed(U) <=> \A x \in U : \A i \in Records(x, rels, C) : Parent(rels[i]) \in U
    BY DEF Records
  <2>4. \A g \in C : IsTop(g) <=> g \in Tops(rels, C)
    <3> HIDE DEF RecordsOf, Closed, C, rels
    <3> QED
      BY <2>2, <2>3 DEF Tops
  <2>5. Applicable => Authority.governing \in Tops(rels, C) /\ Authority.allowed = C
    <3> SUFFICES ASSUME Applicable
                 PROVE  Authority.governing \in Tops(rels, C) /\ Authority.allowed = C
      OBVIOUS
    <3>1. Authority = Governing(rels, C)
      BY DEF Applicable, Authority, Resolution, SourceUnavailable
    <3> HIDE DEF C, rels
    <3> QED
      BY <2>1, <3>1, GoverningIsTop DEF Applicable
  <2>6. ASSUME NEW g \in Tops(rels, C)
        PROVE  Applicable
    <3>1. C # {}
      BY DEF Tops
    <3>2. Authority = Governing(rels, C)
      BY <3>1 DEF Authority, Resolution
    <3> HIDE DEF C, rels
    <3> QED
      BY <2>1, <3>2, TopIsApplicable DEF Applicable
  <2>7. ~Applicable => Authority.allowed = {}
    BY DEF Applicable, Authority, Resolution, Governing, SourceUnavailable, SourceConflict
  <2>8. Tops(rels, C) \subseteq C
    BY DEF Tops
  <2>9. /\ Applicable <=> \E g \in C : IsTop(g)
        /\ Applicable => IsTop(Authority.governing) /\ Authority.allowed = C
        /\ ~Applicable => Authority.allowed = {}
    <3> HIDE DEF IsTop, C, rels
    <3> QED
      BY <2>4, <2>5, <2>6, <2>7, <2>8
  <2> QED
    BY <2>9 DEF LineageIsATree
<1> QED
  BY <1>1, SpecTypeInv, PTL
=============================================================================
