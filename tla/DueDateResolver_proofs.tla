----------------------- MODULE DueDateResolver_proofs -----------------------
(***************************************************************************)
(* Proofs about DueDateResolver and DueDateConflicts, for any procedure:   *)
(* any set of rules, any deadlines among them, circular ones included, any *)
(* order and any recorded events.                                          *)
(***************************************************************************)
EXTENDS DueDateConflicts, EventLog_proofs, SequenceTheorems

-----------------------------------------------------------------------------
(* The stack as a data structure *)

\* Taking a date changes the innermost activation only.
LEMMA FoundProperties ==
  ASSUME NEW S, NEW s \in Seq(S), s # <<>>, NEW d
  PROVE  /\ Found(s, d) \in Seq(Range(Found(s, d)))
         /\ Len(Found(s, d)) = Len(s)
         /\ \A i \in 1..(Len(s) - 1) : Found(s, d)[i] = s[i]
         /\ Found(s, d)[Len(s)] = Advance(s[Len(s)], d)
<1> DEFINE T == S \cup {Advance(s[Len(s)], d)}
<1>1. s \in Seq(T) /\ Len(s) \in 1..Len(s)
  BY SeqMonotonic
<1>2. Found(s, d) = [s EXCEPT ![Len(s)] = Advance(s[Len(s)], d)]
  BY DEF Found
<1>3. Advance(s[Len(s)], d) \in T
  OBVIOUS
<1> HIDE DEF T
<1>4. Found(s, d) \in Seq(T)
  BY <1>1, <1>2, <1>3, ExceptSeq
<1>5. Found(s, d) \in Seq(Range(Found(s, d)))
  BY <1>4, SeqOfRange
<1> QED BY <1>1, <1>2, <1>3, <1>5, ExceptSeq

LEMMA PushProperties ==
  ASSUME NEW S, NEW s \in Seq(S), NEW a
  PROVE  /\ Append(s, a) \in Seq(Range(Append(s, a)))
         /\ Len(Append(s, a)) = Len(s) + 1
         /\ \A i \in 1..Len(s) : Append(s, a)[i] = s[i]
         /\ Append(s, a)[Len(s) + 1] = a
<1> DEFINE T == S \cup {a}
<1>1. s \in Seq(T) /\ a \in T
  BY SeqMonotonic
<1> HIDE DEF T
<1>2. /\ Append(s, a) \in Seq(T)
      /\ Len(Append(s, a)) = Len(s) + 1
      /\ \A i \in 1..Len(s) : Append(s, a)[i] = s[i]
      /\ Append(s, a)[Len(s) + 1] = a
  BY <1>1, AppendProperties
<1> QED BY <1>2, SeqOfRange

LEMMA PopProperties ==
  ASSUME NEW S, NEW s \in Seq(S), s # <<>>
  PROVE  /\ Len(s) \in Nat \ {0}
         /\ SubSeq(s, 1, Len(s) - 1) \in Seq(Range(SubSeq(s, 1, Len(s) - 1)))
         /\ Len(SubSeq(s, 1, Len(s) - 1)) = Len(s) - 1
         /\ \A i \in 1..(Len(s) - 1) : SubSeq(s, 1, Len(s) - 1)[i] = s[i]
<1> DEFINE n == Len(s) - 1
<1>1. Len(s) \in Nat \ {0}
  BY EmptySeq
<1>2. n \in Int /\ 1 \in Int /\ \A i \in 1..n : s[i] \in S
  BY <1>1, ElementOfSeq
<1>3. /\ SubSeq(s, 1, n) \in Seq(S)
      /\ Len(SubSeq(s, 1, n)) = IF 1 <= n THEN n - 1 + 1 ELSE 0
      /\ \A i \in 1..(n - 1 + 1) : SubSeq(s, 1, n)[i] = s[1 + i - 1]
  <2> HIDE DEF n
  <2> QED BY <1>2, SubSeqProperties, Z3
<1>4. SubSeq(s, 1, n) \in Seq(Range(SubSeq(s, 1, n)))
  BY <1>3, SeqOfRange
<1>5. Len(SubSeq(s, 1, n)) = n
  <2>1. n \in Nat
    BY <1>1
  <2> HIDE DEF n
  <2> QED BY <2>1, <1>3
<1>6. ASSUME NEW i \in 1..n PROVE SubSeq(s, 1, n)[i] = s[i]
  <2>1. i \in 1..(n - 1 + 1) /\ 1 + i - 1 = i
    BY <1>1
  <2> HIDE DEF n
  <2> QED BY <2>1, <1>3
<1> QED BY <1>1, <1>4, <1>5, <1>6
-----------------------------------------------------------------------------
(* The recursion follows a path through the anchors *)

LEMMA AnchorsAreSeq ==
  ASSUME deadline \in [Rule -> Deadlines], NEW r \in Rule
  PROVE  /\ Anchors(r) \in Seq(EventType \cup (Rule \cup Dangling))
         /\ Len(Anchors(r)) \in Nat
         /\ DOMAIN Anchors(r) = 1..Len(Anchors(r))
<1>1. Anchors(r) \in Seq(EventType \cup (Rule \cup Dangling))
  BY ResolverAssumption DEF Anchors, AnchorsOf, ValidDeadline
<1> QED BY <1>1

\* Every activation but the innermost waits for the one above it, and no rule
\* has two activations.
IsPath(s) ==
  /\ s \in Seq(Range(s))
  /\ \A i \in 1..Len(s) : s[i].rule \in Rule /\ s[i].idx \in Nat \ {0}
  /\ \A i \in 1..(Len(s) - 1) : /\ s[i].idx <= Len(Anchors(s[i].rule))
                                /\ Anchors(s[i].rule)[s[i].idx] = s[i + 1].rule
  /\ \A i, j \in 1..Len(s) : s[i].rule = s[j].rule => i = j

PathInv == /\ deadline \in [Rule -> Deadlines]
           /\ next \in Nat \ {0}
           /\ IsPath(stack)

LEMMA FoundIsPath ==
  ASSUME NEW s, IsPath(s), s # <<>>, NEW d
  PROVE  /\ IsPath(Found(s, d))
         /\ Found(s, d) # <<>>
<1>1. s \in Seq(Range(s)) /\ Len(s) \in Nat \ {0}
  BY EmptySeq DEF IsPath
<1>2. /\ Found(s, d) \in Seq(Range(Found(s, d)))
      /\ Len(Found(s, d)) = Len(s)
      /\ \A i \in 1..(Len(s) - 1) : Found(s, d)[i] = s[i]
      /\ Found(s, d)[Len(s)] = Advance(s[Len(s)], d)
  BY <1>1, FoundProperties
<1>3. /\ Advance(s[Len(s)], d).rule = s[Len(s)].rule
      /\ Advance(s[Len(s)], d).idx = s[Len(s)].idx + 1
  BY DEF Advance
<1>4. \A i \in 1..Len(s) : /\ Found(s, d)[i].rule = s[i].rule
                           /\ i # Len(s) => Found(s, d)[i].idx = s[i].idx
                           /\ i = Len(s) => Found(s, d)[i].idx = s[i].idx + 1
  BY <1>1, <1>2, <1>3
<1> DEFINE f == Found(s, d)
<1>5. \A i \in 1..Len(f) : f[i].rule \in Rule /\ f[i].idx \in Nat \ {0}
  BY <1>1, <1>2, <1>4 DEF IsPath
<1>6. \A i \in 1..(Len(f) - 1) : /\ f[i].idx <= Len(Anchors(f[i].rule))
                                 /\ Anchors(f[i].rule)[f[i].idx] = f[i + 1].rule
  BY <1>1, <1>2, <1>4 DEF IsPath
<1>7. \A i, j \in 1..Len(f) : f[i].rule = f[j].rule => i = j
  BY <1>1, <1>2, <1>4 DEF IsPath
<1>8. f # <<>>
  BY <1>1, <1>2
<1> QED BY <1>2, <1>5, <1>6, <1>7, <1>8 DEF IsPath

LEMMA PushIsPath ==
  ASSUME NEW s, IsPath(s), NEW r \in Rule,
         \A i \in 1..Len(s) : s[i].rule # r,
         s # <<>> => /\ s[Len(s)].idx <= Len(Anchors(s[Len(s)].rule))
                     /\ Anchors(s[Len(s)].rule)[s[Len(s)].idx] = r
  PROVE  IsPath(Append(s, Activation(r)))
<1> DEFINE p == Append(s, Activation(r))
<1>1. s \in Seq(Range(s)) /\ Len(s) \in Nat /\ (s # <<>> => Len(s) # 0)
  BY EmptySeq, LenProperties DEF IsPath
<1>2. /\ p \in Seq(Range(p))
      /\ Len(p) = Len(s) + 1
      /\ \A i \in 1..Len(s) : p[i] = s[i]
      /\ p[Len(s) + 1] = Activation(r)
  BY <1>1, PushProperties
<1>3. Activation(r).rule = r /\ Activation(r).idx = 1
  BY DEF Activation
<1> HIDE DEF p
<1>4. \A i \in 1..Len(p) : p[i].rule \in Rule /\ p[i].idx \in Nat \ {0}
  BY <1>1, <1>2, <1>3 DEF IsPath
<1>5. \A i \in 1..(Len(p) - 1) : /\ p[i].idx <= Len(Anchors(p[i].rule))
                                 /\ Anchors(p[i].rule)[p[i].idx] = p[i + 1].rule
  <2>1. SUFFICES ASSUME NEW i \in 1..Len(s)
                 PROVE  /\ p[i].idx <= Len(Anchors(p[i].rule))
                        /\ Anchors(p[i].rule)[p[i].idx] = p[i + 1].rule
    BY <1>1, <1>2
  <2>2. CASE i = Len(s)
    BY <2>2, <1>1, <1>2, <1>3
  <2>3. CASE i # Len(s)
    <3>1. i \in 1..(Len(s) - 1) /\ i + 1 \in 1..Len(s)
      BY <2>3, <1>1
    <3> QED BY <3>1, <1>2 DEF IsPath
  <2> QED BY <2>2, <2>3
<1>6. \A i, j \in 1..Len(p) : p[i].rule = p[j].rule => i = j
  BY <1>1, <1>2, <1>3 DEF IsPath
<1>7. IsPath(p)
  BY <1>2, <1>4, <1>5, <1>6 DEF IsPath
<1> QED BY <1>7 DEF p

LEMMA PopIsPath ==
  ASSUME NEW s, IsPath(s), s # <<>>
  PROVE  IsPath(SubSeq(s, 1, Len(s) - 1))
<1> DEFINE o == SubSeq(s, 1, Len(s) - 1)
<1>1. s \in Seq(Range(s))
  BY DEF IsPath
<1>2. /\ Len(s) \in Nat \ {0}
      /\ o \in Seq(Range(o))
      /\ Len(o) = Len(s) - 1
      /\ \A i \in 1..(Len(s) - 1) : o[i] = s[i]
  BY <1>1, PopProperties
<1> HIDE DEF o
<1>3. \A i \in 1..Len(o) : i \in 1..Len(s) /\ o[i] = s[i]
  BY <1>2
<1>4. \A i \in 1..(Len(o) - 1) :
        i \in 1..(Len(s) - 1) /\ o[i] = s[i] /\ o[i + 1] = s[i + 1]
  BY <1>2
<1>5. /\ \A i \in 1..Len(s) : s[i].rule \in Rule /\ s[i].idx \in Nat \ {0}
      /\ \A i \in 1..(Len(s) - 1) : /\ s[i].idx <= Len(Anchors(s[i].rule))
                                    /\ Anchors(s[i].rule)[s[i].idx] = s[i + 1].rule
      /\ \A i, j \in 1..Len(s) : s[i].rule = s[j].rule => i = j
  BY DEF IsPath
<1>6. IsPath(o)
  BY <1>2, <1>3, <1>4, <1>5 DEF IsPath
<1> QED BY <1>6 DEF o

\* The facts an action's guard gives about the innermost activation.
LEMMA TopFacts ==
  ASSUME PathInv, stack # <<>>
  PROVE  /\ Len(stack) \in Nat \ {0}
         /\ DOMAIN stack = 1..Len(stack)
         /\ Top = stack[Len(stack)]
         /\ Top.rule \in Rule
         /\ Top.idx \in Nat \ {0}
<1>1. stack \in Seq(Range(stack))
  BY DEF PathInv, IsPath
<1>2. Len(stack) \in Nat \ {0} /\ DOMAIN stack = 1..Len(stack)
  BY <1>1, EmptySeq, LenProperties
<1> QED BY <1>2 DEF PathInv, IsPath, Top

LEMMA PathStep ==
  ASSUME PathInv, Next
  PROVE  PathInv'
<1>1. deadline' = deadline /\ firstAt' = firstAt
  BY DEF Next, ReportCached, Resolve, AnchorKnown, AnchorCycle, AnchorResolve, Finish, inputs
<1>2. next' \in Nat \ {0}
  BY DEF PathInv, Next, ReportCached, Resolve, AnchorKnown, AnchorCycle, AnchorResolve, Finish
<1>3. IsPath(stack')
  <2>1. CASE ReportCached
    BY <2>1 DEF ReportCached, PathInv
  <2>2. CASE Resolve
    <3>1. Order[next] \in Rule
      BY <2>2, ResolverAssumption, ElementOfSeq DEF Resolve, PathInv
    <3>2. stack = <<>> /\ stack' = Append(stack, Activation(Order[next]))
      BY <2>2 DEF Resolve
    <3>3. \A i \in 1..Len(stack) : FALSE
      BY <3>2, EmptySeq
    <3> QED BY <3>1, <3>2, <3>3, PushIsPath DEF PathInv
  <2>3. CASE AnchorKnown
    BY <2>3, FoundIsPath DEF AnchorKnown, AtAnchor, PathInv
  <2>4. CASE AnchorCycle
    BY <2>4, FoundIsPath DEF AnchorCycle, AtAnchor, PathInv
  <2>5. CASE AnchorResolve
    <3>1. stack # <<>> /\ Anchor \in Rule /\ Top.idx <= Len(Anchors(Top.rule))
      BY <2>5 DEF AnchorResolve, AtAnchor, TopAnchors
    <3>2. \A i \in 1..Len(stack) : stack[i].rule # Anchor
      BY <2>5, <3>1, TopFacts DEF AnchorResolve, Visiting
    <3>3. stack' = Append(stack, Activation(Anchor))
      BY <2>5 DEF AnchorResolve
    <3>4. Anchor = Anchors(stack[Len(stack)].rule)[stack[Len(stack)].idx]
      BY DEF Anchor, TopAnchors, Top
    <3>5. stack[Len(stack)].idx <= Len(Anchors(stack[Len(stack)].rule))
      BY <3>1 DEF Top
    <3> HIDE DEF Anchor
    <3> QED BY <3>1, <3>2, <3>3, <3>4, <3>5, PushIsPath DEF PathInv
  <2>6. CASE Finish
    <3> DEFINE outer == SubSeq(stack, 1, Len(stack) - 1)
    <3>1. IsPath(outer)
      BY <2>6, PopIsPath DEF Finish, PathInv
    <3>2. CASE outer = <<>>
      BY <2>6, <3>1, <3>2 DEF Finish
    <3>3. CASE outer # <<>>
      BY <2>6, <3>1, <3>3, FoundIsPath DEF Finish
    <3> QED BY <3>2, <3>3
  <2> QED BY <2>1, <2>2, <2>3, <2>4, <2>5, <2>6 DEF Next
<1>4. IsPath(stack)'
  BY <1>1, <1>3 DEF IsPath, Anchors, AnchorsOf
<1> QED BY <1>1, <1>2, <1>4 DEF PathInv

LEMMA PathInvariant == Spec => []PathInv
<1>1. Init => PathInv
  <2>1. SUFFICES ASSUME Init PROVE PathInv
    OBVIOUS
  <2>2. stack = <<>> /\ next = 1 /\ deadline \in [Rule -> Deadlines]
    BY <2>1 DEF Init
  <2>3. stack \in Seq(Range(stack)) /\ Len(stack) = 0
    BY <2>2, EmptySeq
  <2> QED BY <2>2, <2>3 DEF PathInv, IsPath
<1>2. PathInv /\ [Next]_vars => PathInv'
  <2>1. PathInv /\ UNCHANGED vars => PathInv'
    BY DEF PathInv, IsPath, Anchors, AnchorsOf, vars
  <2> QED BY <2>1, PathStep
<1> QED BY <1>1, <1>2, PTL DEF Spec

\* No rule is computed inside its own computation (`visiting`, resolveDueDate).
THEOREM RecursionFollowsAPath == Spec => []VisitingIsAPath
<1>1. PathInv => VisitingIsAPath
  <2>1. SUFFICES ASSUME PathInv PROVE VisitingIsAPath
    OBVIOUS
  <2>2. DOMAIN stack = 1..Len(stack)
    BY <2>1, LenProperties DEF PathInv, IsPath
  <2> QED BY <2>1, <2>2 DEF PathInv, IsPath, VisitingIsAPath
<1> QED BY <1>1, PathInvariant, PTL
-----------------------------------------------------------------------------
(* Circular references *)

\* What is anchored on a circular reference is not settled.
LEMMA SettledAnchors ==
  ASSUME NEW r \in Settled, NEW a \in AnchorRules(r)
  PROVE  a \in Settled
<1>1. a \in Rule /\ r \in Rule
  BY DEF AnchorRules, Settled
<1>2. SUFFICES ASSUME a \in UNION Circular PROVE FALSE
  BY <1>1 DEF Settled
<1>3. PICK V \in Circular : a \in V
  BY <1>2
<1>4. V \cup {r} \in Circular
  BY <1>1, <1>3 DEF Circular
<1> QED BY <1>4 DEF Settled

\* A rule met again while it is being visited closes a circle, from its own
\* activation to the innermost one.
LEMMA CycleIsCircular ==
  ASSUME PathInv, AtAnchor, Anchor \in Visiting
  PROVE  Top.rule \notin Settled /\ Anchor \notin Settled
<1>1. /\ stack # <<>>
      /\ Top.idx <= Len(Anchors(Top.rule))
      /\ Anchor = Anchors(Top.rule)[Top.idx]
  BY DEF AtAnchor, Anchor, TopAnchors
<1>2. /\ Len(stack) \in Nat \ {0}
      /\ Top = stack[Len(stack)]
      /\ DOMAIN stack = 1..Len(stack)
  BY <1>1, TopFacts
<1>3. PICK j \in 1..Len(stack) : Anchor = stack[j].rule
  BY <1>2 DEF Visiting
<1> DEFINE V == {stack[i].rule : i \in j..Len(stack)}
<1>4. \A i \in 1..Len(stack) :
        /\ stack[i].rule \in Rule
        /\ stack[i].idx \in Nat \ {0}
  BY DEF PathInv, IsPath
<1>5. V \subseteq Rule
  BY <1>2, <1>3, <1>4
<1>6. ASSUME NEW i \in j..Len(stack)
      PROVE  AnchorRules(stack[i].rule) \cap V # {}
  <2> DEFINE r == stack[i].rule
             t == IF i = Len(stack) THEN j ELSE i + 1
  <2>1. i \in 1..Len(stack) /\ r \in Rule /\ t \in j..Len(stack)
    <3>1. i \in 1..Len(stack)
      BY <1>2, <1>3
    <3>2. t \in j..Len(stack)
      <4> DEFINE n == Len(stack)
      <4>1. n \in Nat /\ j \in 1..n /\ i \in j..n
        BY <1>2, <1>3
      <4> HIDE DEF n
      <4>2. i # n => i + 1 \in j..n
        BY <4>1
      <4> QED
        BY <4>1, <4>2 DEF n
    <3> QED
      BY <1>4, <3>1, <3>2
  <2>2. stack[i].idx <= Len(Anchors(r)) /\ Anchors(r)[stack[i].idx] = stack[t].rule
    <3>1. CASE i = Len(stack)
      BY <3>1, <1>1, <1>2, <1>3
    <3>2. CASE i # Len(stack)
      <4>1. Len(stack) \in Nat /\ i \in 1..Len(stack)
        BY <2>1, <1>2
      <4>2. i \in 1..(Len(stack) - 1)
        BY <3>2, <4>1
      <4> QED BY <4>2, <3>2 DEF PathInv, IsPath
    <3> QED BY <3>1, <3>2
  <2>3. stack[i].idx \in DOMAIN Anchors(r)
    BY <2>1, <2>2, <1>4, AnchorsAreSeq DEF PathInv
  <2>4. stack[t].rule \in Range(Anchors(r))
    BY <2>2, <2>3 DEF Range
  <2>5. stack[t].rule \in V /\ stack[t].rule \in Rule
    BY <2>1, <1>5
  <2> QED BY <2>4, <2>5 DEF AnchorRules
<1>7. V \in Circular
  BY <1>5, <1>6 DEF Circular
<1>8. Top.rule \in V /\ Anchor \in V
  BY <1>2, <1>3
<1> QED BY <1>7, <1>8 DEF Settled
-----------------------------------------------------------------------------
(* The memo *)

\* Every entry of a settled rule is final.
Stable(c, d) == \A r \in Settled \cap DOMAIN c : r \in DOMAIN d /\ d[r] = c[r]

\* The dates activation a has found are those of the anchors it has handled.
Collected(a, c) ==
  a.rule \in Settled =>
    /\ a.idx <= Len(Anchors(a.rule)) + 1
    /\ \A k \in 1..(a.idx - 1) : Anchors(a.rule)[k] \in Rule => Anchors(a.rule)[k] \in DOMAIN c
    /\ a.dates = {AnchorDate(Anchors(a.rule)[k], c) : k \in 1..(a.idx - 1)} \ {NoDate}

\* An entry satisfies the equation of its rule, whose anchors have entries too.
SolvedFor(r, c) ==
  /\ AnchorRules(r) \subseteq DOMAIN c
  /\ c[r] = DueDate(deadline[r], {AnchorDate(a, c) : a \in Range(Anchors(r))} \ {NoDate})

MemoSound(s, c, o) ==
  /\ \A i \in 1..Len(s) : s[i].rule \in Settled => s[i].rule \notin DOMAIN c
  /\ \A i \in 1..Len(s) : Collected(s[i], c)
  /\ \A r \in Settled \cap DOMAIN c : SolvedFor(r, c)
  /\ \A r \in Settled \cap DOMAIN o : r \in DOMAIN c /\ o[r] = c[r]

\* computeCaseState has reported the obligations before `next`.
Progress(s, o, n) ==
  /\ n <= Len(Order) + 1
  /\ s # <<>> => n <= Len(Order) /\ s[1].rule = Order[n]
  /\ \A k \in 1..(n - 1) : k <= Len(Order) => Order[k] \in DOMAIN o

MemoInv == /\ PathInv
           /\ MemoSound(stack, cache, out)
           /\ Progress(stack, out, next)

\* The memo entries a settled rule's anchors give are final as well.
LEMMA AnchorDateStable ==
  ASSUME NEW c, NEW d, Stable(c, d), NEW r \in Settled, NEW a \in Range(Anchors(r)),
         a \in Rule => a \in DOMAIN c
  PROVE  /\ AnchorDate(a, d) = AnchorDate(a, c)
         /\ a \in Rule => a \in DOMAIN d
<1>1. a \in Rule => a \in Settled
  BY SettledAnchors DEF AnchorRules
<1> QED BY <1>1 DEF Stable, AnchorDate, AnchorDateOf

LEMMA AnchorInRange ==
  ASSUME deadline \in [Rule -> Deadlines], NEW r \in Settled, NEW k \in 1..Len(Anchors(r))
  PROVE  Anchors(r)[k] \in Range(Anchors(r))
<1>1. r \in Rule
  BY DEF Settled
<1>2. DOMAIN Anchors(r) = 1..Len(Anchors(r))
  BY <1>1, AnchorsAreSeq
<1> QED BY <1>2 DEF Range

LEMMA CollectedStable ==
  ASSUME deadline \in [Rule -> Deadlines], NEW c, NEW d, Stable(c, d),
         NEW a, a.idx \in Nat \ {0}, Collected(a, c)
  PROVE  Collected(a, d)
<1>1. SUFFICES ASSUME a.rule \in Settled PROVE Collected(a, d)
  BY DEF Collected
<1>2. a.rule \in Rule /\ Len(Anchors(a.rule)) \in Nat
  BY <1>1, AnchorsAreSeq DEF Settled
<1>3. ASSUME NEW k \in 1..(a.idx - 1)
      PROVE  /\ AnchorDate(Anchors(a.rule)[k], d) = AnchorDate(Anchors(a.rule)[k], c)
             /\ Anchors(a.rule)[k] \in Rule => Anchors(a.rule)[k] \in DOMAIN d
  <2>1. k \in 1..Len(Anchors(a.rule))
    BY <1>1, <1>2 DEF Collected
  <2>2. Anchors(a.rule)[k] \in Range(Anchors(a.rule))
    BY <2>1, <1>1, AnchorInRange
  <2>3. Anchors(a.rule)[k] \in Rule => Anchors(a.rule)[k] \in DOMAIN c
    BY <1>1 DEF Collected
  <2> QED BY <2>2, <2>3, <1>1, AnchorDateStable
<1>4. {AnchorDate(Anchors(a.rule)[k], d) : k \in 1..(a.idx - 1)}
        = {AnchorDate(Anchors(a.rule)[k], c) : k \in 1..(a.idx - 1)}
  BY <1>3
<1> QED BY <1>1, <1>3, <1>4 DEF Collected

LEMMA CollectedAdvance ==
  ASSUME NEW c, NEW a, a.idx \in Nat \ {0}, Collected(a, c), NEW v,
         a.rule \in Settled =>
           /\ Len(Anchors(a.rule)) \in Nat
           /\ a.idx <= Len(Anchors(a.rule))
           /\ Anchors(a.rule)[a.idx] \in Rule => Anchors(a.rule)[a.idx] \in DOMAIN c
           /\ v = AnchorDate(Anchors(a.rule)[a.idx], c)
  PROVE  Collected(Advance(a, v), c)
<1> DEFINE b == Advance(a, v)
<1>1. /\ b.rule = a.rule
      /\ b.idx = a.idx + 1
      /\ b.dates = IF v = NoDate THEN a.dates ELSE a.dates \cup {v}
  BY DEF Advance
<1> HIDE DEF b
<1>2. SUFFICES ASSUME a.rule \in Settled PROVE Collected(b, c)
  BY <1>1 DEF Collected, b
<1>3. 1..(b.idx - 1) = 1..(a.idx - 1) \cup {a.idx}
  BY <1>1
<1>4. b.idx <= Len(Anchors(b.rule)) + 1
  BY <1>1, <1>2
<1>5. \A k \in 1..(b.idx - 1) : Anchors(b.rule)[k] \in Rule => Anchors(b.rule)[k] \in DOMAIN c
  BY <1>1, <1>2, <1>3 DEF Collected
<1> DEFINE D(k) == AnchorDate(Anchors(a.rule)[k], c)
<1>6. b.dates = {D(k) : k \in 1..(b.idx - 1)} \ {NoDate}
  <2>1. a.dates = {D(k) : k \in 1..(a.idx - 1)} \ {NoDate} /\ v = D(a.idx)
    BY <1>2 DEF Collected
  <2> HIDE DEF D
  <2>2. {D(k) : k \in 1..(b.idx - 1)} = {D(k) : k \in 1..(a.idx - 1)} \cup {D(a.idx)}
    BY <1>3
  <2> QED BY <2>1, <2>2, <1>1
<1> QED BY <1>1, <1>4, <1>5, <1>6 DEF Collected

LEMMA SolvedStable ==
  ASSUME NEW c, NEW d, Stable(c, d), NEW r \in Settled, r \in DOMAIN c, SolvedFor(r, c)
  PROVE  SolvedFor(r, d)
<1>1. ASSUME NEW a \in Range(Anchors(r))
      PROVE  /\ AnchorDate(a, d) = AnchorDate(a, c)
             /\ a \in Rule => a \in DOMAIN d
  <2>1. a \in Rule => a \in DOMAIN c
    BY DEF SolvedFor, AnchorRules
  <2> QED BY <2>1, AnchorDateStable
<1>2. {AnchorDate(a, d) : a \in Range(Anchors(r))} = {AnchorDate(a, c) : a \in Range(Anchors(r))}
  BY <1>1
<1>3. AnchorRules(r) \subseteq DOMAIN d
  BY <1>1 DEF AnchorRules
<1> QED BY <1>2, <1>3 DEF SolvedFor, Stable
-----------------------------------------------------------------------------
(* Each action keeps the memo sound *)

LEMMA PutStable ==
  ASSUME NEW c, NEW r, NEW v, r \in Settled => r \notin DOMAIN c
  PROVE  Stable(c, Put(c, r, v))
<1>1. /\ DOMAIN Put(c, r, v) = DOMAIN c \cup {r}
      /\ \A k \in DOMAIN c : k # r => Put(c, r, v)[k] = c[k]
  BY DEF Put
<1> QED BY <1>1 DEF Stable

\* The memo grows only by entries of settled rules that had none: a circular
\* reference writes the entry of a rule that is not settled.
LEMMA MemoStable ==
  ASSUME MemoInv, Next
  PROVE  Stable(cache, cache')
<1>1. CASE cache' = cache
  BY <1>1 DEF Stable
<1>2. CASE AnchorCycle
  <2>1. Anchor \notin Settled /\ cache' = Put(cache, Anchor, NoDate)
    BY <1>2, CycleIsCircular DEF AnchorCycle, MemoInv
  <2> HIDE DEF Anchor
  <2> QED BY <2>1, PutStable
<1>3. CASE Finish
  <2>1. cache' = Put(cache, Top.rule, DueDate(deadline[Top.rule], Top.dates))
    BY <1>3 DEF Finish
  <2>2. Top.rule \in Settled => Top.rule \notin DOMAIN cache
    BY <1>3, TopFacts DEF Finish, MemoInv, MemoSound
  <2> QED BY <2>1, <2>2, PutStable
<1> QED BY <1>1, <1>2, <1>3 DEF Next, ReportCached, Resolve, AnchorKnown, AnchorResolve

\* An activation that takes the date of its anchor, from a memo that has it.
LEMMA FoundSound ==
  ASSUME deadline \in [Rule -> Deadlines], NEW s, IsPath(s), s # <<>>, NEW c, NEW o,
         MemoSound(s, c, o), NEW v,
         s[Len(s)].rule \in Settled =>
           LET r == s[Len(s)].rule  k == s[Len(s)].idx
           IN /\ k <= Len(Anchors(r))
              /\ Anchors(r)[k] \in Rule => Anchors(r)[k] \in DOMAIN c
              /\ v = AnchorDate(Anchors(r)[k], c)
  PROVE  MemoSound(Found(s, v), c, o)
<1> DEFINE f == Found(s, v)
<1>1. s \in Seq(Range(s)) /\ Len(s) \in Nat \ {0}
  BY EmptySeq DEF IsPath
<1>2. /\ Len(f) = Len(s)
      /\ \A i \in 1..(Len(s) - 1) : f[i] = s[i]
      /\ f[Len(s)] = Advance(s[Len(s)], v)
  BY <1>1, FoundProperties
<1>3. s[Len(s)].rule \in Rule /\ s[Len(s)].idx \in Nat \ {0}
  BY <1>1 DEF IsPath
<1>4. Collected(s[Len(s)], c)
  BY <1>1 DEF MemoSound
<1>5. Collected(Advance(s[Len(s)], v), c)
  BY <1>3, <1>4, CollectedAdvance, AnchorsAreSeq
<1>6. Advance(s[Len(s)], v).rule = s[Len(s)].rule
  BY DEF Advance
<1> HIDE DEF f
<1>7. \A i \in 1..Len(f) : f[i].rule = s[i].rule /\ Collected(f[i], c)
  BY <1>1, <1>2, <1>5, <1>6 DEF MemoSound
<1>8. MemoSound(f, c, o)
  BY <1>2, <1>7 DEF MemoSound
<1> QED BY <1>8 DEF f

LEMMA PushSound ==
  ASSUME deadline \in [Rule -> Deadlines], NEW s, IsPath(s), NEW c, NEW o,
         MemoSound(s, c, o), NEW r \in Rule, r \notin DOMAIN c
  PROVE  MemoSound(Append(s, Activation(r)), c, o)
<1> DEFINE p == Append(s, Activation(r))
<1>1. s \in Seq(Range(s)) /\ Len(s) \in Nat
  BY LenProperties DEF IsPath
<1>2. /\ Len(p) = Len(s) + 1
      /\ \A i \in 1..Len(s) : p[i] = s[i]
      /\ p[Len(s) + 1] = Activation(r)
  BY <1>1, PushProperties
<1>3. Collected(Activation(r), c) /\ Activation(r).rule = r
  BY AnchorsAreSeq DEF Collected, Activation
<1> HIDE DEF p
<1>4. \A i \in 1..Len(p) : /\ Collected(p[i], c)
                           /\ p[i].rule \in Settled => p[i].rule \notin DOMAIN c
  BY <1>1, <1>2, <1>3 DEF MemoSound
<1>5. MemoSound(p, c, o)
  BY <1>4 DEF MemoSound
<1> QED BY <1>5 DEF p

\* A memo in which every settled entry is final stays sound for a stack whose
\* settled rules have no entry in it yet.
LEMMA GrowSound ==
  ASSUME deadline \in [Rule -> Deadlines], NEW s, IsPath(s), NEW c, NEW d, NEW o,
         MemoSound(s, c, o), Stable(c, d),
         \A r \in Settled \cap DOMAIN d : r \notin DOMAIN c => SolvedFor(r, d),
         \A i \in 1..Len(s) : s[i].rule \in Settled => s[i].rule \notin DOMAIN d
  PROVE  MemoSound(s, d, o)
<1>1. ASSUME NEW i \in 1..Len(s) PROVE Collected(s[i], d)
  <2>1. s[i].idx \in Nat \ {0} /\ Collected(s[i], c)
    BY DEF IsPath, MemoSound
  <2> QED BY <2>1, CollectedStable
<1>2. ASSUME NEW r \in Settled \cap DOMAIN d PROVE SolvedFor(r, d)
  <2>1. CASE r \in DOMAIN c
    BY <2>1, SolvedStable DEF MemoSound
  <2> QED BY <2>1
<1>3. \A r \in Settled \cap DOMAIN o : r \in DOMAIN d /\ o[r] = d[r]
  BY DEF MemoSound, Stable
<1> QED BY <1>1, <1>2, <1>3 DEF MemoSound

\* The end of an activation: its entry satisfies its rule's equation.
LEMMA FinishSolved ==
  ASSUME deadline \in [Rule -> Deadlines], NEW a, a.idx \in Nat \ {0}, a.rule \in Settled,
         NEW c, Collected(a, c), Stable(c, Put(c, a.rule, DueDate(deadline[a.rule], a.dates))),
         ~(a.idx <= Len(Anchors(a.rule)))
  PROVE  SolvedFor(a.rule, Put(c, a.rule, DueDate(deadline[a.rule], a.dates)))
<1> DEFINE r == a.rule
           v == DueDate(deadline[a.rule], a.dates)
           d == Put(c, a.rule, v)
           A == Anchors(a.rule)
<1>1. Collected(a, d)
  BY CollectedStable
<1>2. Len(A) \in Nat /\ DOMAIN A = 1..Len(A)
  BY AnchorsAreSeq DEF Settled
<1>3. d[a.rule] = v
  BY DEF Put
<1> HIDE DEF d
<1>4. a.idx - 1 = Len(A)
  BY <1>1, <1>2 DEF Collected
<1>5. /\ \A k \in DOMAIN A : A[k] \in Rule => A[k] \in DOMAIN d
      /\ a.dates = {AnchorDate(A[k], d) : k \in DOMAIN A} \ {NoDate}
  BY <1>1, <1>2, <1>4 DEF Collected
<1>6. AnchorRules(a.rule) \subseteq DOMAIN d
  BY <1>5 DEF AnchorRules, Range
<1>7. {AnchorDate(A[k], d) : k \in DOMAIN A} = {AnchorDate(x, d) : x \in Range(A)}
  BY DEF Range
<1>8. SolvedFor(a.rule, d)
  BY <1>3, <1>5, <1>6, <1>7 DEF SolvedFor
<1> QED BY <1>8 DEF d

LEMMA MemoStep ==
  ASSUME MemoInv, Next
  PROVE  MemoSound(stack', cache', out')
<1>1. /\ deadline \in [Rule -> Deadlines]
      /\ IsPath(stack)
      /\ MemoSound(stack, cache, out)
      /\ Stable(cache, cache')
  BY MemoStable DEF MemoInv, PathInv
<1>2. CASE ReportCached
  <2>1. out' = Put(out, Order[next], cache[Order[next]]) /\ Order[next] \in DOMAIN cache
    BY <1>2 DEF ReportCached
  <2>2. /\ DOMAIN out' = DOMAIN out \cup {Order[next]}
        /\ out'[Order[next]] = cache[Order[next]]
        /\ \A k \in DOMAIN out : k # Order[next] => out'[k] = out[k]
    BY <2>1 DEF Put
  <2>3. \A r \in Settled \cap DOMAIN out' : r \in DOMAIN cache /\ out'[r] = cache[r]
    BY <1>1, <2>1, <2>2 DEF MemoSound
  <2> QED BY <1>1, <1>2, <2>3 DEF ReportCached, MemoSound
<1>3. CASE Resolve
  <2>1. Order[next] \in Rule /\ stack' = Append(stack, Activation(Order[next]))
    BY <1>3, ResolverAssumption, ElementOfSeq DEF Resolve, MemoInv, PathInv
  <2>2. Order[next] \notin DOMAIN cache /\ cache' = cache /\ out' = out
    BY <1>3 DEF Resolve
  <2> QED BY <1>1, <2>1, <2>2, PushSound
<1>4. CASE AnchorKnown
  <2>1. /\ stack # <<>>
        /\ Top.idx <= Len(Anchors(Top.rule))
        /\ Anchors(Top.rule)[Top.idx] \in Rule => Anchors(Top.rule)[Top.idx] \in DOMAIN cache
        /\ stack' = Found(stack, AnchorDate(Anchors(Top.rule)[Top.idx], cache))
        /\ cache' = cache /\ out' = out
    BY <1>4 DEF AnchorKnown, AtAnchor, Anchor, TopAnchors
  <2> QED BY <1>1, <2>1, FoundSound DEF Top
<1>5. CASE AnchorCycle
  <2>1. /\ stack # <<>>
        /\ Top.rule \notin Settled
        /\ Anchor \notin Settled
        /\ cache' = Put(cache, Anchor, NoDate)
        /\ stack' = Found(stack, NoDate)
        /\ out' = out
    BY <1>5, CycleIsCircular DEF AnchorCycle, AtAnchor, MemoInv
  <2> HIDE DEF Anchor
  <2>2. DOMAIN cache' = DOMAIN cache \cup {Anchor}
    BY <2>1 DEF Put
  <2>3. MemoSound(stack, cache', out)
    <3>1. \A r \in Settled \cap DOMAIN cache' : r \in DOMAIN cache
      BY <2>1, <2>2
    <3>2. \A i \in 1..Len(stack) : stack[i].rule \in Settled => stack[i].rule \notin DOMAIN cache'
      BY <1>1, <2>1, <2>2 DEF MemoSound
    <3> QED BY <1>1, <3>1, <3>2, GrowSound
  <2> QED BY <1>1, <2>1, <2>3, FoundSound DEF Top
<1>6. CASE AnchorResolve
  <2>1. /\ Anchor \in Rule
        /\ Anchor \notin DOMAIN cache
        /\ stack' = Append(stack, Activation(Anchor))
        /\ cache' = cache /\ out' = out
    BY <1>6 DEF AnchorResolve
  <2> HIDE DEF Anchor
  <2> QED BY <1>1, <2>1, PushSound
<1>7. CASE Finish
  <2> DEFINE result == DueDate(deadline[Top.rule], Top.dates)
             outer  == SubSeq(stack, 1, Len(stack) - 1)
  <2>1. /\ stack # <<>>
        /\ ~(Top.idx <= Len(Anchors(Top.rule)))
        /\ cache' = Put(cache, Top.rule, result)
    BY <1>7 DEF Finish, AtAnchor, TopAnchors
  <2>2. /\ Len(stack) \in Nat \ {0}
        /\ Top = stack[Len(stack)]
        /\ Top.rule \in Rule
        /\ Top.idx \in Nat \ {0}
    BY <2>1, TopFacts DEF MemoInv
  <2>3. /\ Len(outer) = Len(stack) - 1
        /\ \A i \in 1..(Len(stack) - 1) : outer[i] = stack[i]
        /\ IsPath(outer)
    BY <1>1, <2>1, PopProperties, PopIsPath DEF IsPath
  <2>4. /\ DOMAIN cache' = DOMAIN cache \cup {Top.rule}
        /\ cache'[Top.rule] = result
    BY <2>1 DEF Put
  <2>5. Top.rule \in Settled => SolvedFor(Top.rule, cache')
    <3>1. Collected(Top, cache)
      BY <1>1, <2>2 DEF MemoSound
    <3> QED BY <1>1, <2>1, <2>2, <3>1, FinishSolved
  <2> HIDE DEF result, outer
  <2>6. MemoSound(outer, cache, out)
    BY <1>1, <2>2, <2>3 DEF MemoSound
  <2>7. MemoSound(outer, cache', out)
    <3>1. \A r \in Settled \cap DOMAIN cache' : r \notin DOMAIN cache => SolvedFor(r, cache')
      BY <2>4, <2>5
    <3>2. \A i \in 1..Len(outer) : outer[i].rule # Top.rule
      BY <1>1, <2>2, <2>3 DEF IsPath
    <3>3. \A i \in 1..Len(outer) : outer[i].rule \in Settled => outer[i].rule \notin DOMAIN cache'
      BY <2>4, <2>6, <3>2 DEF MemoSound
    <3> QED BY <1>1, <2>3, <2>6, <3>1, <3>3, GrowSound
  <2>8. CASE outer = <<>>
    <3>1. stack' = outer /\ out' = Put(out, Top.rule, result)
      BY <1>7, <2>8 DEF Finish, outer, result
    <3>2. /\ DOMAIN out' = DOMAIN out \cup {Top.rule}
          /\ out'[Top.rule] = result
          /\ \A k \in DOMAIN out : k # Top.rule => out'[k] = out[k]
      BY <3>1 DEF Put
    <3>3. \A r \in Settled \cap DOMAIN out' : r \in DOMAIN cache' /\ out'[r] = cache'[r]
      BY <2>4, <2>7, <3>2 DEF MemoSound
    <3> QED BY <2>7, <3>1, <3>3 DEF MemoSound
  <2>9. CASE outer # <<>>
    <3>1. stack' = Found(outer, result) /\ out' = out
      BY <1>7, <2>9 DEF Finish, outer, result
    <3> DEFINE n == Len(outer)
    <3>2. n \in 1..(Len(stack) - 1) /\ n + 1 = Len(stack)
      <4>1. outer \in Seq(Range(outer))
        BY <2>3 DEF IsPath
      <4>2. n \in Nat \ {0}
        BY <4>1, <2>9, EmptySeq
      <4> QED BY <4>2, <2>2, <2>3
    <3>3. /\ outer[n] = stack[n]
          /\ stack[n].rule \in Rule
          /\ stack[n].idx \in Nat \ {0}
          /\ stack[n].idx <= Len(Anchors(stack[n].rule))
          /\ Anchors(stack[n].rule)[stack[n].idx] = Top.rule
      BY <1>1, <2>2, <2>3, <3>2 DEF IsPath
    <3>4. AnchorDate(Top.rule, cache') = result
      BY <2>2, <2>4, ResolverAssumption DEF AnchorDate, AnchorDateOf
    <3> QED BY <1>1, <2>3, <2>4, <2>7, <2>9, <3>1, <3>3, <3>4, FoundSound
  <2> QED BY <2>8, <2>9
<1> QED BY <1>2, <1>3, <1>4, <1>5, <1>6, <1>7 DEF Next

\* The rule at the bottom of the stack is the one computeCaseState asked for.
LEMMA BottomOfFound ==
  ASSUME NEW s, IsPath(s), s # <<>>, NEW v
  PROVE  Found(s, v)[1].rule = s[1].rule
<1>1. s \in Seq(Range(s))
  BY DEF IsPath
<1>2. Len(s) \in Nat \ {0}
  BY <1>1, EmptySeq
<1>3. /\ \A i \in 1..(Len(s) - 1) : Found(s, v)[i] = s[i]
      /\ Found(s, v)[Len(s)] = Advance(s[Len(s)], v)
  BY <1>1, FoundProperties
<1>4. Advance(s[Len(s)], v).rule = s[Len(s)].rule
  BY DEF Advance
<1>5. 1 = Len(s) \/ 1 \in 1..(Len(s) - 1)
  <2>1. \A n \in Nat \ {0} : 1 = n \/ 1 \in 1..(n - 1)
    OBVIOUS
  <2> QED BY <1>2, <2>1
<1> QED BY <1>3, <1>4, <1>5

LEMMA ProgressStep ==
  ASSUME MemoInv, Next
  PROVE  Progress(stack', out', next')
<1>1. Progress(stack, out, next) /\ IsPath(stack) /\ next \in Nat \ {0}
  BY DEF MemoInv, PathInv
<1>2. ASSUME stack' = <<>>, next' = next + 1, next <= Len(Order),
             DOMAIN out' = DOMAIN out \cup {Order[next]}
      PROVE  Progress(stack', out', next')
  BY <1>1, <1>2, ResolverAssumption, LenProperties DEF Progress
<1>3. ASSUME next' = next, out' = out, next <= Len(Order),
             stack'[1].rule = Order[next]
      PROVE  Progress(stack', out', next')
  BY <1>1, <1>3, ResolverAssumption, LenProperties DEF Progress
<1>4. CASE ReportCached
  BY <1>2, <1>4 DEF ReportCached, Put
<1>5. CASE Resolve
  BY <1>3, <1>5 DEF Resolve, Activation
<1>6. CASE AnchorKnown \/ AnchorCycle
  <2>1. PICK v : stack # <<>> /\ stack' = Found(stack, v) /\ next' = next /\ out' = out
    BY <1>6 DEF AnchorKnown, AnchorCycle, AtAnchor
  <2> QED BY <1>1, <1>3, <2>1, BottomOfFound DEF Progress
<1>7. CASE AnchorResolve
  <2>1. stack # <<>> /\ stack' = Append(stack, Activation(Anchor)) /\ next' = next /\ out' = out
    BY <1>7 DEF AnchorResolve, AtAnchor
  <2>2. stack \in Seq(Range(stack)) /\ Len(stack) \in Nat \ {0}
    BY <1>1, <2>1, EmptySeq DEF IsPath
  <2>3. stack'[1] = stack[1]
    BY <2>1, <2>2, PushProperties
  <2> QED BY <1>1, <1>3, <2>1, <2>3 DEF Progress
<1>8. CASE Finish
  <2> DEFINE outer == SubSeq(stack, 1, Len(stack) - 1)
  <2>1. stack # <<>> /\ Len(stack) \in Nat \ {0} /\ Top = stack[Len(stack)]
    BY <1>8, TopFacts DEF Finish, MemoInv
  <2>2. /\ IsPath(outer)
        /\ Len(outer) = Len(stack) - 1
        /\ \A i \in 1..(Len(stack) - 1) : outer[i] = stack[i]
    BY <1>1, <2>1, PopIsPath, PopProperties DEF IsPath
  <2>3. CASE outer = <<>>
    <3>1. Len(stack) = 1
      <4>1. Len(outer) = 0
        BY <2>3, EmptySeq
      <4>2. \A n \in Nat \ {0} : 0 = n - 1 => n = 1
        OBVIOUS
      <4> HIDE DEF outer
      <4> QED BY <2>1, <2>2, <4>1, <4>2
    <3>2. next <= Len(Order) /\ Top.rule = Order[next]
      BY <1>1, <2>1, <3>1 DEF Progress
    <3>3. stack' = <<>> /\ next' = next + 1 /\ DOMAIN out' = DOMAIN out \cup {Order[next]}
      BY <1>8, <2>3, <3>2 DEF Finish, Put
    <3> QED BY <1>2, <3>2, <3>3
  <2>4. CASE outer # <<>>
    <3>1. PICK v : stack' = Found(outer, v) /\ next' = next /\ out' = out
      BY <1>8, <2>4 DEF Finish
    <3>2. Len(outer) \in Nat \ {0}
      BY <2>2, <2>4, EmptySeq DEF IsPath
    <3>3. outer[1] = stack[1]
      BY <2>1, <2>2, <3>2
    <3> HIDE DEF outer
    <3>4. stack'[1].rule = stack[1].rule
      BY <2>2, <2>4, <3>1, <3>3, BottomOfFound
    <3> QED BY <1>1, <1>3, <2>1, <3>1, <3>4 DEF Progress
  <2> QED BY <2>3, <2>4
<1> QED BY <1>4, <1>5, <1>6, <1>7, <1>8 DEF Next

\* The rules and the events do not change while a case state is computed.
LEMMA Inputs ==
  ASSUME [Next]_vars
  PROVE  deadline' = deadline /\ firstAt' = firstAt
BY DEF Next, ReportCached, Resolve, AnchorKnown, AnchorCycle, AnchorResolve, Finish, inputs, vars

LEMMA MemoTransfer ==
  ASSUME deadline' = deadline, firstAt' = firstAt,
         MemoSound(stack', cache', out'), Progress(stack', out', next')
  PROVE  MemoSound(stack, cache, out)' /\ Progress(stack, out, next)'
<1>1. \A r : Anchors(r)' = Anchors(r) /\ AnchorRules(r)' = AnchorRules(r)
  BY DEF Anchors, AnchorsOf, AnchorRules
<1>2. Settled' = Settled
  BY <1>1 DEF Settled, Circular
<1>3. \A a, c : AnchorDate(a, c)' = AnchorDate(a, c)
  BY DEF AnchorDate, AnchorDateOf
<1>4. \A spec, dates : DueDate(spec, dates)' = DueDate(spec, dates)
  BY DEF DueDate, DueDateOf
<1>5. \A a, c : Collected(a, c)' = Collected(a, c)
  BY <1>1, <1>2, <1>3 DEF Collected
<1>6. \A r, c : SolvedFor(r, c)' = SolvedFor(r, c)
  BY <1>1, <1>3, <1>4 DEF SolvedFor
<1> QED BY <1>2, <1>5, <1>6 DEF MemoSound, Progress

LEMMA MemoInvariant == Spec => []MemoInv
<1>1. Init => MemoInv
  <2>1. SUFFICES ASSUME Init PROVE MemoInv
    OBVIOUS
  <2>2. stack = <<>> /\ next = 1 /\ cache = <<>> /\ out = <<>> /\ deadline \in [Rule -> Deadlines]
    BY <2>1 DEF Init
  <2>3. stack \in Seq(Range(stack)) /\ Len(stack) = 0 /\ DOMAIN cache = {} /\ DOMAIN out = {}
    BY <2>2, EmptySeq
  <2>4. PathInv
    BY <2>2, <2>3 DEF PathInv, IsPath
  <2>5. next <= Len(Order) + 1
    BY <2>2, ResolverAssumption, LenProperties
  <2> QED BY <2>2, <2>3, <2>4, <2>5 DEF MemoInv, MemoSound, Progress
<1>2. MemoInv /\ [Next]_vars => MemoInv'
  <2>1. SUFFICES ASSUME MemoInv, [Next]_vars PROVE MemoInv'
    OBVIOUS
  <2>2. MemoSound(stack', cache', out') /\ Progress(stack', out', next')
    <3>1. CASE Next
      BY <2>1, <3>1, MemoStep, ProgressStep
    <3>2. CASE UNCHANGED vars
      BY <2>1, <3>2 DEF MemoInv, vars
    <3> QED BY <2>1, <3>1, <3>2
  <2>3. PathInv'
    BY <2>1, PathStep DEF MemoInv, PathInv, IsPath, Anchors, AnchorsOf, vars
  <2> QED BY <2>1, <2>2, <2>3, Inputs, MemoTransfer DEF MemoInv
<1> QED BY <1>1, <1>2, PTL DEF Spec

\* The due dates computeCaseState reports solve the deadlines' equations, for
\* every rule that involves no circular reference.
THEOREM DueDatesAreSolved == Spec => []DueDatesSolved
<1>1. MemoInv => DueDatesSolved
  <2>1. SUFFICES ASSUME MemoInv, Done, NEW r \in Settled
                 PROVE  out[r] = DueDate(deadline[r],
                                   {AnchorDate(a, out) : a \in Range(Anchors(r))} \ {NoDate})
    BY DEF DueDatesSolved
  <2>2. \A q \in Settled : q \in DOMAIN cache /\ out[q] = cache[q]
    <3>1. SUFFICES ASSUME NEW q \in Settled PROVE q \in DOMAIN out
      BY <2>1 DEF MemoInv, MemoSound
    <3>2. PICK k \in 1..Len(Order) : Order[k] = q
      BY ResolverAssumption, LenProperties DEF Settled, Range
    <3>3. k \in 1..(next - 1) /\ k <= Len(Order)
      BY <2>1, ResolverAssumption, LenProperties DEF Done, MemoInv, PathInv
    <3> QED BY <2>1, <3>2, <3>3 DEF MemoInv, Progress
  <2>3. \A a \in Range(Anchors(r)) : AnchorDate(a, out) = AnchorDate(a, cache)
    BY <2>2, SettledAnchors DEF AnchorDate, AnchorDateOf, AnchorRules
  <2>4. {AnchorDate(a, out) : a \in Range(Anchors(r))}
          = {AnchorDate(a, cache) : a \in Range(Anchors(r))}
    BY <2>3
  <2>5. SolvedFor(r, cache)
    BY <2>1, <2>2 DEF MemoInv, MemoSound
  <2> QED BY <2>2, <2>4, <2>5 DEF SolvedFor
<1> QED BY <1>1, MemoInvariant, PTL

\* Of two rules with the same deadline, both involve a circular reference or
\* neither does.
LEMMA SettledTogether ==
  ASSUME NEW r \in Settled, NEW q \in Rule, deadline[q] = deadline[r]
  PROVE  q \in Settled
<1>1. r \in Rule /\ AnchorRules(q) = AnchorRules(r)
  BY DEF Settled, AnchorRules, Anchors
<1>2. SUFFICES ASSUME q \in UNION Circular PROVE FALSE
  BY DEF Settled
<1>3. PICK U \in Circular : q \in U
  BY <1>2
<1>4. U \cup {r} \in Circular
  BY <1>1, <1>3 DEF Circular
<1> QED BY <1>4 DEF Settled

\* Two obligations of one scope whose due dates differ are reported as a conflict
\* (procedureModel.ts, detectConflicts, against caseTwin.ts, resolveDueDate),
\* unless both involve a circular reference.
THEOREM DisagreementsAreReported == Spec => []DisagreementReported
<1>1. PathInv /\ DueDatesSolved => DisagreementReported
  <2> DEFINE bound == Bound(BuildProcedureModel(Rules))
  <2> SUFFICES ASSUME PathInv, DueDatesSolved, Done, NEW a \in bound, NEW b \in bound,
                      SameScope(a, b), {a.id, b.id} \cap Settled # {},
                      out[a.id] # NoDate, out[b.id] # NoDate, out[a.id] # out[b.id]
               PROVE  \E conflict \in DetectConflicts(Rules) : conflict.rules = {a.id, b.id}
    BY DEF DisagreementReported
  <2>1. a \in Obligations(Rules) /\ b \in Obligations(Rules)
    BY DEF Bound, BuildProcedureModel
  <2>2. /\ a.id \in Rule /\ a.deadline = deadline[a.id]
        /\ b.id \in Rule /\ b.deadline = deadline[b.id]
    BY <2>1 DEF Obligations, OfKind, Rules
  <2>3. a.deadline # b.deadline
    <3> SUFFICES ASSUME deadline[a.id] = deadline[b.id] PROVE FALSE
      BY <2>2
    <3>1. a.id \in Settled /\ b.id \in Settled
      BY <2>2, SettledTogether
    <3>2. \A r \in {a.id, b.id} :
            out[r] = DueDate(deadline[r],
                             {AnchorDate(x, out) : x \in Range(Anchors(r))} \ {NoDate})
      BY <3>1 DEF DueDatesSolved
    <3>3. Anchors(a.id) = Anchors(b.id)
      BY DEF Anchors
    <3>4. out[a.id] = out[b.id]
      BY <3>2, <3>3
    <3> QED BY <3>4
  <2>4. NoDeadline \notin {a.deadline, b.deadline}
    BY <2>2, TermsAssumption DEF PathInv
  <2> DEFINE reason == IF IsIncompatibleForce(a, b) THEN "force" ELSE "deadline"
             conflict == [rules |-> {a.id, b.id}, reason |-> reason]
  <2>5. conflict \in DetectConflicts(Rules)
    <3>1. <<a, b>> \in Obligations(Rules) \X Obligations(Rules)
          /\ <<a, b>>[1] = a /\ <<a, b>>[2] = b
      BY <2>1
    <3>2. a # b /\ DeadlinesDiffer(a, b)
      BY <2>3, <2>4 DEF DeadlinesDiffer
    <3> QED BY <3>1, <3>2 DEF DetectConflicts
  <2> QED BY <2>5
<1> QED BY <1>1, PathInvariant, DueDatesAreSolved, PTL

\* A memo entry of such a rule is never replaced (dueDateCache).
THEOREM SettledMemoIsStable == Spec => SettledMemoStable
<1>1. MemoInv /\ [Next]_vars =>
        [\A r \in Settled \cap DOMAIN cache : r \in DOMAIN cache' /\ cache'[r] = cache[r]]_vars
  BY MemoStable DEF Stable
<1> QED BY <1>1, MemoInvariant, PTL DEF Spec, SettledMemoStable

-----------------------------------------------------------------------------
(* No due date without a fact *)

\* Of obligations without a fact nothing is known, be it in an activation, in
\* the memo or in what has been reported.
Unknown(U, s, c, o) ==
  /\ \A i \in 1..Len(s) : s[i].rule \in U => s[i].dates = {}
  /\ \A r \in U \cap DOMAIN c : c[r] = NoDate
  /\ \A r \in U \cap DOMAIN o : o[r] = NoDate

GuessInv == PathInv /\ \A U \in Baseless : Unknown(U, stack, cache, out)

LEMMA BaselessDueDate ==
  ASSUME deadline \in [Rule -> Deadlines], NEW U \in Baseless, NEW r \in U
  PROVE  DueDate(deadline[r], {}) = NoDate
<1>1. r \in Rule /\ ~HasFact(r) /\ deadline[r] \in Deadlines
  BY DEF Baseless
<1>2. deadline[r].type \in {"unspecified", "relative", "derived"}
  BY <1>1, ResolverAssumption DEF HasFact, ValidDeadline
<1>3. deadline[r].type = "relative" => firstAt[deadline[r].fromEvent] = NoDate
  BY <1>1 DEF HasFact
<1> QED BY <1>2, <1>3 DEF DueDate, DueDateOf, Combine

LEMMA BaselessAnchor ==
  ASSUME deadline \in [Rule -> Deadlines], NEW U \in Baseless, NEW r \in U,
         NEW a \in Range(Anchors(r)), NEW c, \A q \in U \cap DOMAIN c : c[q] = NoDate,
         a \in Rule => a \in DOMAIN c
  PROVE  AnchorDate(a, c) = NoDate
<1>1. ~HasFact(r) /\ AnchorRules(r) \subseteq U
  BY DEF Baseless
<1>2. a \in EventType => firstAt[a] = NoDate
  BY <1>1 DEF HasFact
<1>3. a \in Rule => a \in U
  BY <1>1 DEF AnchorRules
<1> QED BY <1>2, <1>3 DEF AnchorDate, AnchorDateOf

LEMMA FoundUnknown ==
  ASSUME NEW U, NEW s, IsPath(s), s # <<>>, NEW c, NEW o, Unknown(U, s, c, o), NEW v,
         s[Len(s)].rule \in U => v = NoDate
  PROVE  Unknown(U, Found(s, v), c, o)
<1>1. s \in Seq(Range(s)) /\ Len(s) \in Nat \ {0}
  BY EmptySeq DEF IsPath
<1>2. /\ Len(Found(s, v)) = Len(s)
      /\ \A i \in 1..(Len(s) - 1) : Found(s, v)[i] = s[i]
      /\ Found(s, v)[Len(s)] = Advance(s[Len(s)], v)
  BY <1>1, FoundProperties
<1>3. /\ Advance(s[Len(s)], v).rule = s[Len(s)].rule
      /\ v = NoDate => Advance(s[Len(s)], v).dates = s[Len(s)].dates
  BY DEF Advance
<1>4. \A i \in 1..Len(s) : i = Len(s) \/ i \in 1..(Len(s) - 1)
  BY <1>1
<1> QED BY <1>1, <1>2, <1>3, <1>4 DEF Unknown

LEMMA PushUnknown ==
  ASSUME NEW U, NEW s, IsPath(s), NEW c, NEW o, Unknown(U, s, c, o), NEW r
  PROVE  Unknown(U, Append(s, Activation(r)), c, o)
<1> DEFINE p == Append(s, Activation(r))
<1>1. s \in Seq(Range(s)) /\ Len(s) \in Nat
  BY LenProperties DEF IsPath
<1>2. /\ Len(p) = Len(s) + 1
      /\ \A i \in 1..Len(s) : p[i] = s[i]
      /\ p[Len(s) + 1] = Activation(r)
  BY <1>1, PushProperties
<1>3. Activation(r).dates = {}
  BY DEF Activation
<1> HIDE DEF p
<1>4. \A i \in 1..Len(p) : i \in 1..Len(s) \/ i = Len(s) + 1
  BY <1>1, <1>2
<1> QED BY <1>2, <1>3, <1>4 DEF Unknown, p

\* The value the innermost activation takes for its anchor.
LEMMA TopAnchorUnknown ==
  ASSUME deadline \in [Rule -> Deadlines], NEW U \in Baseless, NEW s, IsPath(s), s # <<>>,
         NEW c, \A q \in U \cap DOMAIN c : c[q] = NoDate,
         s[Len(s)].idx <= Len(Anchors(s[Len(s)].rule)),
         Anchors(s[Len(s)].rule)[s[Len(s)].idx] \in Rule
           => Anchors(s[Len(s)].rule)[s[Len(s)].idx] \in DOMAIN c
  PROVE  s[Len(s)].rule \in U => AnchorDate(Anchors(s[Len(s)].rule)[s[Len(s)].idx], c) = NoDate
<1> DEFINE r == s[Len(s)].rule
           k == s[Len(s)].idx
<1>1. s \in Seq(Range(s)) /\ Len(s) \in Nat \ {0}
  BY EmptySeq DEF IsPath
<1>2. r \in Rule /\ k \in Nat \ {0}
  BY <1>1 DEF IsPath
<1>3. Len(Anchors(r)) \in Nat /\ DOMAIN Anchors(r) = 1..Len(Anchors(r))
  BY <1>2, AnchorsAreSeq
<1> HIDE DEF r, k
<1>4. k \in DOMAIN Anchors(r)
  BY <1>2, <1>3 DEF r, k
<1>5. Anchors(r)[k] \in Range(Anchors(r))
  BY <1>4 DEF Range
<1> QED BY <1>5, BaselessAnchor DEF r, k

LEMMA UnknownStep ==
  ASSUME PathInv, Next, NEW U \in Baseless, Unknown(U, stack, cache, out)
  PROVE  Unknown(U, stack', cache', out')
<1>1. deadline \in [Rule -> Deadlines] /\ IsPath(stack)
  BY DEF PathInv
<1>2. CASE ReportCached
  BY <1>2 DEF ReportCached, Put, Unknown
<1>3. CASE Resolve
  <2>1. stack' = Append(stack, Activation(Order[next])) /\ cache' = cache /\ out' = out
    BY <1>3 DEF Resolve
  <2> QED BY <1>1, <2>1, PushUnknown
<1>4. CASE AnchorKnown
  <2>1. /\ stack # <<>>
        /\ Top.idx <= Len(Anchors(Top.rule))
        /\ Anchors(Top.rule)[Top.idx] \in Rule => Anchors(Top.rule)[Top.idx] \in DOMAIN cache
        /\ stack' = Found(stack, AnchorDate(Anchors(Top.rule)[Top.idx], cache))
        /\ cache' = cache /\ out' = out
    BY <1>4 DEF AnchorKnown, AtAnchor, Anchor, TopAnchors
  <2>2. Top.rule \in U => AnchorDate(Anchors(Top.rule)[Top.idx], cache) = NoDate
    BY <1>1, <2>1, TopAnchorUnknown DEF Top, Unknown
  <2> QED BY <1>1, <2>1, <2>2, FoundUnknown DEF Top
<1>5. CASE AnchorCycle
  <2>1. /\ stack # <<>> /\ stack' = Found(stack, NoDate)
        /\ cache' = Put(cache, Anchor, NoDate) /\ out' = out
    BY <1>5 DEF AnchorCycle, AtAnchor
  <2> HIDE DEF Anchor
  <2>2. Unknown(U, stack, cache', out)
    BY <2>1 DEF Unknown, Put
  <2> QED BY <1>1, <2>1, <2>2, FoundUnknown
<1>6. CASE AnchorResolve
  <2>1. stack' = Append(stack, Activation(Anchor)) /\ cache' = cache /\ out' = out
    BY <1>6 DEF AnchorResolve
  <2> QED BY <1>1, <2>1, PushUnknown
<1>7. CASE Finish
  <2> DEFINE result == DueDate(deadline[Top.rule], Top.dates)
             outer  == SubSeq(stack, 1, Len(stack) - 1)
  <2>1. stack # <<>> /\ cache' = Put(cache, Top.rule, result)
    BY <1>7 DEF Finish
  <2>2. Len(stack) \in Nat \ {0} /\ Top = stack[Len(stack)] /\ Top.rule \in Rule
    BY <2>1, TopFacts
  <2>3. Top.rule \in U => result = NoDate
    <3>1. Top.rule \in U => Top.dates = {}
      BY <2>2 DEF Unknown
    <3> QED BY <1>1, <3>1, BaselessDueDate
  <2>4. /\ Len(outer) = Len(stack) - 1
        /\ \A i \in 1..(Len(stack) - 1) : outer[i] = stack[i]
        /\ IsPath(outer)
    BY <1>1, <2>1, PopProperties, PopIsPath DEF IsPath
  <2> HIDE DEF result, outer
  <2>5. Unknown(U, outer, cache', out)
    BY <2>1, <2>2, <2>3, <2>4 DEF Unknown, Put
  <2>6. CASE outer = <<>>
    <3>1. stack' = outer /\ out' = Put(out, Top.rule, result)
      BY <1>7, <2>6 DEF Finish, outer, result
    <3> QED BY <2>3, <2>5, <3>1 DEF Unknown, Put
  <2>7. CASE outer # <<>>
    <3>1. stack' = Found(outer, result) /\ out' = out
      BY <1>7, <2>7 DEF Finish, outer, result
    <3> DEFINE n == Len(outer)
    <3>2. n \in 1..(Len(stack) - 1) /\ n + 1 = Len(stack)
      <4>1. outer \in Seq(Range(outer))
        BY <2>4 DEF IsPath
      <4>2. n \in Nat \ {0}
        BY <4>1, <2>7, EmptySeq
      <4> QED BY <4>2, <2>2, <2>4
    <3>3. /\ outer[n] = stack[n]
          /\ stack[n].idx <= Len(Anchors(stack[n].rule))
          /\ Anchors(stack[n].rule)[stack[n].idx] = Top.rule
      BY <1>1, <2>2, <2>4, <3>2 DEF IsPath
    <3>4. Top.rule \in DOMAIN cache' /\ cache'[Top.rule] = result
      BY <2>1 DEF Put
    <3>5. AnchorDate(Top.rule, cache') = result
      BY <2>2, <3>4, ResolverAssumption DEF AnchorDate, AnchorDateOf
    <3>6. outer[n].rule \in U => result = NoDate
      BY <1>1, <2>4, <2>5, <2>7, <3>3, <3>4, <3>5, TopAnchorUnknown DEF Unknown
    <3> QED BY <2>4, <2>5, <2>7, <3>1, <3>6, FoundUnknown
  <2> QED BY <2>6, <2>7
<1> QED BY <1>2, <1>3, <1>4, <1>5, <1>6, <1>7 DEF Next

\* A due date is only reported where some fact leads to it, circular and
\* dangling references included (computeDueDateUncached; NoGuessedDate).
THEOREM DatesHaveFacts == Spec => []NoGuessedDate
<1>1. Init => GuessInv
  <2> SUFFICES ASSUME Init PROVE GuessInv
    OBVIOUS
  <2>1. stack = <<>> /\ next = 1 /\ cache = <<>> /\ out = <<>> /\ deadline \in [Rule -> Deadlines]
    BY DEF Init
  <2>2. stack \in Seq(Range(stack)) /\ Len(stack) = 0 /\ DOMAIN cache = {} /\ DOMAIN out = {}
    BY <2>1, EmptySeq
  <2>3. PathInv
    BY <2>1, <2>2 DEF PathInv, IsPath
  <2> QED BY <2>2, <2>3 DEF GuessInv, Unknown
<1>2. GuessInv /\ [Next]_vars => GuessInv'
  <2> SUFFICES ASSUME GuessInv, [Next]_vars PROVE GuessInv'
    OBVIOUS
  <2>1. PathInv'
    BY PathStep DEF GuessInv, PathInv, IsPath, Anchors, AnchorsOf, vars
  <2>2. Baseless' = Baseless
    <3>1. \A r : Anchors(r)' = Anchors(r) /\ AnchorRules(r)' = AnchorRules(r)
      BY Inputs DEF Anchors, AnchorsOf, AnchorRules
    <3>2. \A r : HasFact(r)' = HasFact(r)
      BY <3>1, Inputs DEF HasFact
    <3> QED BY <3>1, <3>2 DEF Baseless
  <2>3. ASSUME NEW U \in Baseless
        PROVE  Unknown(U, stack', cache', out')
    <3>1. CASE Next
      BY <2>3, <3>1, UnknownStep DEF GuessInv
    <3>2. CASE UNCHANGED vars
      BY <2>3, <3>2 DEF GuessInv, vars
    <3> QED BY <3>1, <3>2
  <2> QED BY <2>1, <2>2, <2>3 DEF GuessInv, Unknown
<1>3. GuessInv => NoGuessedDate
  BY DEF GuessInv, Unknown, NoGuessedDate
<1> QED BY <1>1, <1>2, <1>3, PTL DEF Spec

-----------------------------------------------------------------------------
(* Types, and what a deadline in business days counts *)

Act == [rule : Rule, idx : Nat \ {0}, dates : {D \in SUBSET Nat : IsFiniteSet(D)}]

\* The entries of the memo, or of the report: dates, and for a relative
\* deadline none but the one its own event gives.
Entries(c) ==
  /\ DOMAIN c \subseteq Rule
  /\ \A r \in DOMAIN c :
       /\ c[r] \in Date
       /\ deadline[r].type = "relative" => c[r] \in {NoDate, DueDate(deadline[r], {})}

Typed(s, c, o) ==
  /\ s \in Seq(Act)
  /\ \A i \in 1..Len(s) : s[i].idx <= Len(Anchors(s[i].rule)) + 1
  /\ Entries(c) /\ Entries(o)

Evaluating == deadline \in [Rule -> Deadlines] /\ firstAt \in [EventType -> Date]

TypeInv == MemoInv /\ Evaluating /\ Typed(stack, cache, out)

\* Whatever dates its anchors gave, a deadline is due at an instant or unknown.
LEMMA DueDateIsDate ==
  ASSUME Evaluating, NEW spec \in Deadlines, NEW dates \in SUBSET Nat, IsFiniteSet(dates)
  PROVE  /\ DueDate(spec, dates) \in Date
         /\ spec.type = "relative" => DueDate(spec, dates) = DueDate(spec, {})
<1>1. ValidDeadline(spec, Rule \cup Dangling)
  BY ResolverAssumption
<1>2. CASE spec.type = "unspecified"
  BY <1>2 DEF DueDate, DueDateOf, Date
<1>3. CASE spec.type = "absolute"
  BY <1>1, <1>3 DEF DueDate, DueDateOf, Date, ValidDeadline
<1>4. CASE spec.type = "relative"
  <2>1. /\ spec.amount \in Nat /\ firstAt[spec.fromEvent] \in Date
        /\ DueDate(spec, dates) = IF firstAt[spec.fromEvent] = NoDate THEN NoDate
                                  ELSE AddDays(firstAt[spec.fromEvent], spec.amount, spec.unit)
        /\ DueDate(spec, {}) = DueDate(spec, dates)
    BY <1>1, <1>4 DEF DueDate, DueDateOf, ValidDeadline, Evaluating
  <2> QED
    BY <1>4, <2>1, AddDaysMonotone DEF Date
<1>5. CASE spec.type = "derived"
  <2>1. spec.amount \in Nat /\ DueDate(spec, dates) = Combine(spec, dates)
    BY <1>1, <1>5 DEF DueDate, DueDateOf, ValidDeadline
  <2>2. dates # {} => Min(dates) \in Nat /\ Max(dates) \in Nat
    BY Extremes
  <2> QED
    BY <1>5, <2>1, <2>2, AddDaysMonotone DEF Date, Combine
<1> QED
  BY <1>1, <1>2, <1>3, <1>4, <1>5 DEF ValidDeadline

LEMMA PutEntries ==
  ASSUME NEW c, Entries(c), NEW r \in Rule, NEW v \in Date,
         deadline[r].type = "relative" => v \in {NoDate, DueDate(deadline[r], {})}
  PROVE  Entries(Put(c, r, v))
BY DEF Entries, Put

LEMMA AnchorDateIsDate ==
  ASSUME Evaluating, NEW c, Entries(c), NEW a, a \in Rule => a \in DOMAIN c
  PROVE  AnchorDate(a, c) \in Date
BY DEF Evaluating, Entries, AnchorDate, AnchorDateOf, Date

LEMMA FoundTyped ==
  ASSUME NEW s, s # <<>>, NEW c, NEW o, Typed(s, c, o), NEW v \in Date,
         s[Len(s)].idx <= Len(Anchors(s[Len(s)].rule)),
         \A r \in Rule : Len(Anchors(r)) \in Nat
  PROVE  Typed(Found(s, v), c, o)
<1> DEFINE f == Found(s, v)
           a == s[Len(s)]
<1>1. s \in Seq(Act) /\ Len(s) \in Nat \ {0} /\ a \in Act
  BY EmptySeq DEF Typed
<1>2. Advance(a, v) \in Act
  <2>1. a.rule \in Rule /\ a.idx \in Nat \ {0} /\ a.dates \in SUBSET Nat /\ IsFiniteSet(a.dates)
    BY <1>1 DEF Act
  <2> HIDE DEF a
  <2>2. IsFiniteSet(a.dates \cup {v})
    BY <2>1, FS_AddElement
  <2>3. v # NoDate => v \in Nat
    BY DEF Date
  <2> QED
    BY <2>1, <2>2, <2>3 DEF Advance, Act
<1>3. /\ Len(f) = Len(s)
      /\ \A i \in 1..(Len(s) - 1) : f[i] = s[i]
      /\ f[Len(s)] = Advance(a, v)
  BY <1>1, FoundProperties
<1>4. f \in Seq(Act)
  BY <1>1, <1>2, ExceptSeq DEF Found
<1>5. Advance(a, v).rule = a.rule /\ Advance(a, v).idx = a.idx + 1 /\ a.rule \in Rule /\ a.idx \in Nat
  BY <1>1 DEF Advance, Act
<1> HIDE DEF f, a
<1>6. \A i \in 1..Len(f) : f[i].idx <= Len(Anchors(f[i].rule)) + 1
  <2> SUFFICES ASSUME NEW i \in 1..Len(s)
               PROVE  f[i].idx <= Len(Anchors(f[i].rule)) + 1
    BY <1>3
  <2>1. CASE i = Len(s)
    BY <1>3, <1>5, <2>1 DEF a
  <2>2. CASE i # Len(s)
    <3>1. i \in 1..(Len(s) - 1)
      BY <1>1, <2>2
    <3> QED
      BY <1>3, <3>1 DEF Typed
  <2> QED
    BY <2>1, <2>2
<1> QED
  BY <1>4, <1>6 DEF Typed, f

LEMMA PushTyped ==
  ASSUME NEW s, NEW c, NEW o, Typed(s, c, o), NEW r \in Rule,
         \A q \in Rule : Len(Anchors(q)) \in Nat
  PROVE  Typed(Append(s, Activation(r)), c, o)
<1> DEFINE p == Append(s, Activation(r))
<1>1. Activation(r) \in Act /\ Activation(r).rule = r /\ Activation(r).idx = 1
  BY FS_EmptySet DEF Activation, Act
<1>2. /\ p \in Seq(Act)
      /\ Len(p) = Len(s) + 1
      /\ \A i \in 1..Len(s) : p[i] = s[i]
      /\ p[Len(s) + 1] = Activation(r)
  BY <1>1, AppendProperties DEF Typed
<1>3. \A i \in 1..Len(p) : i \in 1..Len(s) \/ i = Len(s) + 1
  BY <1>2 DEF Typed
<1> HIDE DEF p
<1> QED
  BY <1>1, <1>2, <1>3 DEF Typed, p

\* computeDueDateUncached's result is an entry of its rule.
LEMMA ResultTyped ==
  ASSUME TypeInv, stack # <<>>
  PROVE  /\ Top.rule \in Rule /\ Top.idx \in Nat \ {0}
         /\ DueDate(deadline[Top.rule], Top.dates) \in Date
         /\ deadline[Top.rule].type = "relative"
              => DueDate(deadline[Top.rule], Top.dates) = DueDate(deadline[Top.rule], {})
<1>1. Top \in Act
  <2>1. stack \in Seq(Act) /\ Len(stack) \in Nat \ {0}
    BY EmptySeq DEF TypeInv, Typed
  <2> QED
    BY <2>1, ElementOfSeq DEF Top
<1>2. /\ Top.rule \in Rule /\ Top.idx \in Nat \ {0}
      /\ Top.dates \in SUBSET Nat /\ IsFiniteSet(Top.dates)
  BY <1>1 DEF Act
<1>3. Evaluating /\ deadline[Top.rule] \in Deadlines
  BY <1>2 DEF TypeInv, Evaluating
<1> QED
  BY <1>2, <1>3, DueDateIsDate

LEMMA TypedStep ==
  ASSUME TypeInv, Next
  PROVE  Typed(stack', cache', out')
<1>1. /\ Evaluating /\ Typed(stack, cache, out) /\ PathInv /\ IsPath(stack)
      /\ Entries(cache) /\ Entries(out) /\ stack \in Seq(Act)
      /\ \A r \in Rule : Len(Anchors(r)) \in Nat
  BY AnchorsAreSeq DEF TypeInv, MemoInv, PathInv, Typed
<1>2. CASE ReportCached
  <2>1. Order[next] \in Rule /\ cache[Order[next]] \in Date
        /\ (deadline[Order[next]].type = "relative"
              => cache[Order[next]] \in {NoDate, DueDate(deadline[Order[next]], {})})
    BY <1>1, <1>2 DEF ReportCached, Entries
  <2>2. Entries(Put(out, Order[next], cache[Order[next]]))
    BY <1>1, <2>1, PutEntries
  <2> QED
    BY <1>1, <1>2, <2>2 DEF ReportCached, Typed
<1>3. CASE Resolve
  <2>1. Order[next] \in Rule /\ stack' = Append(stack, Activation(Order[next]))
    BY <1>3, ResolverAssumption, ElementOfSeq DEF Resolve, TypeInv, MemoInv, PathInv
  <2>2. cache' = cache /\ out' = out
    BY <1>3 DEF Resolve
  <2> QED
    BY <1>1, <2>1, <2>2, PushTyped
<1>4. CASE AnchorKnown \/ AnchorCycle
  <2>1. PICK v \in Date : /\ stack # <<>> /\ Top.idx <= Len(Anchors(Top.rule))
                          /\ stack' = Found(stack, v) /\ out' = out
    <3>1. CASE AnchorKnown
      <4>1. AnchorDate(Anchor, cache) \in Date
        BY <1>1, <3>1, AnchorDateIsDate DEF AnchorKnown
      <4> QED
        BY <3>1, <4>1 DEF AnchorKnown, AtAnchor, TopAnchors
    <3>2. CASE AnchorCycle
      BY <3>2 DEF AnchorCycle, AtAnchor, TopAnchors, Date
    <3> QED
      BY <1>4, <3>1, <3>2
  <2>2. Entries(cache')
    <3>1. CASE AnchorKnown
      BY <1>1, <3>1 DEF AnchorKnown
    <3>2. CASE AnchorCycle
      <4>1. Anchor \in Rule /\ cache' = Put(cache, Anchor, NoDate) /\ NoDate \in Date
        BY <3>2 DEF AnchorCycle, Date
      <4> HIDE DEF Anchor
      <4> QED
        BY <1>1, <4>1, PutEntries
    <3> QED
      BY <1>4, <3>1, <3>2
  <2>3. Typed(stack, cache', out')
    BY <1>1, <2>1, <2>2 DEF Typed
  <2> QED
    BY <1>1, <2>1, <2>3, FoundTyped DEF Top
<1>5. CASE AnchorResolve
  <2>1. Anchor \in Rule /\ stack' = Append(stack, Activation(Anchor)) /\ cache' = cache /\ out' = out
    BY <1>5 DEF AnchorResolve
  <2> HIDE DEF Anchor
  <2> QED
    BY <1>1, <2>1, PushTyped
<1>6. CASE Finish
  <2> DEFINE result == DueDate(deadline[Top.rule], Top.dates)
             outer  == SubSeq(stack, 1, Len(stack) - 1)
  <2>1. stack # <<>> /\ cache' = Put(cache, Top.rule, result)
    BY <1>6 DEF Finish
  <2>2. /\ Top.rule \in Rule /\ result \in Date
        /\ deadline[Top.rule].type = "relative" => result \in {NoDate, DueDate(deadline[Top.rule], {})}
    BY <2>1, ResultTyped
  <2>3. /\ Len(stack) \in Nat \ {0}
        /\ Len(outer) = Len(stack) - 1
        /\ \A i \in 1..(Len(stack) - 1) : outer[i] = stack[i]
    BY <1>1, <2>1, PopProperties DEF IsPath
  <2>4. outer \in Seq(Act)
    <3>1. \A i \in 1..(Len(stack) - 1) : stack[i] \in Act
      BY <1>1, <2>3, ElementOfSeq
    <3>2. 1 \in Int /\ Len(stack) - 1 \in Int
      BY <2>3
    <3> QED
      BY <1>1, <3>1, <3>2, SubSeqProperties
  <2> HIDE DEF result, outer
  <2>5. Entries(cache')
    BY <1>1, <2>1, <2>2, PutEntries
  <2>6. CASE outer = <<>>
    <3>1. stack' = <<>> /\ out' = Put(out, Top.rule, result)
      BY <1>6, <2>6 DEF Finish, outer, result
    <3>2. Entries(out')
      BY <1>1, <2>2, <3>1, PutEntries
    <3> QED
      BY <2>5, <3>1, <3>2 DEF Typed
  <2>7. CASE outer # <<>>
    <3>1. stack' = Found(outer, result) /\ out' = out
      BY <1>6, <2>7 DEF Finish, outer, result
    <3> DEFINE n == Len(outer)
    <3>2. n \in 1..(Len(stack) - 1)
      <4>1. n \in Nat \ {0}
        BY <2>4, <2>7, EmptySeq
      <4> QED
        BY <4>1, <2>3
    <3>3. outer[n] = stack[n] /\ stack[n].idx <= Len(Anchors(stack[n].rule))
      BY <1>1, <2>3, <3>2 DEF IsPath
    <3>4. Typed(outer, cache', out)
      <4>1. \A i \in 1..Len(outer) : i \in 1..Len(stack) /\ outer[i] = stack[i]
        BY <2>3
      <4> QED
        BY <1>1, <2>4, <2>5, <4>1 DEF Typed
    <3> QED
      BY <1>1, <2>2, <2>7, <3>1, <3>3, <3>4, FoundTyped
  <2> QED
    BY <2>6, <2>7
<1> QED
  BY <1>2, <1>3, <1>4, <1>5, <1>6 DEF Next

LEMMA TypedTransfer ==
  ASSUME deadline' = deadline, firstAt' = firstAt, Evaluating, Typed(stack', cache', out')
  PROVE  Evaluating' /\ Typed(stack, cache, out)'
<1>1. \A r : Anchors(r)' = Anchors(r)
  BY DEF Anchors, AnchorsOf
<1>2. \A spec, dates : DueDate(spec, dates)' = DueDate(spec, dates)
  BY DEF DueDate, DueDateOf
<1> QED
  BY <1>1, <1>2 DEF Typed, Entries, Evaluating

LEMMA TypeInvariant == Spec => []TypeInv
<1>1. Init => Evaluating /\ Typed(stack, cache, out)
  <2> SUFFICES ASSUME Init
               PROVE  Evaluating /\ Typed(stack, cache, out)
    OBVIOUS
  <2>1. stack = <<>> /\ cache = <<>> /\ out = <<>>
    BY DEF Init
  <2>2. DOMAIN cache = {} /\ DOMAIN out = {} /\ stack \in Seq(Act) /\ Len(stack) = 0
    BY <2>1, EmptySeq
  <2>3. Evaluating
    BY ResolverAssumption DEF Init, Evaluating, Date
  <2> QED
    BY <2>2, <2>3 DEF Typed, Entries
<1>2. TypeInv /\ [Next]_vars => (Evaluating /\ Typed(stack, cache, out))'
  <2> SUFFICES ASSUME TypeInv, [Next]_vars
               PROVE  (Evaluating /\ Typed(stack, cache, out))'
    OBVIOUS
  <2>1. Typed(stack', cache', out')
    <3>1. CASE Next
      BY <3>1, TypedStep
    <3>2. CASE UNCHANGED vars
      BY <3>2 DEF TypeInv, vars
    <3> QED
      BY <3>1, <3>2
  <2> QED
    BY <2>1, Inputs, TypedTransfer DEF TypeInv
<1> QED
  BY <1>1, <1>2, MemoInvariant, PTL DEF Spec, TypeInv

\* The evaluation's state keeps its types: the memo and the report hold dates
\* of obligations, an activation stays within its anchors, and no obligation is
\* asked for beyond the last (resolveDueDate, computeDueDateUncached; TypeOK).
THEOREM TypesArePreserved == Spec => []TypeOK
<1>1. TypeInv => TypeOK
  <2> SUFFICES ASSUME TypeInv
               PROVE  TypeOK
    OBVIOUS
  <2>1. Typed(stack, cache, out) /\ Progress(stack, out, next) /\ next \in Nat \ {0} /\ IsPath(stack)
    BY DEF TypeInv, MemoInv, PathInv
  <2>2. Len(Order) \in Nat
    BY ResolverAssumption, LenProperties
  <2>3. next \in 1..(Len(Order) + 1)
    BY <2>1, <2>2 DEF Progress
  <2>4. stack \in Seq([rule : Rule, idx : Nat \ {0}, dates : SUBSET Nat])
    <3>1. Act \subseteq [rule : Rule, idx : Nat \ {0}, dates : SUBSET Nat]
      BY DEF Act
    <3> QED
      BY <2>1, <3>1, SeqMonotonic DEF Typed
  <2>5. DOMAIN stack = 1..Len(stack)
    BY <2>1, LenProperties DEF IsPath
  <2> QED
    BY <2>1, <2>3, <2>4, <2>5 DEF TypeOK, Typed, Entries, Range
<1> QED
  BY <1>1, TypeInvariant, PTL

\* The report is written by Map.set only.
ReportIsAMap == out = [r \in DOMAIN out |-> out[r]]

LEMMA ReportStaysAMap == Spec => []ReportIsAMap
<1>1. \A m, k, v : Put(m, k, v) = [r \in DOMAIN Put(m, k, v) |-> Put(m, k, v)[r]]
  BY DEF Put
<1>2. Init => ReportIsAMap
  BY DEF Init, ReportIsAMap
<1>3. ReportIsAMap /\ [Next]_vars => ReportIsAMap'
  <2> SUFFICES ASSUME ReportIsAMap, [Next]_vars
               PROVE  ReportIsAMap'
    OBVIOUS
  <2>1. out' = out \/ \E k, v : out' = Put(out, k, v)
    BY DEF Next, ReportCached, Resolve, AnchorKnown, AnchorCycle, AnchorResolve, Finish, vars
  <2> QED
    BY <1>1, <2>1 DEF ReportIsAMap
<1> QED
  BY <1>2, <1>3, PTL DEF Spec

\* Where no reference is circular, what computeCaseState reports through the
\* memo is what the case twin takes the due dates to be (DueDates): equations
\* without circles have one solution, and the report is one.
THEOREM TwinsDatesAreComputed == Spec => []DueDatesDefined
<1>1. ASSUME TypeInv, ReportIsAMap, Done, UNION Circular = {}, DueDatesSolved
      PROVE  out = DueDates(firstAt, deadline)
  <2> DEFINE Due(r, f) == DueDateOf(firstAt, deadline[r],
                            {AnchorDateOf(firstAt, a, f) : a \in Range(AnchorsOf(deadline[r]))} \ {NoDate})
             IsSolution(f) == f = [r \in Rule |-> Due(r, f)]
             due == DueDates(firstAt, deadline)
  <2>1. DOMAIN out = Rule
    <3>1. ASSUME NEW r \in Rule
          PROVE  r \in DOMAIN out
      <4>1. PICK k \in 1..Len(Order) : Order[k] = r
        BY ResolverAssumption, LenProperties DEF Range
      <4>2. k \in 1..(next - 1) /\ k <= Len(Order)
        BY <1>1, ResolverAssumption, LenProperties DEF Done, TypeInv, MemoInv, PathInv
      <4> QED
        BY <1>1, <4>1, <4>2 DEF TypeInv, MemoInv, Progress
    <3> QED
      BY <1>1, <3>1 DEF TypeInv, Typed, Entries
  <2>2. \A r \in Rule : out[r] = Due(r, out)
    BY <1>1 DEF DueDatesSolved, Settled, DueDate, AnchorDate, Anchors
  <2>3. IsSolution(out)
    <3> HIDE DEF Due
    <3> QED
      BY <1>1, <2>1, <2>2 DEF ReportIsAMap
  <2>4. IsSolution(due)
    <3>1. due = CHOOSE f : IsSolution(f)
      BY DEF DueDates
    <3> HIDE DEF IsSolution, due
    <3> QED
      BY <2>3, <3>1
  <2>5. ASSUME NEW r \in Rule, \A a \in AnchorRules(r) : out[a] = due[a]
        PROVE  Due(r, out) = Due(r, due)
    <3> HIDE DEF due
    <3>1. \A a \in Range(AnchorsOf(deadline[r])) :
            AnchorDateOf(firstAt, a, out) = AnchorDateOf(firstAt, a, due)
      BY <2>5 DEF AnchorDateOf, AnchorRules, Anchors
    <3>2. {AnchorDateOf(firstAt, a, out) : a \in Range(AnchorsOf(deadline[r]))}
            = {AnchorDateOf(firstAt, a, due) : a \in Range(AnchorsOf(deadline[r]))}
      BY <3>1
    <3> QED
      BY <3>2
  <2> HIDE DEF Due, due
  <2>6. \A r \in Rule : out[r] = due[r]
    <3> DEFINE U == {r \in Rule : out[r] # due[r]}
    <3>1. U \notin Circular \/ U = {}
      BY <1>1
    <3>2. SUFFICES ASSUME U # {}
                   PROVE  FALSE
      OBVIOUS
    <3>3. PICK r \in U : AnchorRules(r) \cap U = {}
      BY <3>1, <3>2 DEF Circular
    <3>4. \A a \in AnchorRules(r) : out[a] = due[a]
      BY <3>3 DEF AnchorRules
    <3>5. Due(r, out) = Due(r, due)
      BY <2>5, <3>4
    <3> QED
      BY <2>2, <2>4, <3>5
  <2>7. out = due
    BY <2>3, <2>4, <2>6
  <2> QED
    BY <2>7 DEF due
<1>2. TypeInv /\ ReportIsAMap /\ DueDatesSolved => DueDatesDefined
  BY <1>1 DEF DueDatesDefined
<1> QED
  BY <1>2, TypeInvariant, ReportStaysAMap, DueDatesAreSolved, PTL

\* A business-day deadline ends on a business day, and as many business days
\* after its event as the policy grants (addDays, computeDueDateUncached;
\* BusinessDaysCounted).
THEOREM BusinessDaysAreCounted == Spec => []BusinessDaysCounted
<1>1. TypeInv => BusinessDaysCounted
  <2> SUFFICES ASSUME TypeInv, NEW r \in DOMAIN out, out[r] # NoDate,
                      deadline[r].type = "relative", deadline[r].unit = "business_day",
                      deadline[r].amount > 0
               PROVE  /\ IsBusinessDay(DateOf(out[r]))
                      /\ Count(DateOf(firstAt[deadline[r].fromEvent]), DateOf(out[r]))
                           = deadline[r].amount
    BY DEF BusinessDaysCounted, Count, BusinessDays
  <2> DEFINE spec == deadline[r]
             at == firstAt[spec.fromEvent]
             from == DateOf(at)
             to == Reach(from, spec.amount)
  <2>1. r \in Rule /\ spec \in Deadlines /\ out[r] = DueDate(spec, {}) /\ Evaluating
    BY DEF TypeInv, Typed, Entries, Evaluating
  <2>2. ValidDeadline(spec, Rule \cup Dangling)
    BY <2>1, ResolverAssumption
  <2>3. spec.amount \in Nat \ {0} /\ at \in Date
    BY <2>1, <2>2 DEF ValidDeadline, Evaluating
  <2>4. at # NoDate /\ out[r] = AddDays(at, spec.amount, "business_day")
    BY <2>1 DEF DueDate, DueDateOf
  <2>5. at \in Nat
    BY <2>3, <2>4 DEF Date
  <2> HIDE DEF spec, at
  <2>6. from \in Nat /\ out[r] = DateOnly(to)
    BY <2>3, <2>4, <2>5, DatesAreNumbers, BusinessDaysAdded
  <2> HIDE DEF from
  <2>7. to \in Nat /\ Count(from, to) = spec.amount /\ IsBusinessDay(to)
    <3> DEFINE n == spec.amount
    <3>1. n \in Nat /\ n > 0
      BY <2>3
    <3> HIDE DEF n
    <3>2. IsReach(from, n, Reach(from, n)) /\ IsBusinessDay(Reach(from, n))
      BY <2>6, <3>1, ReachExists, ReachIsBusinessDay
    <3> QED
      BY <3>2 DEF IsReach, n
  <2> HIDE DEF to
  <2>8. DateOf(out[r]) = to
    BY <2>6, <2>7, DatesAreNumbers
  <2> QED
    BY <2>7, <2>8 DEF from, at, spec
<1> QED
  BY <1>1, TypeInvariant, PTL

=============================================================================
