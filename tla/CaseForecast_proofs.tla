------------------------- MODULE CaseForecast_proofs -------------------------
(***************************************************************************)
(* Proofs about the case twin and its forecasts, for any compilation, any  *)
(* events and any instants.                                                *)
(***************************************************************************)
EXTENDS CaseForecast, EventLog_proofs, SequenceTheorems

-----------------------------------------------------------------------------
(* Recursion along a relation in which every non-empty set has an element  *)
(* that depends on none of the set.                                        *)

IsGrounded(S, R) == \A U \in (SUBSET S) \ {{}} : \E x \in U : R[x] \cap U = {}

Solves(S, R, step, D, f) == \A x \in D : R[x] \cap S \subseteq D /\ f[x] = step[<<x, f>>]

Partials(S, V, R, step) == {p \in (SUBSET S) \X [S -> V] : Solves(S, R, step, p[1], p[2])}

Respects(S, V, R, step) ==
  /\ step \in [S \X [S -> V] -> V]
  /\ \A x \in S : \A f, g \in [S -> V] :
       (\A y \in R[x] \cap S : f[y] = g[y]) => step[<<x, f>>] = step[<<x, g>>]

\* Where two parts of a solution overlap they agree.
LEMMA PartialsAgree ==
  ASSUME NEW S, NEW V, NEW R, NEW step, Respects(S, V, R, step), IsGrounded(S, R),
         NEW p \in Partials(S, V, R, step), NEW q \in Partials(S, V, R, step)
  PROVE  \A x \in p[1] \cap q[1] : p[2][x] = q[2][x]
<1> DEFINE U == {x \in p[1] \cap q[1] : p[2][x] # q[2][x]}
<1>1. p[1] \in SUBSET S /\ q[1] \in SUBSET S /\ p[2] \in [S -> V] /\ q[2] \in [S -> V]
      /\ Solves(S, R, step, p[1], p[2]) /\ Solves(S, R, step, q[1], q[2])
  BY DEF Partials
<1>2. SUFFICES ASSUME U # {}
               PROVE  FALSE
  OBVIOUS
<1>3. PICK x \in U : R[x] \cap U = {}
  <2>1. U \in (SUBSET S) \ {{}}
    BY <1>1, <1>2
  <2> HIDE DEF U
  <2> QED
    BY <2>1 DEF IsGrounded
<1>4. \A y \in R[x] \cap S : p[2][y] = q[2][y]
  BY <1>1, <1>3 DEF Solves
<1>5. step[<<x, p[2]>>] = step[<<x, q[2]>>]
  <2>1. \A f, g \in [S -> V] : (\A y \in R[x] \cap S : f[y] = g[y]) => step[<<x, f>>] = step[<<x, g>>]
    BY <1>1, <1>3 DEF Respects
  <2> QED
    BY <1>1, <1>4, <2>1
<1> QED
  BY <1>1, <1>3, <1>5 DEF Solves

\* An equation per element, each of which looks only at what the element
\* depends on, has a solution.
LEMMA SolutionExists ==
  ASSUME NEW S, NEW V, NEW R, NEW step, V # {}, Respects(S, V, R, step), IsGrounded(S, R)
  PROVE  \E f \in [S -> V] : \A x \in S : f[x] = step[<<x, f>>]
<1> DEFINE Partial == Partials(S, V, R, step)
           Solved == {x \in S : \E p \in Partial : x \in p[1]}
           Part(x) == CHOOSE p \in Partial : x \in p[1]
           f == [x \in S |-> IF x \in Solved THEN Part(x)[2][x] ELSE CHOOSE v \in V : TRUE]
<1>1. ASSUME NEW p \in Partial
      PROVE  p[1] \in SUBSET S /\ p[2] \in [S -> V] /\ Solves(S, R, step, p[1], p[2])
  BY DEF Partials
<1>2. \A x \in Solved : x \in S /\ Part(x) \in Partial /\ x \in Part(x)[1]
  OBVIOUS
<1>3. f \in [S -> V]
  <2>1. ASSUME NEW x \in Solved
        PROVE  Part(x)[2][x] \in V
    BY <1>1, <1>2
  <2> HIDE DEF Part, Solved
  <2> QED
    BY <2>1
<1>4. ASSUME NEW p \in Partial, NEW x \in p[1]
      PROVE  x \in Solved /\ f[x] = p[2][x]
  <2>1. x \in Solved /\ x \in S
    BY <1>1
  <2>2. Part(x)[2][x] = p[2][x]
    BY <1>2, <2>1, PartialsAgree
  <2> HIDE DEF Part, Solved
  <2> QED
    BY <2>1, <2>2
<1> HIDE DEF f, Part
<1>5. ASSUME NEW x \in Solved
      PROVE  R[x] \cap S \subseteq Solved /\ f[x] = step[<<x, f>>]
  <2>1. PICK p \in Partial : x \in p[1]
    OBVIOUS
  <2> HIDE DEF Partial
  <2>2. x \in S /\ R[x] \cap S \subseteq p[1] /\ p[2][x] = step[<<x, p[2]>>] /\ p[2] \in [S -> V]
    BY <1>1, <2>1 DEF Solves
  <2>3. \A y \in R[x] \cap S : f[y] = p[2][y] /\ y \in Solved
    BY <1>4, <2>1, <2>2
  <2>4. step[<<x, f>>] = step[<<x, p[2]>>]
    BY <1>3, <2>2, <2>3 DEF Respects
  <2> QED
    BY <1>4, <2>1, <2>2, <2>3, <2>4
<1>6. Solved = S
  <2> SUFFICES ASSUME S \ Solved # {}
               PROVE  FALSE
    OBVIOUS
  <2>1. PICK x \in S \ Solved : R[x] \cap (S \ Solved) = {}
    <3> HIDE DEF Solved
    <3> QED
      BY DEF IsGrounded
  <2> DEFINE g == [f EXCEPT ![x] = step[<<x, f>>]]
  <2>2. step[<<x, f>>] \in V
    BY <1>3, <2>1 DEF Respects
  <2>3. g \in [S -> V] /\ g[x] = step[<<x, f>>] /\ \A y \in S \ {x} : g[y] = f[y]
    BY <1>3, <2>1, <2>2
  <2> HIDE DEF g
  <2>4. ASSUME NEW y \in Solved \cup {x}
        PROVE  R[y] \cap S \subseteq Solved \cup {x} /\ g[y] = step[<<y, g>>]
    <3>1. y \in S /\ R[y] \cap S \subseteq Solved
      <4> HIDE DEF Partial
      <4> QED
        BY <1>5, <2>1
    <3> HIDE DEF Solved
    <3>2. \A z \in R[y] \cap S : f[z] = g[z]
      BY <2>1, <2>3, <3>1
    <3>3. step[<<y, f>>] = step[<<y, g>>]
      BY <1>3, <2>3, <3>1, <3>2 DEF Respects
    <3>4. g[y] = step[<<y, f>>]
      BY <1>5, <2>1, <2>3, <3>1
    <3> QED
      BY <3>1, <3>3, <3>4
  <2>5. <<Solved \cup {x}, g>> \in Partial
    <3> HIDE DEF Solved
    <3>1. Solved \cup {x} \in SUBSET S
      BY DEF Solved
    <3> QED
      BY <2>3, <2>4, <3>1 DEF Partials, Solves
  <2>6. x \in Solved
    BY <1>4, <2>5
  <2> QED
    BY <2>1, <2>6
<1> QED
  BY <1>3, <1>5, <1>6

-----------------------------------------------------------------------------
(* Due dates *)

Date == Nat \cup {NoDate}

AnchorDates(firstAt, spec, due) ==
  {AnchorDateOf(firstAt, a, due) : a \in Range(AnchorsOf(spec))} \ {NoDate}

LEMMA AnchorDatesAreNumbers ==
  ASSUME NEW firstAt \in [EventType -> Date], NEW spec, ValidDeadline(spec, Rule),
         NEW due \in [Rule -> Date]
  PROVE  AnchorDates(firstAt, spec, due) \in SUBSET Nat /\ IsFiniteSet(AnchorDates(firstAt, spec, due))
<1>1. \A a : AnchorDateOf(firstAt, a, due) \in Date
  BY DEF AnchorDateOf, Date
<1>2. AnchorDates(firstAt, spec, due) \in SUBSET Nat
  BY <1>1 DEF AnchorDates, Date
<1> DEFINE q == AnchorsOf(spec)
           f == [k \in DOMAIN q |-> AnchorDateOf(firstAt, q[k], due)]
           T == {AnchorDateOf(firstAt, a, due) : a \in Range(q)}
<1>3. IsFiniteSet(DOMAIN q)
  <2>1. DOMAIN q = 1..Len(q) /\ Len(q) \in Nat
    <3>1. CASE spec.type = "derived"
      BY <3>1 DEF AnchorsOf, ValidDeadline
    <3>2. CASE spec.type # "derived"
      BY <3>2 DEF AnchorsOf
    <3> QED
      BY <3>1, <3>2
  <2> QED
    BY <2>1, FS_Interval
<1> HIDE DEF q
<1>4. f \in Surjection(DOMAIN q, T)
  BY DEF Surjection, Range
<1>5. IsFiniteSet(T)
  <2> HIDE DEF f, T
  <2> QED
    BY <1>3, <1>4, FS_Surjection
<1>6. AnchorDates(firstAt, spec, due) \in SUBSET T
  BY DEF AnchorDates, q
<1> HIDE DEF T
<1> QED
  BY <1>2, <1>5, <1>6, FS_Subset

LEMMA DueDateIsDate ==
  ASSUME NEW firstAt \in [EventType -> Date], NEW spec, ValidDeadline(spec, Rule),
         NEW dates \in SUBSET Nat, IsFiniteSet(dates)
  PROVE  DueDateOf(firstAt, spec, dates) \in Date
<1>1. CASE spec.type = "unspecified"
  BY <1>1 DEF DueDateOf, Date
<1>2. CASE spec.type = "absolute"
  BY <1>2 DEF DueDateOf, Date, ValidDeadline
<1>3. CASE spec.type = "relative"
  <2>1. /\ spec.amount \in Nat /\ firstAt[spec.fromEvent] \in Date
        /\ DueDateOf(firstAt, spec, dates)
             = IF firstAt[spec.fromEvent] = NoDate THEN NoDate
               ELSE AddDays(firstAt[spec.fromEvent], spec.amount, spec.unit)
    BY <1>3 DEF DueDateOf, ValidDeadline
  <2> QED
    BY <2>1, AddDaysMonotone DEF Date
<1>4. CASE spec.type = "derived"
  <2>1. spec.amount \in Nat /\ DueDateOf(firstAt, spec, dates) = Combine(spec, dates)
    BY <1>4 DEF DueDateOf, ValidDeadline
  <2>2. dates # {} => Min(dates) \in Nat /\ Max(dates) \in Nat
    BY Extremes
  <2> QED
    BY <2>1, <2>2, AddDaysMonotone DEF Date, Combine
<1> QED
  BY <1>1, <1>2, <1>3, <1>4 DEF ValidDeadline

\* The deadlines of the rules of a compilation, and what they depend on.
DeadlinesIn(c) == [id \in Rule |-> DeadlineOf(Procedure(c), id)]
AnchorsIn(c) == [id \in Rule |-> Range(AnchorsOf(DeadlineOf(Procedure(c), id)))]

LEMMA DeadlinesAreValid ==
  ASSUME NEW c \in Compilations, NEW id \in Rule
  PROVE  ValidDeadline(DeadlineOf(Procedure(c), id), Rule)
<1> DEFINE dated == {r \in Bound(Procedure(c)) :
                       r.id = id /\ r.trigger # NoTrigger /\ r.deadline # NoDeadline}
<1>1. Bound(Procedure(c)) \subseteq c.rules
  BY DEF Bound, Procedure, BuildProcedureModel, Obligations, OfKind
<1>2. CASE dated = {}
  BY <1>2 DEF DeadlineOf, ValidDeadline
<1>3. CASE dated # {}
  <2>1. (CHOOSE r \in dated : TRUE) \in dated
    BY <1>3
  <2>2. DeadlineOf(Procedure(c), id) = (CHOOSE r \in dated : TRUE).deadline
    BY <1>3 DEF DeadlineOf
  <2> QED
    BY <1>1, <2>1, <2>2, TwinAssumption
<1> QED
  BY <1>2, <1>3

LEMMA AnchorsAreGrounded ==
  ASSUME NEW c \in Compilations
  PROVE  IsGrounded(Rule, AnchorsIn(c))
BY AnchorsAssumption DEF IsGrounded, AnchorsIn

\* The due dates solve the deadlines' equations.
LEMMA DueDatesSolve ==
  ASSUME NEW c \in Compilations, NEW firstAt \in [EventType -> Date]
  PROVE  LET due == DueDates(firstAt, DeadlinesIn(c))
         IN /\ due \in [Rule -> Date]
            /\ \A id \in Rule :
                 due[id] = DueDateOf(firstAt, DeadlinesIn(c)[id],
                                     AnchorDates(firstAt, DeadlinesIn(c)[id], due))
<1> DEFINE spec(id) == DeadlinesIn(c)[id]
           Due(id, f) == DueDateOf(firstAt, spec(id), AnchorDates(firstAt, spec(id), f))
           step == [p \in Rule \X [Rule -> Date] |-> Due(p[1], p[2])]
           due == DueDates(firstAt, DeadlinesIn(c))
           IsSolution(f) == f = [id \in Rule |-> Due(id, f)]
<1>1. \A id \in Rule : ValidDeadline(spec(id), Rule)
  BY DeadlinesAreValid DEF DeadlinesIn
<1>2. ASSUME NEW id \in Rule, NEW f \in [Rule -> Date]
      PROVE  Due(id, f) \in Date
  <2> HIDE DEF spec
  <2>1. ValidDeadline(spec(id), Rule)
    BY <1>1
  <2>2. AnchorDates(firstAt, spec(id), f) \in SUBSET Nat /\ IsFiniteSet(AnchorDates(firstAt, spec(id), f))
    BY <2>1, AnchorDatesAreNumbers
  <2> QED
    BY <2>1, <2>2, DueDateIsDate
<1>3. ASSUME NEW id \in Rule, NEW f, NEW g, \A a \in AnchorsIn(c)[id] \cap Rule : f[a] = g[a]
      PROVE  Due(id, f) = Due(id, g)
  <2>1. AnchorsIn(c)[id] = Range(AnchorsOf(spec(id)))
    BY DEF AnchorsIn, DeadlinesIn
  <2>2. \A a \in Range(AnchorsOf(spec(id))) : AnchorDateOf(firstAt, a, f) = AnchorDateOf(firstAt, a, g)
    BY <1>3, <2>1 DEF AnchorDateOf
  <2>3. AnchorDates(firstAt, spec(id), f) = AnchorDates(firstAt, spec(id), g)
    BY <2>2 DEF AnchorDates
  <2> QED
    BY <2>3
<1> HIDE DEF Due
<1>4. Respects(Rule, Date, AnchorsIn(c), step)
  BY <1>2, <1>3 DEF Respects
<1>5. PICK f \in [Rule -> Date] : \A id \in Rule : f[id] = step[<<id, f>>]
  <2>1. Date # {}
    BY DEF Date
  <2> HIDE DEF step
  <2> QED
    BY <1>4, <2>1, AnchorsAreGrounded, SolutionExists
<1>6. IsSolution(f)
  <2>1. \A id \in Rule : f[id] = Due(id, f)
    BY <1>5
  <2> QED
    BY <2>1
<1>7. due = CHOOSE g : IsSolution(g)
  BY DEF DueDates, Due, AnchorDates
<1>8. IsSolution(due)
  <2> HIDE DEF IsSolution, due
  <2> QED
    BY <1>6, <1>7
<1>9. due \in [Rule -> Date]
  <2> DEFINE U == {id \in Rule : due[id] \notin Date}
  <2>1. SUFFICES ASSUME U # {}
                 PROVE  FALSE
    <3>1. \A id \in Rule : due[id] \in Date
      BY <2>1
    <3>2. due = [id \in Rule |-> due[id]]
      <4> HIDE DEF due
      <4> QED
        BY <1>8
    <3> HIDE DEF due
    <3> QED
      BY <3>1, <3>2
  <2> HIDE DEF due
  <2>2. PICK id \in U : AnchorsIn(c)[id] \cap U = {}
    <3>1. U \in (SUBSET Rule) \ {{}}
      BY <2>1
    <3> HIDE DEF U
    <3> QED
      BY <3>1, AnchorsAreGrounded DEF IsGrounded
  <2> DEFINE g == [a \in Rule |-> IF due[a] \in Date THEN due[a] ELSE NoDate]
  <2>3. g \in [Rule -> Date]
    BY DEF Date
  <2>4. \A a \in AnchorsIn(c)[id] \cap Rule : due[a] = g[a]
    BY <2>2
  <2> HIDE DEF g
  <2>5. Due(id, due) = Due(id, g)
    BY <1>3, <2>4
  <2>6. due[id] = Due(id, due)
    BY <1>8
  <2> QED
    BY <1>2, <2>3, <2>5, <2>6
<1>10. ASSUME NEW id \in Rule
       PROVE  due[id] = Due(id, due)
  <2> HIDE DEF due
  <2> QED
    BY <1>8
<1> QED
  BY <1>9, <1>10 DEF Due

-----------------------------------------------------------------------------
(* Earlier events *)

\* Whatever had occurred has occurred still, at the same time or earlier.
Earlier(firstAt, then) ==
  \A t \in EventType : firstAt[t] # NoDate => then[t] # NoDate /\ then[t] <= firstAt[t]

LEMMA AnchorDateEarlier ==
  ASSUME NEW firstAt \in [EventType -> Date], NEW then \in [EventType -> Date],
         Earlier(firstAt, then),
         NEW due \in [Rule -> Date], NEW earlier \in [Rule -> Date], NEW a,
         AnchorDateOf(firstAt, a, due) # NoDate,
         a \in Rule /\ due[a] # NoDate => earlier[a] # NoDate
  PROVE  /\ AnchorDateOf(firstAt, a, due) \in Nat /\ AnchorDateOf(then, a, earlier) \in Nat
         /\ (a \in Rule /\ due[a] # NoDate => earlier[a] <= due[a])
            => AnchorDateOf(then, a, earlier) <= AnchorDateOf(firstAt, a, due)
BY DEF AnchorDateOf, Earlier, Date

\* What earlier anchors do to one deadline.
LEMMA DueDateEarlier ==
  ASSUME NEW firstAt \in [EventType -> Date], NEW then \in [EventType -> Date],
         Earlier(firstAt, then),
         NEW due \in [Rule -> Date], NEW earlier \in [Rule -> Date],
         NEW spec, ValidDeadline(spec, Rule),
         \A a \in Range(AnchorsOf(spec)) \cap Rule : due[a] # NoDate => earlier[a] # NoDate,
         DueDateOf(firstAt, spec, AnchorDates(firstAt, spec, due)) # NoDate
  PROVE  /\ DueDateOf(then, spec, AnchorDates(then, spec, earlier)) # NoDate
         /\ (/\ spec.type = "derived" => spec.combinator # "latest"
             /\ \A a \in Range(AnchorsOf(spec)) \cap Rule : due[a] # NoDate => earlier[a] <= due[a])
            => DueDateOf(then, spec, AnchorDates(then, spec, earlier))
                 <= DueDateOf(firstAt, spec, AnchorDates(firstAt, spec, due))
<1> DEFINE now == AnchorDates(firstAt, spec, due)
           new == AnchorDates(then, spec, earlier)
<1>1. now \in SUBSET Nat /\ new \in SUBSET Nat /\ IsFiniteSet(new)
  BY AnchorDatesAreNumbers
<1>2. ASSUME NEW d \in now
      PROVE  \E a \in Range(AnchorsOf(spec)) :
               /\ d = AnchorDateOf(firstAt, a, due) /\ AnchorDateOf(then, a, earlier) \in new
               /\ (a \in Rule /\ due[a] # NoDate => earlier[a] <= due[a])
                  => AnchorDateOf(then, a, earlier) <= d
  <2>1. PICK a \in Range(AnchorsOf(spec)) : d = AnchorDateOf(firstAt, a, due) /\ d # NoDate
    BY DEF AnchorDates
  <2>2. /\ AnchorDateOf(then, a, earlier) \in Nat
        /\ (a \in Rule /\ due[a] # NoDate => earlier[a] <= due[a])
           => AnchorDateOf(then, a, earlier) <= d
    BY <2>1, AnchorDateEarlier
  <2>3. AnchorDateOf(then, a, earlier) \in new
    BY <2>2, NoDateAssumption DEF AnchorDates
  <2> QED
    BY <2>1, <2>2, <2>3
<1> HIDE DEF now, new
<1>3. CASE spec.type = "unspecified"
  BY <1>3 DEF DueDateOf
<1>4. CASE spec.type = "absolute"
  BY <1>4, NoDateAssumption DEF DueDateOf, ValidDeadline
<1>5. CASE spec.type = "relative"
  <2> DEFINE t == spec.fromEvent
  <2>1. t \in EventType /\ spec.amount \in Nat
    BY <1>5 DEF ValidDeadline
  <2>2. /\ firstAt[t] # NoDate
        /\ DueDateOf(firstAt, spec, now) = AddDays(firstAt[t], spec.amount, spec.unit)
    BY <1>5 DEF DueDateOf, now
  <2>3. firstAt[t] \in Nat /\ then[t] \in Nat /\ then[t] <= firstAt[t]
    BY <2>1, <2>2 DEF Earlier, Date
  <2>4. DueDateOf(then, spec, new) = AddDays(then[t], spec.amount, spec.unit)
    BY <1>5, <2>3, NoDateAssumption DEF DueDateOf
  <2>5. AddDays(then[t], spec.amount, spec.unit) \in Nat
        /\ AddDays(then[t], spec.amount, spec.unit) <= AddDays(firstAt[t], spec.amount, spec.unit)
    <3> HIDE DEF t
    <3> QED
      BY <2>1, <2>3, AddDaysMonotone
  <2> QED
    BY <2>2, <2>4, <2>5, NoDateAssumption DEF now, new
<1>6. CASE spec.type = "derived"
  <2>1. /\ spec.amount \in Nat
        /\ DueDateOf(firstAt, spec, now) = Combine(spec, now)
        /\ DueDateOf(then, spec, new) = Combine(spec, new)
    BY <1>6 DEF DueDateOf, ValidDeadline
  <2>2. now # {}
    BY <2>1 DEF Combine, now
  <2>3. new # {}
    BY <1>2, <2>2
  <2>4. Min(new) \in Nat /\ Max(new) \in Nat
    BY <1>1, <2>3, Extremes
  <2>5. Combine(spec, new) # NoDate
    BY <2>1, <2>3, <2>4, AddDaysMonotone, NoDateAssumption DEF Combine
  <2>6. ASSUME spec.combinator # "latest",
               \A a \in Range(AnchorsOf(spec)) \cap Rule : due[a] # NoDate => earlier[a] <= due[a]
        PROVE  Combine(spec, new) <= Combine(spec, now)
    <3>1. spec.combinator = "earliest"
      BY <1>6, <2>6 DEF ValidDeadline
    <3>2. Min(now) \in now
      BY <1>1, <2>2, Extremes
    <3>3. PICK d \in new : d <= Min(now)
      BY <1>2, <2>6, <3>2
    <3>4. Min(new) <= Min(now) /\ Min(now) \in Nat
      <4>1. Min(new) <= d /\ d \in Nat /\ Min(now) \in Nat
        BY <1>1, <2>3, <3>2, Extremes
      <4> QED
        BY <2>4, <3>3, <4>1
    <3> QED
      BY <2>1, <2>2, <2>3, <2>4, <3>1, <3>4, AddDaysMonotone DEF Combine
  <2> QED
    BY <1>6, <2>1, <2>5, <2>6 DEF now, new
<1> QED
  BY <1>3, <1>4, <1>5, <1>6 DEF ValidDeadline

\* Which obligations hang on a "latest".
HangsOn(c, hangs, id) ==
  \/ DeadlinesIn(c)[id].type = "derived" /\ DeadlinesIn(c)[id].combinator = "latest"
  \/ \E a \in AnchorsIn(c)[id] \cap Rule : hangs[a]

LEMMA HangingSolves ==
  ASSUME compiled \in Compilations, NEW id \in Rule
  PROVE  HangsOnLatest[id] <=> HangsOn(compiled, HangsOnLatest, id)
<1> DEFINE IsSolution(f) == f = [x \in Rule |-> HangsOn(compiled, f, x)]
           step == [p \in Rule \X [Rule -> BOOLEAN] |-> HangsOn(compiled, p[2], p[1])]
<1>1. Respects(Rule, BOOLEAN, AnchorsIn(compiled), step)
  <2>1. step \in [Rule \X [Rule -> BOOLEAN] -> BOOLEAN]
    BY DEF HangsOn
  <2>2. ASSUME NEW x \in Rule, NEW f \in [Rule -> BOOLEAN], NEW g \in [Rule -> BOOLEAN],
               \A y \in AnchorsIn(compiled)[x] \cap Rule : f[y] = g[y]
        PROVE  step[<<x, f>>] = step[<<x, g>>]
    <3>1. HangsOn(compiled, f, x) <=> HangsOn(compiled, g, x)
      BY <2>2 DEF HangsOn
    <3>2. HangsOn(compiled, f, x) \in BOOLEAN /\ HangsOn(compiled, g, x) \in BOOLEAN
      BY DEF HangsOn
    <3>3. HangsOn(compiled, f, x) = HangsOn(compiled, g, x)
      BY <3>1, <3>2
    <3>4. step[<<x, f>>] = HangsOn(compiled, f, x) /\ step[<<x, g>>] = HangsOn(compiled, g, x)
      OBVIOUS
    <3> QED
      BY <3>3, <3>4
  <2> HIDE DEF step
  <2> QED
    BY <2>1, <2>2 DEF Respects
<1>2. PICK f \in [Rule -> BOOLEAN] : \A x \in Rule : f[x] = step[<<x, f>>]
  <2>1. BOOLEAN # {}
    OBVIOUS
  <2> HIDE DEF step
  <2> QED
    BY <1>1, <2>1, AnchorsAreGrounded, SolutionExists
<1>3. IsSolution(f)
  <2>1. \A x \in Rule : f[x] = HangsOn(compiled, f, x)
    BY <1>2
  <2> QED
    BY <2>1
<1>4. HangsOnLatest = CHOOSE g : IsSolution(g)
  BY DEF HangsOnLatest, HangsOn, DeadlinesIn, AnchorsIn
<1>5. IsSolution(HangsOnLatest)
  <2> HIDE DEF IsSolution
  <2> QED
    BY <1>3, <1>4
<1>6. HangsOnLatest[id] = HangsOn(compiled, HangsOnLatest, id)
  <2> DEFINE h == HangsOnLatest
  <2>1. h = [x \in Rule |-> HangsOn(compiled, h, x)]
    BY <1>5
  <2> HIDE DEF h
  <2>2. h[id] = HangsOn(compiled, h, id)
    BY <2>1
  <2> QED
    BY <2>2 DEF h
<1> QED
  BY <1>6

\* Earlier events leave no due date unknown that was known, and move none later
\* that hangs on no "latest".
LEMMA DueDatesEarlier ==
  ASSUME compiled \in Compilations,
         NEW firstAt \in [EventType -> Date], NEW then \in [EventType -> Date],
         Earlier(firstAt, then)
  PROVE  LET due == DueDates(firstAt, DeadlinesIn(compiled))
             earlier == DueDates(then, DeadlinesIn(compiled))
         IN \A id \in Rule : due[id] # NoDate =>
              earlier[id] # NoDate /\ (~HangsOnLatest[id] => earlier[id] <= due[id])
<1> DEFINE due == DueDates(firstAt, DeadlinesIn(compiled))
           earlier == DueDates(then, DeadlinesIn(compiled))
           spec(id) == DeadlinesIn(compiled)[id]
           Good(id) == due[id] # NoDate =>
                         earlier[id] # NoDate /\ (~HangsOnLatest[id] => earlier[id] <= due[id])
           U == {id \in Rule : ~Good(id)}
<1>1. /\ due \in [Rule -> Date] /\ earlier \in [Rule -> Date]
      /\ \A id \in Rule :
           /\ due[id] = DueDateOf(firstAt, spec(id), AnchorDates(firstAt, spec(id), due))
           /\ earlier[id] = DueDateOf(then, spec(id), AnchorDates(then, spec(id), earlier))
  BY DueDatesSolve
<1>2. \A id \in Rule : /\ ValidDeadline(spec(id), Rule)
                       /\ AnchorsIn(compiled)[id] = Range(AnchorsOf(spec(id)))
  BY DeadlinesAreValid DEF DeadlinesIn, AnchorsIn
<1>3. \A id \in Rule : HangsOnLatest[id] <=> HangsOn(compiled, HangsOnLatest, id)
  BY HangingSolves
<1> HIDE DEF due, earlier
<1>4. SUFFICES ASSUME U # {}
               PROVE  FALSE
  BY DEF due, earlier
<1>5. PICK id \in U : AnchorsIn(compiled)[id] \cap U = {}
  <2>1. U \in (SUBSET Rule) \ {{}}
    BY <1>4
  <2> HIDE DEF U
  <2> QED
    BY <2>1, AnchorsAreGrounded DEF IsGrounded
<1>6. id \in Rule /\ due[id] # NoDate
  BY <1>5
<1>7. \A a \in Range(AnchorsOf(spec(id))) \cap Rule : Good(a)
  BY <1>2, <1>5, <1>6
<1>8. ValidDeadline(spec(id), Rule)
      /\ due[id] = DueDateOf(firstAt, spec(id), AnchorDates(firstAt, spec(id), due))
      /\ earlier[id] = DueDateOf(then, spec(id), AnchorDates(then, spec(id), earlier))
  BY <1>1, <1>2, <1>6
<1>9. /\ earlier[id] # NoDate
      /\ (/\ spec(id).type = "derived" => spec(id).combinator # "latest"
          /\ \A a \in Range(AnchorsOf(spec(id))) \cap Rule : due[a] # NoDate => earlier[a] <= due[a])
         => earlier[id] <= due[id]
  <2> HIDE DEF spec
  <2>1. \A a \in Range(AnchorsOf(spec(id))) \cap Rule : due[a] # NoDate => earlier[a] # NoDate
    BY <1>7
  <2> QED
    BY <1>1, <1>6, <1>8, <2>1, DueDateEarlier
<1>10. ASSUME ~HangsOnLatest[id]
       PROVE  earlier[id] <= due[id]
  <2>1. ~HangsOn(compiled, HangsOnLatest, id)
    BY <1>3, <1>6, <1>10
  <2>2. /\ spec(id).type = "derived" => spec(id).combinator # "latest"
        /\ \A a \in Range(AnchorsOf(spec(id))) \cap Rule : ~HangsOnLatest[a]
    BY <1>2, <1>6, <2>1 DEF HangsOn
  <2> QED
    BY <1>7, <1>9, <2>2
<1> QED
  BY <1>5, <1>9, <1>10

-----------------------------------------------------------------------------
(* The case goes on *)

IInv == /\ compiled \in Compilations
        /\ log \in Seq(Event)
        /\ evaluationAt \in Clock

LEMMA EventsAreDated == IsDated(Event) /\ \A e \in Event : e.type \in EventType
BY TwinAssumption DEF IsDated

LEMMA SpecIInv == Spec => []IInv
<1>1. Init => IInv
  BY DEF Init, IInv
<1>2. IInv /\ [Next]_vars => IInv'
  BY DEF IInv, Next, Record, Evaluate, vars
<1> QED
  BY <1>1, <1>2, PTL DEF Spec

LEMMA FirstTimesAreDates ==
  ASSUME NEW l \in Seq(Event)
  PROVE  FirstTimes(l) \in [EventType -> Date]
BY EventsAreDated, NothingIsNoDate DEF FirstTimes, Date

LEMMA DueAtIsDue ==
  ASSUME NEW c, NEW l
  PROVE  DueAt(Procedure(c), l) = DueDates(FirstTimes(l), DeadlinesIn(c))
BY DEF DueAt, DeadlinesIn

\* What a step of the case does: it records one event at most, and time only
\* moves on.
LEMMA CaseStep ==
  ASSUME IInv, [Next]_vars
  PROVE  /\ compiled' = compiled
         /\ log' \in Seq(Event)
         /\ log' = log \/ \E e \in Event : log' = Append(log, e)
         /\ evaluationAt \in Nat /\ evaluationAt' \in Nat /\ evaluationAt <= evaluationAt'
<1>1. evaluationAt \in Nat /\ \A t \in Clock : t \in Nat
  BY TwinAssumption DEF IInv
<1> QED
  BY <1>1 DEF IInv, Next, Record, Evaluate, vars

LEMMA RecordedIsEarlier ==
  ASSUME NEW l \in Seq(Event), NEW e \in Event
  PROVE  Earlier(FirstTimes(l), FirstTimes(Append(l, e)))
<1>1. \A t : FirstAt(Append(l, e), t) = IF e.type = t /\ (FirstAt(l, t) = NoDate \/ e.at < FirstAt(l, t))
                                        THEN e.at ELSE FirstAt(l, t)
  BY EventsAreDated, FirstAtAfterAppend
<1>2. e.at \in Nat /\ \A t : FirstAt(l, t) \in Nat \cup {NoDate}
  BY EventsAreDated, NothingIsNoDate DEF IsDated
<1> QED
  BY <1>1, <1>2, NoDateAssumption DEF Earlier, FirstTimes

LEMMA StepsAreEarlier ==
  ASSUME IInv, [Next]_vars
  PROVE  Earlier(FirstTimes(log), FirstTimes(log'))
<1>1. CASE log' = log
  BY <1>1, FirstTimesAreDates DEF IInv, Earlier, Date
<1>2. CASE \E e \in Event : log' = Append(log, e)
  BY <1>2, RecordedIsEarlier DEF IInv
<1> QED
  BY <1>1, <1>2, CaseStep

LEMMA DueDatesAdvance ==
  ASSUME IInv, [Next]_vars, NEW id \in Rule, DueAt(Procedure(compiled), log)[id] # NoDate
  PROVE  /\ DueAt(Procedure(compiled), log)[id] \in Nat
         /\ DueAt(Procedure(compiled), log')[id] \in Nat
         /\ ~HangsOnLatest[id]
            => DueAt(Procedure(compiled), log')[id] <= DueAt(Procedure(compiled), log)[id]
<1>1. /\ FirstTimes(log) \in [EventType -> Date] /\ FirstTimes(log') \in [EventType -> Date]
      /\ compiled \in Compilations
  BY CaseStep, FirstTimesAreDates DEF IInv
<1>2. /\ DueAt(Procedure(compiled), log) \in [Rule -> Date]
      /\ DueAt(Procedure(compiled), log') \in [Rule -> Date]
  BY <1>1, DueAtIsDue, DueDatesSolve
<1>3. /\ DueAt(Procedure(compiled), log')[id] # NoDate
      /\ ~HangsOnLatest[id]
         => DueAt(Procedure(compiled), log')[id] <= DueAt(Procedure(compiled), log)[id]
  BY <1>1, DueAtIsDue, DueDatesEarlier, StepsAreEarlier
<1> QED
  BY <1>2, <1>3 DEF Date

LEMMA ObligationsAreRules ==
  ASSUME NEW c \in Compilations
  PROVE  Ids(Bound(Procedure(c))) \subseteq Rule
BY TwinAssumption DEF Ids, Bound, Procedure, BuildProcedureModel, Obligations, OfKind

\* No fact recorded later, back-dated or not, moves a known due date later or
\* makes it unknown, unless it hangs on the latest of several anchors
\* (caseTwin.ts, computeDueDateUncached; DueDatesNeverSlip).
THEOREM DueDatesOnlyMoveUp == Spec => DueDatesNeverSlip
<1>1. ASSUME IInv, [Next]_vars, NEW id \in Anchored, DueAt(Procedure(compiled), log)[id] # NoDate
      PROVE  /\ DueAt(Procedure(compiled), log')[id] # NoDate
             /\ DueAt(Procedure(compiled), log')[id] <= DueAt(Procedure(compiled), log)[id]
  <2>1. id \in Rule /\ ~HangsOnLatest[id]
    BY <1>1, ObligationsAreRules DEF Anchored, IInv
  <2> QED
    BY <1>1, <2>1, DueDatesAdvance, NoDateAssumption
<1>2. IInv /\ [Next]_vars =>
        [\A p \in {Procedure(compiled)} :
           \A now \in {DueAt(p, log)}, then \in {DueAt(p, log')} :
             \A id \in Anchored :
               now[id] # NoDate => then[id] # NoDate /\ then[id] <= now[id]]_vars
  BY <1>1
<1> QED
  BY <1>2, SpecIInv, PTL DEF Spec, DueDatesNeverSlip

\* A completion that is on record stays on record.
LEMMA CompletionsStay ==
  ASSUME IInv, [Next]_vars, NEW p, NEW id, Completed(p, log, id)
  PROVE  Completed(p, log', id)
<1> DEFINE party == IF id \in Ids(p.studentObligations) THEN "student_action_taken"
                                                        ELSE "institution_action_taken"
<1>1. PICK i \in OfType(log, party) : log[i].about = id
  BY DEF Completed
<1>2. CASE log' = log
  BY <1>2 DEF Completed
<1>3. CASE \E e \in Event : log' = Append(log, e)
  <2>1. PICK e \in Event : log' = Append(log, e)
    BY <1>3
  <2>2. i \in DOMAIN log
    BY <1>1 DEF OfType
  <2>3. i \in OfType(log', party) /\ log'[i] = log[i]
    BY <1>1, <2>1, <2>2, EventsAreDated, AppendedTypes DEF IInv
  <2> QED
    BY <1>1, <2>3 DEF Completed
<1> QED
  BY <1>2, <1>3, CaseStep

\* As facts are recorded and time passes, a known due date stays known, what is
\* met stays met, and what is missed is missed for good unless its completion is
\* recorded (caseTwin.ts, computeObligationState; StatusAdvances).
THEOREM StatusesAdvance == Spec => StatusAdvances
<1> DEFINE Advances(p, now, then) ==
      \A id \in DOMAIN now.status :
        /\ now.status[id] = "met" => then.status[id] = "met"
        /\ now.status[id] \in {"pending", "missed"} => then.status[id] # "unknown"
        /\ (now.status[id] = "missed" /\ id \in Anchored) => then.status[id] \in {"missed", "met"}
<1>1. ASSUME IInv, [Next]_vars
      PROVE  Advances(Procedure(compiled), CaseState(Procedure(compiled), log, evaluationAt),
                      CaseState(Procedure(compiled), log', evaluationAt'))
  <2> DEFINE p == Procedure(compiled)
             due == DueAt(p, log)
             due2 == DueAt(p, log')
  <2>1. SUFFICES ASSUME NEW id \in Ids(Bound(p))
                 PROVE  LET now == Status(p, log, evaluationAt, id, due[id])
                            then == Status(p, log', evaluationAt', id, due2[id])
                        IN /\ now = "met" => then = "met"
                           /\ now \in {"pending", "missed"} => then # "unknown"
                           /\ (now = "missed" /\ id \in Anchored) => then \in {"missed", "met"}
    BY DEF CaseState
  <2>2. id \in Rule /\ (id \in Anchored => ~HangsOnLatest[id])
    BY <1>1, ObligationsAreRules DEF IInv, Anchored
  <2>3. due[id] # NoDate => /\ due[id] \in Nat /\ due2[id] \in Nat
                            /\ ~HangsOnLatest[id] => due2[id] <= due[id]
    BY <1>1, <2>2, DueDatesAdvance
  <2>4. Completed(p, log, id) => Completed(p, log', id)
    BY <1>1, CompletionsStay
  <2>5. evaluationAt \in Nat /\ evaluationAt' \in Nat /\ evaluationAt <= evaluationAt'
    BY <1>1, CaseStep
  <2>6. due2[id] \in Nat => due2[id] # NoDate
    BY NoDateAssumption
  <2> HIDE DEF due, due2, p
  <2> QED
    BY <2>2, <2>3, <2>4, <2>5, <2>6 DEF Status
<1>2. IInv /\ [Next]_vars =>
        [\A p \in {Procedure(compiled)} :
           \A now \in {CaseState(p, log, evaluationAt)}, then \in {CaseState(p, log', evaluationAt')} :
             Advances(p, now, then)]_vars
  BY <1>1
<1> QED
  BY <1>2, SpecIInv, PTL DEF Spec, StatusAdvances

-----------------------------------------------------------------------------
(* What a case owes to its events, and what to their order *)

\* Two logs of the same events, in which the same ground was asserted first.
SameFacts(l, m) ==
  /\ Range(l) = Range(m)
  /\ OfType(l, "ground_asserted") # {} => l[Asserted(l)] = m[Asserted(m)]

LEMMA TypesInRange ==
  ASSUME NEW l, NEW m, Range(l) = Range(m), NEW t
  PROVE  /\ \A i \in OfType(l, t) : \E j \in OfType(m, t) : m[j] = l[i]
         /\ OfType(l, t) = {} <=> OfType(m, t) = {}
<1>1. \A i \in DOMAIN l : \E j \in DOMAIN m : m[j] = l[i]
  BY DEF Range
<1>2. \A j \in DOMAIN m : \E i \in DOMAIN l : m[j] = l[i]
  BY DEF Range
<1> QED
  BY <1>1, <1>2 DEF OfType

\* When the first event of a type occurred does not depend on the order.
LEMMA FirstAtOfFacts ==
  ASSUME NEW l \in Seq(Event), NEW m \in Seq(Event), Range(l) = Range(m), NEW t
  PROVE  FirstAt(l, t) = FirstAt(m, t)
<1>1. CASE OfType(l, t) = {}
  BY <1>1, TypesInRange DEF FirstAt
<1>2. CASE OfType(l, t) # {}
  <2>0. OfType(m, t) # {}
    BY <1>2, TypesInRange
  <2>1. ASSUME NEW x \in Seq(Event), NEW y \in Seq(Event), Range(x) = Range(y),
               OfType(x, t) # {}, OfType(y, t) # {}
        PROVE  FirstAt(x, t) \in Nat /\ FirstAt(x, t) <= FirstAt(y, t)
    <3>1. IsFirst(x, t, First(x, t)) /\ FirstAt(x, t) = x[First(x, t)].at /\ FirstAt(x, t) \in Nat
      BY <2>1, EventsAreDated, FirstsExist
    <3>2. IsFirst(y, t, First(y, t)) /\ FirstAt(y, t) = y[First(y, t)].at
      BY <2>1, EventsAreDated, FirstsExist
    <3>3. PICK i \in OfType(x, t) : x[i] = y[First(y, t)]
      BY <2>1, <3>2, TypesInRange DEF IsFirst
    <3>4. i = First(x, t) \/ Before(x, First(x, t), i)
      BY <3>1 DEF IsFirst
    <3>5. x[i].at \in Nat
      BY <3>3, EventsAreDated, LogEntries DEF OfType
    <3> QED
      BY <3>1, <3>2, <3>3, <3>4, <3>5 DEF Before
  <2>2. /\ FirstAt(l, t) \in Nat /\ FirstAt(m, t) \in Nat
        /\ FirstAt(l, t) <= FirstAt(m, t) /\ FirstAt(m, t) <= FirstAt(l, t)
    BY <1>2, <2>0, <2>1
  <2> QED
    BY <2>2
<1> QED
  BY <1>1, <1>2

LEMMA SameFactsSameFindings ==
  ASSUME NEW l \in Seq(Event), NEW m \in Seq(Event), Range(l) = Range(m)
  PROVE  /\ \A c \in Compilations : Findings(c, l) = Findings(c, m)
         /\ \A p, t, id, due : Status(p, l, t, id, due) = Status(p, m, t, id, due)
         /\ \A p : DueAt(p, l) = DueAt(p, m)
         /\ \A c, state : Deviations(c, l, state) = Deviations(c, m, state)
<1>1. \A t : FirstAt(l, t) = FirstAt(m, t)
  BY FirstAtOfFacts
<1>2. ASSUME NEW c \in Compilations
      PROVE  Findings(c, l) = Findings(c, m)
  <2>1. ASSUME NEW r \in c.constraints
        PROVE  Finding(r, l) = Finding(r, m)
    <3>1. r.kind \in Kinds
      BY TwinAssumption DEF Kinds
    <3> QED
      BY <1>1, <3>1, FindingOfTimes
  <2> QED
    BY <2>1 DEF Findings
<1>3. ASSUME NEW p, NEW id
      PROVE  Completed(p, l, id) <=> Completed(p, m, id)
  BY TypesInRange DEF Completed
<1>4. \A p, t, id, due : Status(p, l, t, id, due) = Status(p, m, t, id, due)
  BY <1>3 DEF Status
<1>5. \A p : DueAt(p, l) = DueAt(p, m)
  BY <1>1 DEF DueAt, FirstTimes
<1>6. ASSUME NEW p
      PROVE  MissingEvidence(p, l) = MissingEvidence(p, m)
  <2>1. \A g : (\A i \in OfType(l, "evidence_provided") : l[i].about # g.action)
               <=> (\A i \in OfType(m, "evidence_provided") : m[i].about # g.action)
    BY TypesInRange
  <2> QED
    BY <2>1 DEF MissingEvidence
<1>7. \A c, state : Deviations(c, l, state) = Deviations(c, m, state)
  BY <1>6 DEF Deviations
<1> QED
  BY <1>2, <1>4, <1>5, <1>7

\* The engines' answers depend on a log through its facts.
LEMMA SameFactsSameCase ==
  ASSUME NEW l \in Seq(Event), NEW m \in Seq(Event), SameFacts(l, m)
  PROVE  \A p, t : CaseState(p, l, t) = CaseState(p, m, t)
<1>1. Range(l) = Range(m)
  BY DEF SameFacts
<1>2. OfType(l, "ground_asserted") = {} <=> OfType(m, "ground_asserted") = {}
  BY <1>1, TypesInRange
<1>3. \A p : Eligibility(p, l) = Eligibility(p, m)
  BY <1>2 DEF Eligibility, SameFacts
<1>4. \A p, t, id, due : Status(p, l, t, id, due) = Status(p, m, t, id, due)
  BY <1>1, SameFactsSameFindings
<1>5. \A p : DueAt(p, l) = DueAt(p, m)
  BY <1>1, SameFactsSameFindings
<1> QED
  BY <1>3, <1>4, <1>5 DEF CaseState

-----------------------------------------------------------------------------
(* Sorting a log *)

Predecessors(l, i) == {j \in DOMAIN l : Before(l, j, i)}
Rank(l, i) == Cardinality(Predecessors(l, i))

LEMMA RankOrders ==
  ASSUME NEW l \in Seq(Event), NEW i \in DOMAIN l
  PROVE  /\ Rank(l, i) \in Nat /\ Rank(l, i) + 1 \in DOMAIN l
         /\ \A j \in DOMAIN l : /\ Before(l, i, j) => Rank(l, i) < Rank(l, j)
                                /\ i = j \/ Before(l, i, j) \/ Before(l, j, i)
<1>1. /\ Len(l) \in Nat /\ DOMAIN l = 1..Len(l)
      /\ \A j \in DOMAIN l : j \in Nat /\ l[j].at \in Nat
  BY EventsAreDated, LogEntries
<1>2. IsFiniteSet(DOMAIN l) /\ Cardinality(DOMAIN l) = Len(l)
  <2>1. \A a, b \in Int : a <= b => Cardinality(a..b) = b - a + 1
    BY FS_Interval
  <2>2. Len(l) >= 1
    BY <1>1
  <2> QED
    BY <1>1, <2>1, <2>2, FS_Interval
<1>3. ASSUME NEW j \in DOMAIN l
      PROVE  IsFiniteSet(Predecessors(l, j)) /\ Rank(l, j) \in Nat
  <2>1. Predecessors(l, j) \in SUBSET DOMAIN l
    BY DEF Predecessors
  <2> QED
    BY <1>2, <2>1, FS_Subset, FS_CardinalityType DEF Rank
<1>4. i \notin Predecessors(l, i)
  BY <1>1 DEF Predecessors, Before
<1>5. Rank(l, i) < Len(l)
  <2>1. Predecessors(l, i) \in SUBSET DOMAIN l /\ Predecessors(l, i) # DOMAIN l
    BY <1>4 DEF Predecessors
  <2> QED
    BY <1>2, <1>3, <2>1, FS_Subset DEF Rank
<1>6. ASSUME NEW j \in DOMAIN l, Before(l, i, j)
      PROVE  Rank(l, i) < Rank(l, j)
  <2>1. Predecessors(l, i) \subseteq Predecessors(l, j)
    BY <1>1, <1>6 DEF Predecessors, Before
  <2>2. i \in Predecessors(l, j)
    BY <1>6 DEF Predecessors
  <2> QED
    BY <1>3, <1>4, <2>1, <2>2, FS_Subset DEF Rank
<1>7. \A j \in DOMAIN l : i = j \/ Before(l, i, j) \/ Before(l, j, i)
  BY <1>1 DEF Before
<1> QED
  BY <1>1, <1>3, <1>5, <1>6, <1>7

\* all() lists every event once, each before those that occurred later.
LEMMA AllIsSorted ==
  ASSUME NEW l \in Seq(Event)
  PROVE  \E order \in [DOMAIN l -> DOMAIN l] :
           /\ All(l) = [k \in DOMAIN l |-> l[order[k]]]
           /\ \A i \in DOMAIN l : \E k \in DOMAIN l : order[k] = i
           /\ \A j, k \in DOMAIN l : j < k => Before(l, order[j], order[k])
           /\ \A k \in DOMAIN l : Rank(l, order[k]) = k - 1
<1> DEFINE place == [i \in DOMAIN l |-> Rank(l, i) + 1]
           order == [k \in DOMAIN l |-> CHOOSE i \in DOMAIN l : Rank(l, i) = k - 1]
<1>1. /\ Len(l) \in Nat /\ DOMAIN l = 1..Len(l)
      /\ \A j \in DOMAIN l : j \in Nat /\ l[j].at \in Nat
  BY EventsAreDated, LogEntries
<1>2. \A i, j \in DOMAIN l : /\ Rank(l, i) \in Nat /\ Rank(l, i) + 1 \in DOMAIN l
                             /\ Before(l, i, j) => Rank(l, i) < Rank(l, j)
                             /\ i = j \/ Before(l, i, j) \/ Before(l, j, i)
  BY RankOrders
<1>3. \A i, j \in DOMAIN l : Rank(l, i) = Rank(l, j) => i = j
  BY <1>2
<1>4. place \in Injection(DOMAIN l, DOMAIN l)
  BY <1>2, <1>3 DEF Injection, IsInjective
<1>5. place \in Surjection(DOMAIN l, DOMAIN l)
  <2> HIDE DEF place
  <2> QED
    BY <1>1, <1>4, FS_Interval, FS_Injection
<1>6. \A k \in DOMAIN l : \E i \in DOMAIN l : Rank(l, i) = k - 1
  <2> SUFFICES ASSUME NEW k \in DOMAIN l
               PROVE  \E i \in DOMAIN l : Rank(l, i) = k - 1
    OBVIOUS
  <2>1. PICK i \in DOMAIN l : place[i] = k
    <3> HIDE DEF place
    <3> QED
      BY <1>5 DEF Surjection
  <2>2. Rank(l, i) + 1 = k /\ Rank(l, i) \in Nat /\ k \in Nat
    BY <1>1, <1>2, <2>1
  <2> QED
    BY <2>2
<1>7. order \in [DOMAIN l -> DOMAIN l] /\ \A k \in DOMAIN l : Rank(l, order[k]) = k - 1
  BY <1>6
<1>8. All(l) = [k \in DOMAIN l |-> l[order[k]]]
  <2> DEFINE f == [k \in DOMAIN l |-> l[order[k]]]
  <2>1. All(l) = SubSeq(f, 1, Len(l))
    BY DEF All, Rank, Predecessors
  <2>2. f \in [1..Len(l) -> Event]
    BY <1>1, <1>7
  <2> HIDE DEF f
  <2>3. f \in Seq(Event) /\ Len(f) = Len(l)
    BY <1>1, <2>2
  <2>4. SubSeq(f, 1, Len(f)) = f
    BY <2>3, SubSeqFull
  <2>5. All(l) = f
    BY <2>1, <2>3, <2>4
  <2> QED
    BY <2>5 DEF f
<1> HIDE DEF order
<1>9. \A i \in DOMAIN l : \E k \in DOMAIN l : order[k] = i
  <2>1. \A i \in DOMAIN l : Rank(l, order[Rank(l, i) + 1]) = Rank(l, i)
    BY <1>2, <1>7
  <2> QED
    BY <1>2, <1>3, <1>7, <2>1
<1>10. \A j, k \in DOMAIN l : j < k => Before(l, order[j], order[k])
  <2> SUFFICES ASSUME NEW j \in DOMAIN l, NEW k \in DOMAIN l, j < k
               PROVE  Before(l, order[j], order[k])
    OBVIOUS
  <2>1. Rank(l, order[j]) = j - 1 /\ Rank(l, order[k]) = k - 1 /\ j \in Nat /\ k \in Nat
    BY <1>1, <1>7
  <2>2. ~(Rank(l, order[k]) < Rank(l, order[j])) /\ order[j] # order[k]
    BY <2>1
  <2> QED
    BY <1>2, <1>7, <2>2
<1> QED
  BY <1>7, <1>8, <1>9, <1>10

\* Sorting a log changes none of its facts.
LEMMA AllHasTheFacts ==
  ASSUME NEW l \in Seq(Event)
  PROVE  All(l) \in Seq(Event) /\ Range(All(l)) = Range(l) /\ SameFacts(All(l), l)
<1>1. PICK order \in [DOMAIN l -> DOMAIN l] :
        /\ All(l) = [k \in DOMAIN l |-> l[order[k]]]
        /\ \A i \in DOMAIN l : \E k \in DOMAIN l : order[k] = i
        /\ \A j, k \in DOMAIN l : j < k => Before(l, order[j], order[k])
  BY AllIsSorted
<1>2. /\ Len(l) \in Nat /\ DOMAIN l = 1..Len(l)
      /\ \A j \in DOMAIN l : j \in Nat /\ l[j] \in Event /\ l[j].at \in Nat
  BY EventsAreDated, LogEntries
<1> DEFINE m == All(l)
<1>3. /\ DOMAIN m = DOMAIN l
      /\ \A k \in DOMAIN l : order[k] \in DOMAIN l /\ m[k] = l[order[k]]
  BY <1>1
<1>4. m \in Seq(Event)
  <2>1. m \in [1..Len(l) -> Event]
    BY <1>1, <1>2
  <2> HIDE DEF m
  <2> QED
    BY <1>2, <2>1
<1>5. Range(m) = Range(l)
  BY <1>1, <1>3 DEF Range
<1> HIDE DEF m
<1>6. ASSUME NEW t, OfType(l, t) # {}
      PROVE  m[First(m, t)] = l[First(l, t)]
  <2>1. IsFirst(l, t, First(l, t)) /\ First(l, t) \in DOMAIN l
    BY <1>6, EventsAreDated, FirstsExist
  <2>2. PICK k \in DOMAIN l : order[k] = First(l, t)
    BY <1>1, <2>1
  <2>3. ASSUME NEW j \in OfType(m, t) \ {k}
        PROVE  Before(m, k, j)
    <3>1. j \in DOMAIN l /\ j \in Nat /\ k \in Nat /\ l[order[j]].type = t
      BY <1>2, <1>3, <2>2 DEF OfType
    <3>2. j < k => Before(l, order[j], order[k])
      BY <1>1, <2>2, <3>1
    <3>3. k < j => Before(l, order[k], order[j])
      BY <1>1, <2>2, <3>1
    <3>4. order[j] \in DOMAIN l /\ order[k] \in DOMAIN l
      BY <2>2, <3>1
    <3>5. order[j] # order[k]
      BY <1>2, <2>3, <3>1, <3>2, <3>3, <3>4 DEF Before
    <3>6. Before(l, order[k], order[j])
      BY <2>1, <2>2, <3>1, <3>4, <3>5 DEF IsFirst, OfType
    <3>7. ~(j < k)
      BY <1>2, <3>2, <3>4, <3>6 DEF Before
    <3> QED
      BY <1>2, <1>3, <2>2, <2>3, <3>1, <3>4, <3>6, <3>7 DEF Before
  <2>4. k \in OfType(m, t)
    BY <1>3, <2>1, <2>2 DEF OfType, IsFirst
  <2>5. First(m, t) = k
    BY <1>4, <2>3, <2>4, EventsAreDated, FirstIsUnique DEF IsFirst
  <2> QED
    BY <1>3, <2>2, <2>5
<1>7. OfType(m, "ground_asserted") # {} => OfType(l, "ground_asserted") # {}
  BY <1>5, TypesInRange
<1> QED
  BY <1>4, <1>5, <1>6, <1>7 DEF SameFacts, Asserted, m

-----------------------------------------------------------------------------
(* A forecast, and what became of it *)

\* The forecast that was made, if one was, was made of the log as it then was,
\* which the log continues.
FIInv ==
  /\ IInv
  /\ forecast # NoForecast =>
       /\ forecast.base \in Seq(Event) /\ forecast.baseAt \in Clock
       /\ Len(forecast.base) <= Len(log)
       /\ \A i \in 1..Len(forecast.base) : log[i] = forecast.base[i]
       /\ \E scenario \in Scenario :
            forecast.point = ForecastPoint(compiled, forecast.base, forecast.baseAt, scenario)

LEMMA NextFIInv == FIInv /\ [ForecastNext]_<<vars, forecast>> => FIInv'
<1> SUFFICES ASSUME FIInv, [ForecastNext]_<<vars, forecast>>
             PROVE  FIInv'
  OBVIOUS
<1>1. CASE [Next]_vars /\ UNCHANGED forecast
  <2>1. IInv'
    BY <1>1 DEF FIInv, IInv, Next, Record, Evaluate, vars
  <2>2. compiled' = compiled /\ (log' = log \/ \E e \in Event : log' = Append(log, e))
    BY <1>1, CaseStep DEF FIInv
  <2>3. \A i \in 1..Len(log) : log'[i] = log[i]
    BY <2>2 DEF FIInv, IInv
  <2>4. Len(log) \in Nat /\ Len(log') \in Nat /\ Len(log) <= Len(log')
    BY <2>2 DEF FIInv, IInv
  <2>5. SUFFICES ASSUME forecast # NoForecast
                 PROVE  /\ Len(forecast.base) <= Len(log')
                        /\ \A i \in 1..Len(forecast.base) : log'[i] = forecast.base[i]
    BY <1>1, <2>1, <2>2 DEF FIInv
  <2>6. Len(forecast.base) \in Nat
    BY <2>5 DEF FIInv
  <2> QED
    BY <2>3, <2>4, <2>5, <2>6 DEF FIInv
<1>2. CASE \E scenario \in Scenario : Forecast(scenario)
  <2>1. PICK scenario \in Scenario : Forecast(scenario)
    BY <1>2
  <2>2. /\ forecast'.base = log /\ forecast'.baseAt = evaluationAt
        /\ forecast'.point = ForecastPoint(compiled, log, evaluationAt, scenario)
        /\ log' = log /\ compiled' = compiled /\ evaluationAt' = evaluationAt
    BY <2>1 DEF Forecast, vars
  <2>3. Len(log) \in Nat
    BY DEF FIInv, IInv
  <2> QED
    BY <2>2, <2>3 DEF FIInv, IInv
<1> QED
  BY <1>1, <1>2 DEF ForecastNext, vars

LEMMA SpecFIInv == ForecastSpec => []FIInv
<1>1. ForecastInit => FIInv
  BY DEF ForecastInit, Init, FIInv, IInv
<1> QED
  BY <1>1, NextFIInv, PTL DEF ForecastSpec

\* What a forecast is made of; sorting the log first makes no difference.
LEMMA ForecastMade ==
  ASSUME FIInv, IsEvaluated
  PROVE  LET point == forecast.point
             p == Procedure(compiled)
             simulated == Simulated(forecast.base, point.scenario)
         IN /\ point.scenario \in Scenario /\ Valid(forecast.base, point.scenario)
            /\ point.scenario.hypothetical \in Seq(Event)
            /\ simulated \in Seq(Event)
            /\ Range(simulated) = Range(forecast.base) \cup Range(point.scenario.hypothetical)
            /\ point.state = CaseState(p, simulated, point.scenario.at)
            /\ point.findings = Findings(compiled, simulated)
            /\ point.deviations = Deviations(compiled, simulated, point.state)
            /\ point.changes = Changes(CaseState(p, forecast.base, forecast.baseAt), point.state,
                                       Findings(compiled, forecast.base), point.findings)
            /\ point.outcome = Classify(point.changes, point.state, point.findings)
<1> DEFINE base == forecast.base
           at == forecast.baseAt
           point == forecast.point
           p == Procedure(compiled)
<1>1. /\ forecast # NoForecast /\ base \in Seq(Event) /\ compiled \in Compilations
  BY DEF FIInv, IInv, IsEvaluated
<1>2. PICK scenario \in Scenario : point = ForecastPoint(compiled, base, at, scenario)
  BY <1>1 DEF FIInv
<1>3. Valid(base, scenario)
  BY <1>2 DEF IsEvaluated, ForecastPoint
<1> DEFINE simulated == Simulated(base, scenario)
           before == Standing(compiled, All(base), at)
           after == Standing(compiled, simulated, scenario.at)
<1>4. point = Compared(compiled, simulated, scenario, before, after)
  BY <1>2, <1>3 DEF ForecastPoint, Evaluated
<1>5. /\ point.scenario = scenario /\ point.state = after.state /\ point.findings = after.findings
      /\ point.changes = Changes(before.state, after.state, before.findings, after.findings)
      /\ point.deviations = Deviations(compiled, simulated, after.state)
      /\ point.outcome = Classify(point.changes, after.state, after.findings)
  <2> HIDE DEF before, after, simulated
  <2> QED
    BY <1>4 DEF Compared, Reported
<1>6. after.state = CaseState(p, simulated, scenario.at) /\ after.findings = Findings(compiled, simulated)
  BY DEF Standing
<1>7. before.state = CaseState(p, base, at) /\ before.findings = Findings(compiled, base)
  <2>1. All(base) \in Seq(Event) /\ Range(All(base)) = Range(base) /\ SameFacts(All(base), base)
    BY <1>1, AllHasTheFacts
  <2>2. CaseState(p, All(base), at) = CaseState(p, base, at)
    BY <1>1, <2>1, SameFactsSameCase
  <2>3. Findings(compiled, All(base)) = Findings(compiled, base)
    BY <1>1, <2>1, SameFactsSameFindings
  <2> QED
    BY <2>2, <2>3 DEF Standing
<1>8. scenario.hypothetical \in Seq(Event)
  BY DEF Scenario, SeqOf
<1>9. simulated \in Seq(Event) /\ Range(simulated) = Range(base) \cup Range(scenario.hypothetical)
  <2>1. All(base) \in Seq(Event) /\ Range(All(base)) = Range(base)
    BY <1>1, AllHasTheFacts
  <2> QED
    BY <1>8, <2>1, ConcatProperties, RangeConcatenation DEF Simulated
<1> HIDE DEF before, after
<1> QED
  BY <1>3, <1>5, <1>6, <1>7, <1>8, <1>9

\* If nobody does anything, all that a later instant can bring is that pending
\* obligations are missed (forecastScenario, NO_NEW_EVENTS;
\* NoNewEventsOnlyMisses).
THEOREM NothingNewIsOnlyMissed == ForecastSpec => []NoNewEventsOnlyMisses
<1>1. FIInv => NoNewEventsOnlyMisses
  <2> DEFINE base == forecast.base
             scenario == forecast.point.scenario
             p == Procedure(compiled)
             simulated == Simulated(base, scenario)
             before == CaseState(p, base, forecast.baseAt)
             due == DueAt(p, base)
  <2> SUFFICES ASSUME FIInv, IsEvaluated, scenario.kind = "NO_NEW_EVENTS",
                      scenario.at >= forecast.baseAt, NEW ch \in forecast.point.changes
               PROVE  ch[1] = "obligation_status" /\ ch[3] = "pending" /\ ch[4] = "missed"
    BY DEF NoNewEventsOnlyMisses
  <2>1. /\ scenario \in Scenario /\ Valid(base, scenario)
        /\ forecast.point.state = CaseState(p, simulated, scenario.at)
        /\ forecast.point.findings = Findings(compiled, simulated)
        /\ forecast.point.changes = Changes(before, forecast.point.state,
                                            Findings(compiled, base), forecast.point.findings)
    BY ForecastMade
  <2>2. base \in Seq(Event) /\ compiled \in Compilations /\ forecast.baseAt \in Nat /\ scenario.at \in Nat
    BY <2>1, TwinAssumption DEF FIInv, IInv, IsEvaluated, Scenario
  <2>3. simulated \in Seq(Event) /\ SameFacts(simulated, base) /\ Range(simulated) = Range(base)
    <3>1. All(base) \in Seq(Event) /\ SameFacts(All(base), base) /\ Range(All(base)) = Range(base)
      BY <2>2, AllHasTheFacts
    <3>2. simulated = All(base) \o <<>>
      BY <2>1 DEF Valid, Simulated
    <3> HIDE DEF simulated
    <3>3. simulated = All(base)
      BY <3>1, <3>2, ConcatEmptySeq
    <3> QED
      BY <3>1, <3>3
  <2> DEFINE after == CaseState(p, base, scenario.at)
             finds == Findings(compiled, base)
  <2>4. ch \in Changes(before, after, finds, finds)
    <3>1. CaseState(p, simulated, scenario.at) = after
      BY <2>2, <2>3, SameFactsSameCase
    <3>2. Findings(compiled, simulated) = finds
      BY <2>2, <2>3, SameFactsSameFindings
    <3> QED
      BY <2>1, <3>1, <3>2
  <2>5. /\ before.due = after.due /\ before.eligibility = after.eligibility
        /\ DOMAIN after.status = Ids(Bound(p))
        /\ \A id \in Ids(Bound(p)) :
             /\ before.status[id] = Status(p, base, forecast.baseAt, id, due[id])
             /\ after.status[id] = Status(p, base, scenario.at, id, due[id])
    BY DEF CaseState
  <2> HIDE DEF before, after, finds
  <2>6. \E id \in DOMAIN after.status :
          /\ before.status[id] # after.status[id]
          /\ ch = <<"obligation_status", id, before.status[id], after.status[id]>>
    BY <2>4, <2>5 DEF Changes
  <2>7. PICK id \in Ids(Bound(p)) :
          /\ before.status[id] # after.status[id]
          /\ ch = <<"obligation_status", id, before.status[id], after.status[id]>>
    BY <2>5, <2>6
  <2>8. due[id] \in Nat \cup {NoDate}
    <3>1. due \in [Rule -> Date]
      BY <2>2, FirstTimesAreDates, DueAtIsDue, DueDatesSolve
    <3> HIDE DEF due
    <3> QED
      BY <2>2, <2>7, <3>1, ObligationsAreRules DEF Date
  <2> HIDE DEF due, p, base
  <2>9. before.status[id] = "pending" /\ after.status[id] = "missed"
    BY <2>2, <2>5, <2>7, <2>8 DEF Status
  <2> QED
    BY <2>7, <2>9
<1> QED
  BY <1>1, SpecFIInv, PTL

\* Of two logs without ties the one with the same events has the same facts.
LEMMA NoTiesNoOrder ==
  ASSUME NEW l \in Seq(Event), NEW m \in Seq(Event), Range(l) = Range(m),
         \A i, j \in DOMAIN m : m[i].type = m[j].type /\ m[i].at = m[j].at => i = j
  PROVE  SameFacts(l, m)
<1> DEFINE t == "ground_asserted"
<1>1. SUFFICES ASSUME OfType(l, t) # {}
               PROVE  l[First(l, t)] = m[First(m, t)]
  BY DEF SameFacts, Asserted
<1>2. OfType(m, t) # {}
  BY <1>1, TypesInRange
<1>3. IsFirst(l, t, First(l, t)) /\ FirstAt(l, t) = l[First(l, t)].at
  BY <1>1, EventsAreDated, FirstsExist
<1>4. IsFirst(m, t, First(m, t)) /\ FirstAt(m, t) = m[First(m, t)].at
  BY <1>2, EventsAreDated, FirstsExist
<1>5. PICK j \in OfType(m, t) : m[j] = l[First(l, t)]
  BY <1>3, TypesInRange DEF IsFirst
<1>6. FirstAt(l, t) = FirstAt(m, t)
  BY FirstAtOfFacts
<1>7. m[j].type = t /\ m[First(m, t)].type = t /\ j \in DOMAIN m /\ First(m, t) \in DOMAIN m
  BY <1>4 DEF OfType, IsFirst
<1>8. m[j].at = m[First(m, t)].at
  BY <1>3, <1>4, <1>5, <1>6
<1>9. j = First(m, t)
  BY <1>7, <1>8
<1> QED
  BY <1>5, <1>9

\* When exactly what a scenario supposed is recorded, in whatever order, the case
\* at that instant is the one forecast: the forecast runs the case's own engines
\* (forecast.ts; ForecastComesTrue).
THEOREM ForecastsComeTrue == ForecastSpec => []ForecastComesTrue
<1>1. FIInv => ForecastComesTrue
  <2> DEFINE base == forecast.base
             scenario == forecast.point.scenario
             p == Procedure(compiled)
             simulated == Simulated(base, scenario)
             n == Len(base)
  <2> SUFFICES ASSUME FIInv, IsEvaluated, AsSupposed, NoTies
               PROVE  /\ forecast.point.state = Now
                      /\ forecast.point.findings = Findings(compiled, log)
                      /\ forecast.point.deviations = Deviations(compiled, log, Now)
    BY DEF ForecastComesTrue
  <2>1. /\ simulated \in Seq(Event)
        /\ Range(simulated) = Range(base) \cup Range(scenario.hypothetical)
        /\ forecast.point.state = CaseState(p, simulated, scenario.at)
        /\ forecast.point.findings = Findings(compiled, simulated)
        /\ forecast.point.deviations = Deviations(compiled, simulated, forecast.point.state)
    BY ForecastMade
  <2>2. /\ base \in Seq(Event) /\ log \in Seq(Event) /\ compiled \in Compilations
        /\ n <= Len(log) /\ \A i \in 1..n : log[i] = base[i]
    BY DEF FIInv, IInv, IsEvaluated
  <2>3. evaluationAt = scenario.at /\ Range(SinceForecast) = Range(scenario.hypothetical)
    BY DEF AsSupposed
  <2>4. /\ n \in Nat /\ Len(log) \in Nat /\ DOMAIN log = 1..Len(log) /\ DOMAIN base = 1..n
    BY <2>2
  <2>5. Range(SinceForecast) = {log[i] : i \in (n + 1)..Len(log)}
    <3> DEFINE rest == SubSeq(log, n + 1, Len(log))
               k == Len(log) - n
    <3>1. k \in Nat /\ rest \in Seq(Event) /\ Len(rest) = k /\ \A i \in 1..k : rest[i] = log[n + i]
      <4>1. n + 1 \in Int /\ Len(log) \in Int /\ \A i \in (n + 1)..Len(log) : log[i] \in Event
        BY <2>2, <2>4
      <4> HIDE DEF n
      <4>2. /\ rest \in Seq(Event)
            /\ Len(rest) = IF n + 1 <= Len(log) THEN Len(log) - (n + 1) + 1 ELSE 0
            /\ \A i \in 1..(Len(log) - (n + 1) + 1) : rest[i] = log[(n + 1) + i - 1]
        BY <4>1, SubSeqProperties
      <4> HIDE DEF rest
      <4>3. Len(log) - (n + 1) + 1 = k /\ \A i \in 1..k : (n + 1) + i - 1 = n + i
        BY <2>4
      <4> QED
        <5>1. k \in Nat /\ Len(rest) = k
          <6>1. k \in Nat
            BY <2>2, <2>4
          <6>2. Len(rest) = IF n + 1 <= Len(log) THEN Len(log) - (n + 1) + 1 ELSE 0
            BY <4>2
          <6>3. (IF n + 1 <= Len(log) THEN Len(log) - (n + 1) + 1 ELSE 0) = k
            <7>1. \A a, b \in Nat : a <= b => (IF a + 1 <= b THEN b - (a + 1) + 1 ELSE 0) = b - a
              OBVIOUS
            <7> QED
              BY <2>2, <2>4, <7>1
          <6> QED
            BY <6>1, <6>2, <6>3
        <5>2. ASSUME NEW i \in 1..k
              PROVE  rest[i] = log[n + i]
          <6> HIDE DEF k
          <6> QED
            BY <4>2, <4>3
        <5> QED
          BY <4>2, <5>1, <5>2
    <3>2. Range(rest) = {rest[i] : i \in 1..k}
      <4> HIDE DEF rest
      <4> QED
        BY <3>1, RangeEquality
    <3> HIDE DEF rest
    <3>3. \A i \in (n + 1)..Len(log) : i - n \in 1..k /\ n + (i - n) = i
      <4> HIDE DEF n
      <4> QED
        BY <2>4
    <3>4. \A i \in 1..k : n + i \in (n + 1)..Len(log)
      <4> HIDE DEF n
      <4> QED
        BY <2>4
    <3> HIDE DEF n, k
    <3>5. {rest[i] : i \in 1..k} = {log[i] : i \in (n + 1)..Len(log)}
      BY <3>1, <3>3, <3>4
    <3> QED
      BY <3>2, <3>5 DEF SinceForecast, rest, n
  <2>6. Range(log) = Range(base) \cup Range(SinceForecast)
    <3>1. Range(base) = {log[i] : i \in 1..n}
      <4>1. Range(base) = {base[i] : i \in 1..n}
        BY <2>4 DEF Range
      <4> QED
        BY <2>2, <4>1
    <3> HIDE DEF n
    <3>2. Range(log) = {log[i] : i \in 1..Len(log)}
      BY <2>4 DEF Range
    <3>3. 1..Len(log) = (1..n) \cup ((n + 1)..Len(log))
      BY <2>2, <2>4
    <3> QED
      BY <2>5, <3>1, <3>2, <3>3
  <2>7. Range(simulated) = Range(log)
    BY <2>1, <2>3, <2>6
  <2> HIDE DEF simulated, base, scenario, n
  <2>8. SameFacts(simulated, log)
    BY <2>1, <2>2, <2>7, NoTiesNoOrder DEF NoTies
  <2>9. CaseState(p, simulated, scenario.at) = CaseState(p, log, evaluationAt)
    BY <2>1, <2>2, <2>3, <2>8, SameFactsSameCase
  <2>10. /\ Findings(compiled, simulated) = Findings(compiled, log)
         /\ \A state : Deviations(compiled, simulated, state) = Deviations(compiled, log, state)
    BY <2>1, <2>2, <2>7, SameFactsSameFindings
  <2> QED
    BY <2>1, <2>9, <2>10 DEF Now
<1> QED
  BY <1>1, SpecFIInv, PTL

\* The deviations of a case that say a deadline has passed.
LEMMA MissedDeviations ==
  ASSUME NEW c, NEW l, NEW t, NEW d
  PROVE  LET state == CaseState(Procedure(c), l, t)
         IN d[1] \in {"STUDENT_DEADLINE_EXCEEDED", "INSTITUTION_DEADLINE_EXCEEDED"}
            => (d \in Deviations(c, l, state)
                <=> \E id \in DOMAIN state.status :
                      state.status[id] = "missed" /\ d = <<MissedBy(Procedure(c), id), id>>)
BY DEF Deviations, MissedBy

\* A forecast warns of a new deviation exactly when the simulated case has a
\* missed deadline, or a violated conformance rule, that the case had not
\* (forecast.ts, diff and classify; WarnsOfViolations).
THEOREM WarningsAreComplete == ForecastSpec => []WarnsOfViolations
<1>1. FIInv => WarnsOfViolations
  <2> DEFINE base == forecast.base
             p == Procedure(compiled)
             simulated == Simulated(base, forecast.point.scenario)
             before == CaseState(p, base, forecast.baseAt)
             after == forecast.point.state
             found == Findings(compiled, base)
             finds == forecast.point.findings
             changes == forecast.point.changes
             late == {"STUDENT_DEADLINE_EXCEEDED", "INSTITUTION_DEADLINE_EXCEEDED"}
             NewlyMissed == \E id \in Ids(Bound(p)) :
                              after.status[id] = "missed" /\ before.status[id] # "missed"
             NewlyViolated == \E r \in compiled.constraints :
                                finds[r] = "NONCONFORMANT" /\ found[r] # "NONCONFORMANT"
  <2> SUFFICES ASSUME FIInv, IsEvaluated
               PROVE  forecast.point.outcome = "NEW_DEVIATION_DETECTED"
                      <=> \/ \E d \in forecast.point.deviations \ Deviations(compiled, base, before) : d[1] \in late
                          \/ NewlyViolated
    BY DEF WarnsOfViolations
  <2>1. /\ after = CaseState(p, simulated, forecast.point.scenario.at)
        /\ finds = Findings(compiled, simulated)
        /\ forecast.point.deviations = Deviations(compiled, simulated, after)
        /\ changes = Changes(before, after, found, finds)
        /\ forecast.point.outcome = Classify(changes, after, finds)
    BY ForecastMade
  <2>2. /\ DOMAIN after.status = Ids(Bound(p)) /\ DOMAIN before.status = Ids(Bound(p))
        /\ DOMAIN finds = compiled.constraints
    BY <2>1 DEF CaseState, Findings
  <2>3. (\E ch \in changes : IsViolation(ch)) <=> NewlyMissed \/ NewlyViolated
    <3> HIDE DEF before, after, found, finds, p
    <3>1. ASSUME NEW ch \in changes, IsViolation(ch)
          PROVE  NewlyMissed \/ NewlyViolated
      <4>1. \/ \E id \in DOMAIN after.status :
                  /\ before.status[id] # after.status[id]
                  /\ ch = <<"obligation_status", id, before.status[id], after.status[id]>>
            \/ \E id \in DOMAIN after.due :
                  ch = <<"obligation_due", id, before.due[id], after.due[id]>>
            \/ ch = <<"eligibility", "case", before.eligibility, after.eligibility>>
            \/ \E r \in DOMAIN finds : /\ found[r] # finds[r]
                                       /\ ch = <<"conformance_status", r, found[r], finds[r]>>
        BY <2>1, <3>1 DEF Changes
      <4>2. CASE \E id \in DOMAIN after.status :
                   /\ before.status[id] # after.status[id]
                   /\ ch = <<"obligation_status", id, before.status[id], after.status[id]>>
        BY <2>2, <3>1, <4>2 DEF IsViolation
      <4>3. CASE \E id \in DOMAIN after.due :
                   ch = <<"obligation_due", id, before.due[id], after.due[id]>>
        BY <3>1, <4>3 DEF IsViolation
      <4>4. CASE ch = <<"eligibility", "case", before.eligibility, after.eligibility>>
        BY <3>1, <4>4 DEF IsViolation
      <4>5. CASE \E r \in DOMAIN finds : /\ found[r] # finds[r]
                                        /\ ch = <<"conformance_status", r, found[r], finds[r]>>
        BY <2>2, <3>1, <4>5 DEF IsViolation
      <4> QED
        BY <4>1, <4>2, <4>3, <4>4, <4>5
    <3>2. ASSUME NEW id \in Ids(Bound(p)), after.status[id] = "missed", before.status[id] # "missed"
          PROVE  \E ch \in changes : IsViolation(ch)
      <4> DEFINE ch == <<"obligation_status", id, before.status[id], after.status[id]>>
      <4>1. ch \in changes
        BY <2>1, <2>2, <3>2 DEF Changes
      <4> QED
        BY <3>2, <4>1 DEF IsViolation
    <3>3. ASSUME NEW r \in compiled.constraints, finds[r] = "NONCONFORMANT", found[r] # "NONCONFORMANT"
          PROVE  \E ch \in changes : IsViolation(ch)
      <4> DEFINE ch == <<"conformance_status", r, found[r], finds[r]>>
      <4>1. ch \in changes
        BY <2>1, <2>2, <3>3 DEF Changes
      <4> QED
        BY <3>3, <4>1 DEF IsViolation
    <3> QED
      BY <3>1, <3>2, <3>3
  <2>4. (\E d \in forecast.point.deviations \ Deviations(compiled, base, before) : d[1] \in late)
        <=> NewlyMissed
    <3>1. ASSUME NEW d, d[1] \in late
          PROVE  /\ d \in forecast.point.deviations
                    <=> \E id \in Ids(Bound(p)) : after.status[id] = "missed" /\ d = <<MissedBy(p, id), id>>
                 /\ d \in Deviations(compiled, base, before)
                    <=> \E id \in Ids(Bound(p)) : before.status[id] = "missed" /\ d = <<MissedBy(p, id), id>>
      BY <2>1, <2>2, <3>1, MissedDeviations
    <3>2. ASSUME NEW id
          PROVE  <<MissedBy(p, id), id>>[1] \in late /\ <<MissedBy(p, id), id>>[2] = id
      BY DEF MissedBy
    <3> HIDE DEF before, after, p, base, late
    <3>3. ASSUME NEW d \in forecast.point.deviations \ Deviations(compiled, base, before), d[1] \in late
          PROVE  NewlyMissed
      BY <3>1, <3>3
    <3>4. ASSUME NEW id \in Ids(Bound(p)), after.status[id] = "missed", before.status[id] # "missed"
          PROVE  \E d \in forecast.point.deviations \ Deviations(compiled, base, before) : d[1] \in late
      <4> DEFINE d == <<MissedBy(p, id), id>>
      <4>1. d[1] \in late /\ d[2] = id
        BY <3>2
      <4>2. d \in forecast.point.deviations
        BY <3>1, <3>4, <4>1
      <4>3. \A x \in Ids(Bound(p)) : d = <<MissedBy(p, x), x>> => x = id
        OBVIOUS
      <4>4. d \notin Deviations(compiled, base, before)
        BY <3>1, <3>4, <4>1, <4>3
      <4> QED
        BY <4>1, <4>2, <4>4
    <3> QED
      BY <3>3, <3>4
  <2>5. forecast.point.outcome = "NEW_DEVIATION_DETECTED" <=> \E ch \in changes : IsViolation(ch)
    <3>1. NothingToEvaluate(after, finds) => ~NewlyMissed /\ ~NewlyViolated
      BY <2>2 DEF NothingToEvaluate
    <3> HIDE DEF changes, after, finds, NewlyMissed, NewlyViolated
    <3> QED
      BY <2>1, <2>3, <3>1 DEF Classify
  <2> QED
    BY <2>3, <2>4, <2>5
<1> QED
  BY <1>1, SpecFIInv, PTL
=============================================================================
