-------------------------- MODULE DueDateResolver --------------------------
(***************************************************************************)
(* resolveDueDate and its helpers (case/caseTwin.ts): one computeCaseState *)
(* call resolves the due date of every obligation, following derived       *)
(* deadlines to the obligations they are anchored on, with a memo shared   *)
(* by the whole call and a set of the rules being visited.                 *)
(*                                                                         *)
(* The recursion is a stack of activations, one per computeDueDateUncached *)
(* in progress; a step handles one anchor or ends one activation.  The     *)
(* rules and the first occurrence of every event type are picked once, at  *)
(* the start.                                                              *)
(***************************************************************************)
EXTENDS Deadlines, FiniteSets, Functions

CONSTANTS Order,       \* the order computeCaseState resolves the rules in
          Dangling,    \* references to obligations the procedure does not have
          Deadlines,   \* the deadline specifications rules may have
          Timelines    \* possible first occurrences: [EventType -> instant or NoDate]

ASSUME ResolverAssumption ==
  /\ Order \in Seq(Rule)
  /\ Range(Order) = Rule
  /\ (EventType \cup Dangling) \cap Rule = {}
  /\ \A spec \in Deadlines : ValidDeadline(spec, Rule \cup Dangling)
  /\ Timelines \subseteq [EventType -> Nat \cup {NoDate}]

VARIABLES deadline,   \* deadline[r]: the rule's deadline specification
          firstAt,    \* firstAt[e]: occurredAt of the first event of type e
          next,       \* position in Order of the obligation being resolved
          stack,      \* activations, innermost last: rule, anchor index, dates found
          cache,      \* dueDateCache: due dates by rule
          out         \* the due dates computeCaseState reports, by rule

inputs == <<deadline, firstAt>>
vars == <<deadline, firstAt, next, stack, cache, out>>

Date == Nat \cup {NoDate}

Init == /\ deadline \in [Rule -> Deadlines]
        /\ firstAt \in Timelines
        /\ next = 1
        /\ stack = <<>>
        /\ cache = <<>>
        /\ out = <<>>

\* Map.set
Put(map, key, value) ==
  [k \in DOMAIN map \cup {key} |-> IF k = key THEN value ELSE map[k]]
-----------------------------------------------------------------------------
(* The deadline of a rule, from the inputs of this evaluation *)

Anchors(r) == AnchorsOf(deadline[r])
AnchorDate(a, due) == AnchorDateOf(firstAt, a, due)
DueDate(spec, dates) == DueDateOf(firstAt, spec, dates)
-----------------------------------------------------------------------------
\* Mutant: nothing is remembered of the rules being visited.
VisitingNothing == {}

\* The rules of the activations in progress, `visiting` in the code.
Visiting == {stack[i].rule : i \in DOMAIN stack}
Top == stack[Len(stack)]
TopAnchors == Anchors(Top.rule)
Anchor == TopAnchors[Top.idx]
AtAnchor == stack # <<>> /\ Top.idx <= Len(TopAnchors)

\* Mutant: an anchor without a date is not skipped.
AdvanceUnresolved(a, d) ==
  [rule |-> a.rule, idx |-> a.idx + 1, dates |-> a.dates \cup {d}]

\* Activation a takes date d for its current anchor, or skips the anchor.
Advance(a, d) ==
  [rule |-> a.rule, idx |-> a.idx + 1,
   dates |-> IF d = NoDate THEN a.dates ELSE a.dates \cup {d}]

Found(s, d) == [s EXCEPT ![Len(s)] = Advance(@, d)]

Activation(r) == [rule |-> r, idx |-> 1, dates |-> {}]

\* computeObligationState asks for a due date that is in the memo already.
ReportCached ==
  /\ stack = <<>>
  /\ next <= Len(Order)
  /\ Order[next] \in DOMAIN cache
  /\ out' = Put(out, Order[next], cache[Order[next]])
  /\ next' = next + 1
  /\ UNCHANGED <<inputs, stack, cache>>

\* ... or for one that is not.
Resolve ==
  /\ stack = <<>>
  /\ next <= Len(Order)
  /\ Order[next] \notin DOMAIN cache
  /\ stack' = <<Activation(Order[next])>>
  /\ UNCHANGED <<inputs, next, cache, out>>

\* resolveAnchor: an event, a dangling reference, or an obligation in the memo.
AnchorKnown ==
  /\ AtAnchor
  /\ Anchor \in Rule => Anchor \in DOMAIN cache
  /\ stack' = Found(stack, AnchorDate(Anchor, cache))
  /\ UNCHANGED <<inputs, next, cache, out>>

\* Mutant: a rule that is being visited is waited for.
AnchorCycleWaits ==
  /\ AtAnchor
  /\ Anchor \in Rule
  /\ Anchor \notin DOMAIN cache
  /\ Anchor \in Visiting
  /\ UNCHANGED vars

\* resolveDueDate of a rule that is being visited: no date, and the memo says so.
AnchorCycle ==
  /\ AtAnchor
  /\ Anchor \in Rule
  /\ Anchor \notin DOMAIN cache
  /\ Anchor \in Visiting
  /\ cache' = Put(cache, Anchor, NoDate)
  /\ stack' = Found(stack, NoDate)
  /\ UNCHANGED <<inputs, next, out>>

\* Mutant: the memo doubles as the set of rules being visited.
AnchorResolveMarked ==
  /\ AtAnchor
  /\ Anchor \in Rule
  /\ Anchor \notin DOMAIN cache
  /\ Anchor \notin Visiting
  /\ stack' = Append(stack, Activation(Anchor))
  /\ cache' = Put(cache, Anchor, NoDate)
  /\ UNCHANGED <<inputs, next, out>>

\* resolveDueDate of a rule met for the first time.
AnchorResolve ==
  /\ AtAnchor
  /\ Anchor \in Rule
  /\ Anchor \notin DOMAIN cache
  /\ Anchor \notin Visiting
  /\ stack' = Append(stack, Activation(Anchor))
  /\ UNCHANGED <<inputs, next, cache, out>>

\* Mutant: only the outermost call writes the memo when its anchor is known.
FinishForgets ==
  /\ stack # <<>>
  /\ ~AtAnchor
  /\ LET result == DueDate(deadline[Top.rule], Top.dates)
         outer  == SubSeq(stack, 1, Len(stack) - 1)
     IN /\ cache' = Put(cache, Top.rule, IF outer = <<>> THEN result ELSE NoDate)
        /\ \/ /\ outer = <<>>
              /\ stack' = <<>>
              /\ out' = Put(out, Top.rule, result)
              /\ next' = next + 1
           \/ /\ outer # <<>>
              /\ stack' = Found(outer, result)
              /\ UNCHANGED <<next, out>>
  /\ UNCHANGED inputs

\* computeDueDateUncached ends: the result goes into the memo and to the caller,
\* which is either an enclosing activation or computeObligationState.
Finish ==
  /\ stack # <<>>
  /\ ~AtAnchor
  /\ LET result == DueDate(deadline[Top.rule], Top.dates)
         outer  == SubSeq(stack, 1, Len(stack) - 1)
     IN /\ cache' = Put(cache, Top.rule, result)
        /\ \/ /\ outer = <<>>
              /\ stack' = <<>>
              /\ out' = Put(out, Top.rule, result)
              /\ next' = next + 1
           \/ /\ outer # <<>>
              /\ stack' = Found(outer, result)
              /\ UNCHANGED <<next, out>>
  /\ UNCHANGED inputs

Next == ReportCached \/ Resolve \/ AnchorKnown \/ AnchorCycle \/ AnchorResolve \/ Finish

\* The evaluation is a synchronous call: it runs until it returns.
Spec == Init /\ [][Next]_vars /\ WF_vars(Next)

-----------------------------------------------------------------------------
(* Properties *)

Done == next > Len(Order)

AnchorRules(r) == Range(Anchors(r)) \cap Rule

\* A circular reference: obligations each of which is anchored on one of them.
Circular == {U \in SUBSET Rule : \A r \in U : AnchorRules(r) \cap U # {}}

\* The rules whose anchors, followed as far as they go, meet no circular one.
Settled == Rule \ UNION Circular

\* A fact the rule's own deadline rests on: an absolute date, or an event that
\* occurred.
HasFact(r) == \/ deadline[r].type = "absolute"
              \/ deadline[r].type = "relative" /\ firstAt[deadline[r].fromEvent] # NoDate
              \/ \E e \in Range(Anchors(r)) \cap EventType : firstAt[e] # NoDate
\* Obligations none of which has a fact, in their own deadlines or in those of
\* the obligations these are anchored on.
Baseless == {U \in SUBSET Rule : \A r \in U : ~HasFact(r) /\ AnchorRules(r) \subseteq U}

\* The types of the evaluation's state (resolveDueDate's arguments and memo).
TypeOK ==
  /\ next \in 1..(Len(Order) + 1)
  /\ stack \in Seq([rule : Rule, idx : Nat \ {0}, dates : SUBSET Nat])
  /\ \A i \in DOMAIN stack : stack[i].idx <= Len(Anchors(stack[i].rule)) + 1
  /\ DOMAIN cache \subseteq Rule /\ Range(cache) \subseteq Date
  /\ DOMAIN out \subseteq Rule /\ Range(out) \subseteq Date

\* `visiting` does its work: no rule is computed inside its own computation, so
\* the recursion is never deeper than the number of rules.
VisitingIsAPath ==
  \A i, j \in DOMAIN stack : stack[i].rule = stack[j].rule => i = j

\* The reported due dates are the solution of the deadlines' own equations for
\* every rule that involves no circular reference, whatever the order of the
\* rules and whatever the memo held when each was asked for.
DueDatesSolved ==
  Done => \A r \in Settled :
            out[r] = DueDate(deadline[r],
                             {AnchorDate(a, out) : a \in Range(Anchors(r))} \ {NoDate})

\* Where no reference is circular, the memoised evaluation, which asks for some
\* obligations in the middle of others, reports the due dates the equations
\* define: those the case twin is modelled with.
DueDatesDefined == (Done /\ UNION Circular = {}) => out = DueDates(firstAt, deadline)

\* "Never a guessed date": with or without circular references, a due date is
\* only ever reported where some recorded fact leads to it.
NoGuessedDate == \A r \in DOMAIN out : out[r] # NoDate => r \notin UNION Baseless

\* A business-day deadline ends on a business day, with as many business days
\* after the anchor as the policy grants; the anchor's own day is not counted.
BusinessDaysCounted ==
  \A r \in DOMAIN out :
    (out[r] # NoDate /\ deadline[r].type = "relative"
                    /\ deadline[r].unit = "business_day" /\ deadline[r].amount > 0)
    => LET from == DateOf(firstAt[deadline[r].fromEvent])
           to   == DateOf(out[r])
       IN /\ IsBusinessDay(to)
          /\ Cardinality({d \in (from + 1)..to : IsBusinessDay(d)}) = deadline[r].amount

\* The memo is safe where no circular reference is involved: an entry that one
\* deadline has read is never replaced.
SettledMemoStable ==
  [][\A r \in Settled \cap DOMAIN cache :
       r \in DOMAIN cache' /\ cache'[r] = cache[r]]_vars

\* The contract of a derived deadline (types/policy.ts): it resolves as soon as
\* one of its anchors does, so no rule is reported unknown next to a due date
\* of an obligation it is anchored on.
ResolvesWithOneAnchor ==
  Done => \A r \in Rule :
            (\E a \in AnchorRules(r) : out[a] # NoDate) => out[r] # NoDate

\* "Never an infinite loop": the evaluation ends, on circular references too.
Terminates == <>Done
=============================================================================
