-------------------------- MODULE Conformance_proofs --------------------------
(***************************************************************************)
(* When findings are final, why the order of recording is irrelevant, and  *)
(* what a lead time counts, for any conformance rules, event types,        *)
(* instants and length of the record.                                      *)
(*                                                                         *)
(* The inductive invariant is that the record is a sequence of dated       *)
(* events: EventLog_proofs derives from it that of every recorded type     *)
(* some event is the first, without which firstOfType would not be well    *)
(* defined.                                                                *)
(***************************************************************************)
EXTENDS Conformance, EventLog_proofs

IInv == rule \in Rules /\ log \in Seq(CaseEvent)

LEMMA EventsAreDated == IsDated(CaseEvent)
BY ConformanceAssumption DEF CaseEvent, IsDated

LEMMA SpecIInv == Spec => []IInv
<1>1. Init => IInv
  BY DEF Init, IInv
<1>2. IInv /\ [Next]_vars => IInv'
  BY DEF IInv, Next, Record, vars
<1> QED
  BY <1>1, <1>2, PTL DEF Spec

-----------------------------------------------------------------------------
(* Findings are final *)

\* A finding on a record that grows in the order of occurrence is final: what
\* was conformant stays so, and a violation is not taken back for lack of
\* evidence (checkConformance; FindingsFinal).
THEOREM FindingsAreFinal == Spec => FindingsFinal
<1>1. ASSUME IInv, NEW e \in CaseEvent, Record(e), Chronological
      PROVE  Finding(rule, log') \in MayBecome(Finding(rule, log))
  <2>1. /\ rule \in Rules /\ log \in Seq(CaseEvent)
        /\ log' = Append(log, e) /\ log'[Len(log')] = e
        /\ \A i \in DOMAIN log : log[i].at <= e.at
    BY <1>1 DEF Record, IInv, Chronological
  <2>2. \A t : FirstAt(log, t) # NoDate => FirstAt(log', t) = FirstAt(log, t)
    BY <2>1, EventsAreDated, LateEventsMoveNothing
  <2> DEFINE base == Constraint(rule, log)
             then == Constraint(rule, log')
  <2>3. /\ base \in {"UNDETERMINED", "CONFORMANT", "NONCONFORMANT"}
        /\ then \in {"UNDETERMINED", "CONFORMANT", "NONCONFORMANT"}
        /\ base = "CONFORMANT" => then = "CONFORMANT"
        /\ base = "NONCONFORMANT" =>
             \/ then = "NONCONFORMANT"
             \/ rule.kind = "required_event" /\ then = "CONFORMANT"
    BY <2>1, EventsAreDated, ConformanceAssumption, ConstraintIsFinal DEF Kinds
  <2> HIDE DEF base, then
  <2> QED
    BY <2>2, <2>3 DEF Finding, MayBecome, base, then
<1>2. IInv /\ [Next]_vars => [Chronological => Finding(rule, log') \in MayBecome(Finding(rule, log))]_vars
  BY <1>1 DEF Next
<1> QED
  BY <1>2, SpecIInv, PTL DEF Spec, FindingsFinal

-----------------------------------------------------------------------------
(* The order of recording *)

\* Facts recorded in another order give the same finding (CaseEventLog.all,
\* firstOfType; OrderIrrelevant).
THEOREM RecordingOrderIsIrrelevant == Spec => []OrderIrrelevant
<1>1. IInv => OrderIrrelevant
  <2> SUFFICES ASSUME IInv, NEW k \in 1..(Len(log) - 1)
               PROVE  Finding(rule, Swapped(k)) = Finding(rule, log)
    BY DEF OrderIrrelevant
  <2>1. Swapped(k) = Exchanged(log, k)
    BY DEF Swapped, Exchanged
  <2>2. \A t : FirstAt(Exchanged(log, k), t) = FirstAt(log, t)
    BY EventsAreDated, ExchangeMovesNothing DEF IInv
  <2>3. rule.kind \in Kinds
    BY ConformanceAssumption DEF IInv, Kinds
  <2> QED
    BY <2>1, <2>2, <2>3, FindingOfTimes
<1> QED
  BY <1>1, SpecIInv, PTL

-----------------------------------------------------------------------------
(* Lead times *)

\* A lead time in business days is met exactly when so many business days, the
\* day of the anchor not counted, have begun by the day of the target (addDays,
\* minimum_lead_time; LeadTimeCounted).
THEOREM LeadTimesAreCounted == Spec => []LeadTimeCounted
<1>1. IInv => LeadTimeCounted
  <2> DEFINE anchor == FirstAt(log, rule.anchor)
             target == FirstAt(log, rule.target)
  <2> SUFFICES ASSUME IInv, rule.kind = "minimum_lead_time", rule.unit = "business_day",
                      anchor # NoDate, target # NoDate
               PROVE  Constraint(rule, log) = "CONFORMANT"
                      <=> rule.amount <= Count(DateOf(anchor), DateOf(target))
    BY DEF LeadTimeCounted, Count, BusinessDays
  <2>1. anchor \in Nat /\ target \in Nat
    BY EventsAreDated, NothingIsNoDate DEF IInv
  <2>2. rule.amount \in Nat \ {0}
    BY ConformanceAssumption DEF IInv
  <2>3. Constraint(rule, log) = "CONFORMANT" <=> target >= AddDays(anchor, rule.amount, rule.unit)
    BY DEF Constraint, MinimumLeadTime
  <2> HIDE DEF anchor, target
  <2> DEFINE reached == Reach(DateOf(anchor), rule.amount)
  <2>4. AddDays(anchor, rule.amount, rule.unit) = DateOnly(reached)
    BY <2>1, <2>2, BusinessDaysAdded
  <2>5. DateOf(anchor) \in Nat /\ DateOf(target) \in Nat /\ reached \in Nat
    BY <2>1, <2>2, DatesAreNumbers, ReachExists DEF IsReach
  <2>6. reached <= DateOf(target) <=> rule.amount <= Count(DateOf(anchor), DateOf(target))
    BY <2>2, <2>5, ReachedByCount
  <2> HIDE DEF reached
  <2>7. DateOnly(reached) <= target <=> reached <= DateOf(target)
    BY <2>1, <2>5, DatesAreNumbers
  <2>8. DateOnly(reached) \in Nat
    BY <2>5, DatesAreNumbers
  <2> QED
    BY <2>1, <2>3, <2>4, <2>6, <2>7, <2>8
<1> QED
  BY <1>1, SpecIInv, PTL
=============================================================================
