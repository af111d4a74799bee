----------------------------- MODULE Conformance -----------------------------
(***************************************************************************)
(* The finding on one conformance rule, recomputed from the event log      *)
(* whenever it is asked for (conformance/conformanceChecker.ts).  The log  *)
(* grows by one event per step, in any order of occurrence, and the        *)
(* finding is followed as it grows.                                        *)
(***************************************************************************)
EXTENDS ConformanceRules, FiniteSets

CONSTANTS EventType,
          Instant,      \* the instants at which events occur
          Rules,        \* validated conformance rules
          MaxEvents     \* bound: events in the log

ASSUME ConformanceAssumption ==
  /\ Instant \subseteq Nat
  /\ MaxEvents \in Nat
  /\ NoType \notin EventType
  /\ \A r \in Rules :
       /\ r.kind \in {"required_event", "required_before", "minimum_lead_time"}
       /\ r.kind = "minimum_lead_time" => r.amount \in Nat \ {0}

VARIABLES rule,   \* the rule being checked
          log     \* the case's event log

vars == <<rule, log>>

CaseEvent == [type : EventType, at : Instant]

Init == /\ rule \in Rules
        /\ log = <<>>
-----------------------------------------------------------------------------
\* append(): an event is recorded, whenever it occurred.
Record(e) == /\ Len(log) < MaxEvents
             /\ log' = Append(log, e)
             /\ UNCHANGED rule

Next == \E e \in CaseEvent : Record(e)

Spec == Init /\ [][Next]_vars
-----------------------------------------------------------------------------
(* Properties *)

\* The event recorded in this step occurred after, or with, all the others.
Chronological == \A i \in DOMAIN log : log[i].at <= log'[Len(log')].at

\* How a finding may move once it is one: a violation may turn out to be
\* excused, and only a required event may be supplied late.
MayBecome(f) ==
  CASE f = "CONFORMANT" -> {"CONFORMANT"}
    [] f = "EXCEPTION_APPLIES" ->
         {"EXCEPTION_APPLIES"} \cup (IF rule.kind = "required_event" THEN {"CONFORMANT"} ELSE {})
    [] f = "NONCONFORMANT" ->
         {"NONCONFORMANT"} \cup (IF rule.exception # NoException THEN {"EXCEPTION_APPLIES"} ELSE {})
                           \cup (IF rule.kind = "required_event" THEN {"CONFORMANT"} ELSE {})
    [] OTHER -> {"UNDETERMINED", "CONFORMANT", "EXCEPTION_APPLIES", "NONCONFORMANT"}

\* Findings are final as long as events are recorded in the order they occur:
\* what was found conformant stays so, and a violation is never taken back for
\* lack of evidence.
FindingsFinal == [][Chronological => Finding(rule, log') \in MayBecome(Finding(rule, log))]_vars

\* The finding does not depend on the order in which several people record the
\* facts of a case: exchanging two neighbouring records never changes it.
Swapped(k) == [log EXCEPT ![k] = log[k + 1], ![k + 1] = log[k]]
OrderIrrelevant == \A k \in 1..(Len(log) - 1) : Finding(rule, Swapped(k)) = Finding(rule, log)

\* A lead time in business days is met exactly when so many business days, the
\* day of the anchor not counted, have begun by the day of the target.
LeadTimeCounted ==
  (rule.kind = "minimum_lead_time" /\ rule.unit = "business_day")
  => LET anchor == FirstAt(log, rule.anchor)  target == FirstAt(log, rule.target)
     IN (anchor # NoDate /\ target # NoDate) =>
          (Constraint(rule, log) = "CONFORMANT"
           <=> rule.amount <= Cardinality({d \in (DateOf(anchor) + 1)..DateOf(target) :
                                             IsBusinessDay(d)}))

\* "Only ever reported as a violation once an observed boundary event makes that
\* conclusion unavoidable" (checkConformance): nothing that happens later may
\* take a violation back, unless it establishes the exception the source grants.
ViolationsUnavoidable ==
  [][(/\ \A i \in DOMAIN log : log[i].at < log'[Len(log')].at
      /\ Finding(rule, log) = "NONCONFORMANT")
       => Finding(rule, log') \in {"NONCONFORMANT", "EXCEPTION_APPLIES"}]_vars
=============================================================================
