-------------------------- MODULE ConformanceRules --------------------------
(***************************************************************************)
(* checkConformance (conformance/conformanceChecker.ts): the finding on    *)
(* one validated conformance rule, as a function of the event log.         *)
(***************************************************************************)
EXTENDS EventLog

CONSTANTS NoType,       \* a required event without closesUponEventType
          NoException   \* a rule without an exception

-----------------------------------------------------------------------------
(* checkConstraint *)

RequiredEvent(r, l) ==
  IF FirstAt(l, r.event) # NoDate THEN "CONFORMANT"
  ELSE IF r.closesUpon = NoType \/ FirstAt(l, r.closesUpon) = NoDate THEN "UNDETERMINED"
  ELSE "NONCONFORMANT"

RequiredBefore(r, l) ==
  LET subject == FirstAt(l, r.event)  boundary == FirstAt(l, r.before)
  IN IF boundary = NoDate THEN "UNDETERMINED"
     ELSE IF subject # NoDate /\ subject < boundary THEN "CONFORMANT" ELSE "NONCONFORMANT"

MinimumLeadTime(r, l) ==
  LET anchor == FirstAt(l, r.anchor)  target == FirstAt(l, r.target)
  IN IF anchor = NoDate \/ target = NoDate THEN "UNDETERMINED"
     ELSE IF target >= AddDays(anchor, r.amount, r.unit) THEN "CONFORMANT" ELSE "NONCONFORMANT"

Constraint(r, l) ==
  CASE r.kind = "required_event" -> RequiredEvent(r, l)
    [] r.kind = "required_before" -> RequiredBefore(r, l)
    [] r.kind = "minimum_lead_time" -> MinimumLeadTime(r, l)

\* Mutant: the last word on a waiver is the one that was recorded later.
FindingOfLatest(r, l) ==
  LET base == Constraint(r, l)
      waivedAt == FirstAt(l, r.exception.established)
      declinedAt == FirstAt(l, r.exception.negated)
  IN IF r.exception = NoException \/ base # "NONCONFORMANT" THEN base
     ELSE IF waivedAt # NoDate /\ (declinedAt = NoDate \/ declinedAt < waivedAt) THEN "EXCEPTION_APPLIES"
     ELSE IF declinedAt # NoDate THEN "NONCONFORMANT"
     ELSE "UNDETERMINED"

\* checkConformance: applyException only ever softens a violation.
Finding(r, l) ==
  LET base == Constraint(r, l)
  IN IF r.exception = NoException \/ base # "NONCONFORMANT" THEN base
     ELSE IF FirstAt(l, r.exception.established) # NoDate THEN "EXCEPTION_APPLIES"
     ELSE IF FirstAt(l, r.exception.negated) # NoDate THEN "NONCONFORMANT"
     ELSE "UNDETERMINED"
=============================================================================
