----------------------------- MODULE Deadlines -----------------------------
(***************************************************************************)
(* The due date a deadline specification implies (computeDueDateUncached,  *)
(* case/caseTwin.ts), given the first occurrence of every type of event    *)
(* and the due dates of the obligations it is anchored on.                 *)
(***************************************************************************)
EXTENDS BusinessDayCalendar, Sequences, FiniteSetsExt, Functions

CONSTANTS Rule,       \* the obligations, by id
          EventType

\* The deadlines ruleValidator accepts, anchored on events and on ids.  It wants
\* the amount of a relative one positive and takes fractions of a day, for which
\* a whole amount stands here: addDays counts a business day begun as one, and
\* of calendar days only the whole ones (half of one is 0).  It leaves the unit
\* open, and addDays counts business days in any unit but calendar days.  The
\* datetime, which it leaves open too, is taken to be an instant, and the type to
\* be one of the declared four: computeDueDateUncached has no answer to others.
ValidDeadline(spec, ids) ==
  /\ spec.type \in {"unspecified", "absolute", "relative", "derived"}
  /\ spec.type = "absolute" => spec.datetime \in Nat
  /\ spec.type = "relative" => spec.fromEvent \in EventType /\ spec.amount \in Nat
  /\ spec.type = "derived" =>
       /\ spec.amount \in Nat
       /\ spec.combinator \in {"earliest", "latest"}
       /\ spec.anchors \in Seq(EventType \cup ids) /\ spec.anchors # <<>>

AnchorsOf(spec) == IF spec.type = "derived" THEN spec.anchors ELSE <<>>

\* The date an anchor contributes: the first occurrence of an event or the due
\* date of an obligation; a dangling reference contributes nothing.
AnchorDateOf(firstAt, a, due) ==
  IF a \in EventType THEN firstAt[a] ELSE IF a \in Rule THEN due[a] ELSE NoDate

\* Mutant: the two combinators are mixed up.
CombineSwapped(spec, dates) ==
  IF dates = {} THEN NoDate
  ELSE AddDays(IF spec.combinator = "latest" THEN Min(dates) ELSE Max(dates),
               spec.amount, spec.unit)

\* A derived deadline, from the anchor dates that could be resolved.
Combine(spec, dates) ==
  IF dates = {} THEN NoDate
  ELSE AddDays(IF spec.combinator = "earliest" THEN Min(dates) ELSE Max(dates),
               spec.amount, spec.unit)

\* Mutant: a relative deadline whose event has not occurred runs from day 0.
DueDateFromDayZero(firstAt, spec, dates) ==
  CASE spec.type = "unspecified" -> NoDate
    [] spec.type = "absolute" -> spec.datetime
    [] spec.type = "relative" ->
         AddDays(IF firstAt[spec.fromEvent] = NoDate THEN 0 ELSE firstAt[spec.fromEvent],
                 spec.amount, spec.unit)
    [] spec.type = "derived" -> Combine(spec, dates)

\* What computeDueDateUncached returns once its anchors, if any, gave `dates`.
DueDateOf(firstAt, spec, dates) ==
  CASE spec.type = "unspecified" -> NoDate
    [] spec.type = "absolute" -> spec.datetime
    [] spec.type = "relative" ->
         IF firstAt[spec.fromEvent] = NoDate THEN NoDate
         ELSE AddDays(firstAt[spec.fromEvent], spec.amount, spec.unit)
    [] spec.type = "derived" -> Combine(spec, dates)

\* resolveDueDate, of every obligation, through the chains of its anchors, where
\* these do not form a circle: the due dates as the deadlines' equations define
\* them.
DueDates(firstAt, deadline) ==
  LET due[id \in Rule] ==
        DueDateOf(firstAt, deadline[id],
                  {AnchorDateOf(firstAt, a, due) : a \in Range(AnchorsOf(deadline[id]))} \ {NoDate})
  IN due
=============================================================================
