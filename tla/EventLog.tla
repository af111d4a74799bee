------------------------------ MODULE EventLog ------------------------------
(***************************************************************************)
(* CaseEventLog (case/eventLog.ts): the events of a case in the order they *)
(* were recorded, read back in the order they occurred.  An event has a    *)
(* type and the instant at which it occurred (see BusinessDayCalendar for  *)
(* instants); facts may be recorded late, so the two orders differ.        *)
(***************************************************************************)
EXTENDS BusinessDayCalendar, Sequences

\* all(): by time of occurrence; the sort is stable, so events of the same
\* instant stay in the order they were recorded.
Before(log, i, j) == \/ log[i].at < log[j].at
                     \/ log[i].at = log[j].at /\ i < j

\* ofType(): the positions of the events of type t.
OfType(log, t) == {i \in DOMAIN log : log[i].type = t}

\* Mutant: the first event recorded instead of the first that occurred.
FirstRecorded(log, t) == CHOOSE i \in OfType(log, t) : \A j \in OfType(log, t) : i <= j

\* firstOfType(): the position of the first event of type t in all().
First(log, t) ==
  CHOOSE i \in OfType(log, t) : \A j \in OfType(log, t) \ {i} : Before(log, i, j)

FirstAt(log, t) == IF OfType(log, t) = {} THEN NoDate ELSE log[First(log, t)].at
=============================================================================
