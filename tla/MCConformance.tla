--------------------------- MODULE MCConformance ---------------------------
(* Conformance for TLC: a hearing, its notice and the waiver of the notice. *)
EXTENDS Conformance, TLC

CONSTANTS notice, hearing, waived, declined

MCWaiver == [established |-> waived, negated |-> declined]

MCConstraints ==
  {[kind |-> "required_event", event |-> notice, closesUpon |-> c] : c \in {NoType, hearing}}
  \cup {[kind |-> "required_before", event |-> notice, before |-> hearing]}
  \cup {[kind |-> "minimum_lead_time", anchor |-> notice, target |-> hearing,
         amount |-> n, unit |-> u] : n \in 1..2, u \in {"business_day", "calendar_day"}}

MCRules == {r @@ [exception |-> x] : r \in MCConstraints, x \in {NoException, MCWaiver}}

\* A Friday, with and without a time of day, the Saturday and the Tuesday after.
MCInstant == {8, 9, 11, 16}
MCInstantSmall == {8, 16}
=============================================================================
