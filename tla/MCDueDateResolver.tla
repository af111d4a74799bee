------------------------- MODULE MCDueDateResolver -------------------------
(* DueDateResolver for TLC: three obligations and every way to anchor them. *)
EXTENDS DueDateConflicts

CONSTANTS r1, r2, r3, e1, e2

MCOrder == <<r1, r2, r3>>
MCOrderSmall == <<r1, r2>>

MCDerived(combinators, lists) ==
  {[type |-> "derived", combinator |-> c, anchors |-> l, amount |-> 1, unit |-> "calendar_day"] :
     c \in combinators, l \in lists}

\* An obligation with the event e1, or two obligations in either order.
MCAnchorPairs == {<<r, e1>> : r \in Rule} \cup {l \in Rule \X Rule : l[1] # l[2]}

MCDeadlines ==
  {[type |-> "unspecified"],
   [type |-> "absolute", datetime |-> 9],
   [type |-> "relative", fromEvent |-> e1, amount |-> 2, unit |-> "business_day"],
   [type |-> "relative", fromEvent |-> e2, amount |-> 1, unit |-> "calendar_day"]}
  \cup MCDerived({"earliest"}, {<<a>> : a \in Rule \cup Dangling})
  \cup MCDerived({"earliest", "latest"}, MCAnchorPairs)

\* Obligations anchored on one another, with or without the event e1.
MCDeadlinesCircular ==
  MCDerived({"earliest"}, {<<r>> : r \in Rule} \cup {<<r, e1>> : r \in Rule})

\* r1 and r2 bind the same party to the same action; r3 is another party's.
MCTerms == [r \in Rule |->
  [actor |-> IF r = r3 THEN "student" ELSE "committee", action |-> "respond",
   trigger |-> "grievance_filed", force |-> "MUST"]]

\* e1 on a Thursday before a weekend and a closure, or on a Saturday; e2 never.
MCTimelines == {[e \in EventType |-> IF e = e1 THEN t ELSE NoDate] : t \in {7, 11}}
=============================================================================
