--------------------------- MODULE MCCaseForecast ---------------------------
(* CaseForecast for TLC: a grievance, the decision due on it and an appeal. *)
EXTENDS CaseForecast

CONSTANTS decide, appeal, proof, grounds, harm

MCEvent ==
  {[type |-> "grievance_filed", at |-> 6, about |-> "case"],
   [type |-> "grievance_filed", at |-> 4, about |-> "case"],
   [type |-> "institution_action_taken", at |-> 9, about |-> decide],
   [type |-> "ground_asserted", at |-> 6, about |-> harm],
   [type |-> "ground_asserted", at |-> 4, about |-> NoGround],
   [type |-> "evidence_provided", at |-> 16, about |-> "transcript"]}

MCRule(id, kind, actor, deadline) ==
  [id |-> id, kind |-> kind, force |-> "MUST", actor |-> actor, action |-> id,
   trigger |-> "grievance_filed", deadline |-> deadline,
   grounds |-> {harm}, polarity |-> "valid", closure |-> "CLOSED"]

MCDecision ==
  [type |-> "relative", fromEvent |-> "grievance_filed", amount |-> 2, unit |-> "business_day"]
MCFixed == [type |-> "absolute", datetime |-> 14]
MCAppeal == [type |-> "derived", combinator |-> "earliest",
             anchors |-> <<"institution_action_taken", decide>>, amount |-> 1,
             unit |-> "business_day"]

MCPolicy(decision) ==
  {MCRule(decide, "obligation", "committee", decision),
   MCRule(appeal, "obligation", "student", MCAppeal),
   MCRule(grounds, "eligibility_grounds", "student", NoDeadline),
   [MCRule(proof, "evidence_requirement", "student", NoDeadline) EXCEPT !.action = "transcript"]}

MCConstraints ==
  {[kind |-> "required_before", event |-> "grievance_filed", before |-> "institution_action_taken",
    exception |-> NoException],
   [kind |-> "required_event", event |-> "evidence_provided",
    closesUpon |-> "institution_action_taken", exception |-> NoException]}

MCCompilations ==
  {[rules |-> MCPolicy(d), constraints |-> MCConstraints, refused |-> {},
    dropped |-> {}, held |-> {}, ambiguities |-> {}, authority |-> "APPLICABLE"] : d \in {MCDecision, MCFixed}}

MCEventType == {e.type : e \in MCEvent}
MCClock == {6, 14, 20}
=============================================================================
