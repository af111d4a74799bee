-------------------------- MODULE MCRecourseTrace --------------------------
(* RecourseTrace for TLC: a grievance, the decision on it, an appeal, advice. *)
EXTENDS RecourseTrace

CONSTANTS decide, appeal, reply, advise, proof, valid, invalid, harm, bias, note, claim, lineage

MCEvent ==
  {[type |-> "grievance_filed", at |-> 6, about |-> "case"],
   [type |-> "grievance_filed", at |-> 9, about |-> "case"],
   [type |-> "institution_action_taken", at |-> 9, about |-> decide],
   [type |-> "student_action_taken", at |-> 16, about |-> appeal],
   [type |-> "ground_asserted", at |-> 6, about |-> harm],
   [type |-> "ground_asserted", at |-> 9, about |-> bias],
   [type |-> "waiver_declined", at |-> 9, about |-> "case"]}

MCRule(id, kind, force, actor, action, deadline) ==
  [id |-> id, kind |-> kind, force |-> force, actor |-> actor, action |-> action,
   trigger |-> "grievance_filed", deadline |-> deadline,
   grounds |-> {}, polarity |-> "none", closure |-> "UNKNOWN"]
MCGround(id, ground, polarity, closure) ==
  [MCRule(id, "eligibility_grounds", "MUST", "student", "assert", NoDeadline)
     EXCEPT !.grounds = {ground}, !.polarity = polarity, !.closure = closure]

MCRelative(n, unit) ==
  [type |-> "relative", fromEvent |-> "grievance_filed", amount |-> n, unit |-> unit]
MCDerived(combinator, anchors) ==
  [type |-> "derived", combinator |-> combinator, anchors |-> anchors, amount |-> 1,
   unit |-> "business_day"]
MCAbsolute == [type |-> "absolute", datetime |-> 14]
MCUnspecified == [type |-> "unspecified"]

\* The committee decides; the student appeals; a reply, or what forbids it or
\* dates it otherwise, comes from the committee as well.  All of it is advised.
MCPolicies ==
  {{MCRule(decide, "obligation", "MUST", "committee", "decide", MCRelative(2, "business_day")),
    MCRule(appeal, "obligation", "SHALL", "student", "appeal",
           MCDerived(x[1], <<"institution_action_taken", decide>>)),
    MCRule(reply, "obligation", "MUST", "committee", "decide", x[2])} :
      x \in {"earliest", "latest"} \X
              {MCDerived("earliest", <<appeal>>), MCDerived("latest", <<appeal, decide>>)}
           \cup {<<"earliest", MCAbsolute>>, <<"latest", MCUnspecified>>, <<"latest", NoDeadline>>}}
  \cup {{MCRule(decide, "obligation", "MUST", "committee", "decide", MCDerived("earliest", <<advise, "grievance_filed">>)),
         MCRule(advise, "obligation", "SHOULD", "committee", "decide", MCAbsolute),
         [MCRule(appeal, "obligation", "MUST", "student", "appeal", MCAbsolute) EXCEPT !.trigger = NoTrigger],
         MCRule(reply, "obligation", "MUST_NOT", "committee", "decide", MCDerived("earliest", <<decide, proof>>))}}

MCRest == {MCRule(proof, "evidence_requirement", "MUST", "student", "transcript", NoDeadline),
           MCGround(valid, harm, "valid", "OPEN_EXAMPLES")}

MCConstraints ==
  {[kind |-> "required_before", event |-> "student_action_taken", before |-> "institution_action_taken",
    actor |-> "committee",
    exception |-> [established |-> "ground_asserted", negated |-> "waiver_declined"]],
   [kind |-> "minimum_lead_time", anchor |-> "grievance_filed", target |-> "institution_action_taken",
    amount |-> 2, unit |-> "calendar_day", actor |-> "committee", exception |-> NoException]}

MCCase(rules, constraints, authority) ==
  [rules |-> rules, constraints |-> constraints, refused |-> {claim}, dropped |-> {lineage},
   held |-> {}, ambiguities |-> {note}, authority |-> authority]

\* With every policy, requirements, a gate and an open list of grounds; a case of
\* deadlines only, one of closed lists only, and one that nothing governs.
MCCompilations ==
  {MCCase(rules \cup MCRest, MCConstraints, "APPLICABLE") : rules \in MCPolicies}
  \cup {MCCase(rules, {}, "APPLICABLE") :
           rules \in {x \in MCPolicies : \E r \in x : r.id = advise}}
  \cup {MCCase({MCGround(valid, harm, "valid", "CLOSED"), MCGround(invalid, bias, "invalid", "CLOSED")},
               MCConstraints, "APPLICABLE"),
        MCCase({}, {}, "BLOCKED_SOURCE_CONFLICT")}

MCAsked ==
  {[kind |-> "NO_NEW_EVENTS", at |-> 20, hypothetical |-> <<>>],
   [kind |-> "EXPLICIT_SCENARIO", at |-> 16,
    hypothetical |-> <<[type |-> "institution_action_taken", at |-> 9, about |-> decide]>>]}

MCEventType == {e.type : e \in MCEvent}
MCClock == {6, 14, 20}
=============================================================================
