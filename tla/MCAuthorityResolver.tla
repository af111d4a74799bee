------------------------ MODULE MCAuthorityResolver ------------------------
(* AuthorityResolver for TLC: campus policy, college page and office FAQ. *)
EXTENDS AuthorityResolver

CONSTANTS campus, college, office

MCScope == [institution |-> "university", unit |-> NoUnit, studentType |-> AnyStudent,
            decisionTypes |-> {"grade_appeal", "late_withdrawal"}, excludes |-> {}]

MCScopes == [s \in Source |->
  IF s = college THEN [MCScope EXCEPT !.unit = "engineering"]
  ELSE IF s = office THEN [MCScope EXCEPT !.excludes = {"late_withdrawal"}]
  ELSE MCScope]

MCQueries ==
  {[institution |-> "university", decisionType |-> "grade_appeal", unit |-> "engineering",
    studentType |-> "graduate"],
   [institution |-> "university", decisionType |-> "late_withdrawal", unit |-> "engineering",
    studentType |-> AnyStudent]}

\* Two orders of appearance.
MCEffective ==
  {[s \in Source |-> CASE s = campus -> 1 [] s = college -> 3 [] s = office -> 5],
   [s \in Source |-> CASE s = campus -> 3 [] s = college -> 5 [] s = office -> 1]}

\* EXTENDS is treated like IMPLEMENTS: one pair of sources is enough for it.
MCLineage == {r \in Relationship : r.type = "EXTENDS" => r.from = college /\ r.to = campus}
=============================================================================
