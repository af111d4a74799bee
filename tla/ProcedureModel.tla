--------------------------- MODULE ProcedureModel ---------------------------
(***************************************************************************)
(* The sorting of validated policy rules into a procedure, and the rules   *)
(* that contradict one another (procedure/procedureModel.ts).  Ids are     *)
(* taken to be unique, which the engine does not check; parties, actions   *)
(* and triggers are compared after normalisation, so they are values here. *)
(***************************************************************************)
CONSTANTS NoDeadline   \* a rule without a deadline

BindingForces == {"MUST", "MUST_NOT", "SHALL", "SHALL_NOT"}

OfKind(rules, kind) == {r \in rules : r.kind = kind}
Obligations(rules) == OfKind(rules, "obligation")

\* Mutant: advice addressed to the institution is taken for an obligation.
SortedWithAdvice(rules) ==
  [studentObligations     |-> {r \in Obligations(rules) :
                                 r.actor = "student" /\ r.force \in BindingForces},
   institutionObligations |-> {r \in Obligations(rules) : r.actor # "student"},
   advisoryRules          |-> {r \in Obligations(rules) : r.force \notin BindingForces},
   evidenceGates          |-> OfKind(rules, "evidence_requirement"),
   eligibilityGrounds     |-> OfKind(rules, "eligibility_grounds"),
   escalationPaths        |-> OfKind(rules, "escalation_path"),
   terminalStates         |-> OfKind(rules, "terminal_state")]

\* Obligations bind the student or, whoever else they name, the institution;
\* advice is kept apart.
BuildProcedureModel(rules) ==
  LET binding == {r \in Obligations(rules) : r.force \in BindingForces}
  IN [studentObligations     |-> {r \in binding : r.actor = "student"},
      institutionObligations |-> {r \in binding : r.actor # "student"},
      advisoryRules          |-> Obligations(rules) \ binding,
      evidenceGates          |-> OfKind(rules, "evidence_requirement"),
      eligibilityGrounds     |-> OfKind(rules, "eligibility_grounds"),
      escalationPaths        |-> OfKind(rules, "escalation_path"),
      terminalStates         |-> OfKind(rules, "terminal_state")]

Bound(procedure) == procedure.studentObligations \cup procedure.institutionObligations
-----------------------------------------------------------------------------
SameScope(a, b) == a.actor = b.actor /\ a.action = b.action /\ a.trigger = b.trigger

Requiring == {"MUST", "SHALL"}
Forbidding == {"MUST_NOT", "SHALL_NOT"}

IsIncompatibleForce(a, b) == \/ a.force \in Requiring /\ b.force \in Forbidding
                             \/ b.force \in Requiring /\ a.force \in Forbidding

\* A missing deadline differs from none.  The code compares the two deadlines as
\* JSON.stringify writes them, where one deadline whose keys come in two orders
\* differs from itself: it can report more conflicts than are defined here.
DeadlinesDiffer(a, b) == /\ NoDeadline \notin {a.deadline, b.deadline}
                         /\ a.deadline # b.deadline

\* Mutant: rules that require and forbid are the only conflicts.
ConflictsOfForce(rules) ==
  {[rules |-> {p[1].id, p[2].id}, reason |-> "force"] :
     p \in {q \in Obligations(rules) \X Obligations(rules) :
                     SameScope(q[1], q[2]) /\ IsIncompatibleForce(q[1], q[2])}}

\* Every two obligations of one scope that cannot both be kept, with the first
\* reason that applies.
DetectConflicts(rules) ==
  {[rules |-> {p[1].id, p[2].id},
    reason |-> IF IsIncompatibleForce(p[1], p[2]) THEN "force" ELSE "deadline"] :
     p \in {q \in Obligations(rules) \X Obligations(rules) :
              /\ q[1] # q[2]
              /\ SameScope(q[1], q[2])
              /\ IsIncompatibleForce(q[1], q[2]) \/ DeadlinesDiffer(q[1], q[2])}}
=============================================================================
