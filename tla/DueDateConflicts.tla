-------------------------- MODULE DueDateConflicts --------------------------
(***************************************************************************)
(* One evaluation of the due dates (DueDateResolver) next to the conflicts *)
(* the procedure model reports between the same obligations                *)
(* (procedure/procedureModel.ts): the first compares instants, the second  *)
(* what the deadlines say.                                                 *)
(***************************************************************************)
EXTENDS DueDateResolver, ProcedureModel

CONSTANT Terms   \* by rule: actor, action, trigger and force

ASSUME TermsAssumption ==
  /\ \A r \in Rule : Terms[r].force \in BindingForces
  /\ NoDeadline \notin Deadlines

\* The obligations computeCaseState is given, as the procedure model has them.
Rules == {[id |-> r, kind |-> "obligation", force |-> Terms[r].force,
           actor |-> Terms[r].actor, action |-> Terms[r].action,
           trigger |-> Terms[r].trigger, deadline |-> deadline[r]] : r \in Rule}
-----------------------------------------------------------------------------
(* Properties *)

\* Two obligations of one scope that come out with different due dates are
\* reported as a conflict, whatever form their deadlines have and whatever the
\* memo held when each was resolved -- unless both involve a circular reference,
\* whose dates depend on the order of the obligations.
DisagreementReported ==
  Done => \A a, b \in Bound(BuildProcedureModel(Rules)) :
            ( /\ SameScope(a, b)
              /\ {a.id, b.id} \cap Settled # {}
              /\ NoDate \notin {out[a.id], out[b.id]}
              /\ out[a.id] # out[b.id] )
            => \E conflict \in DetectConflicts(Rules) : conflict.rules = {a.id, b.id}
=============================================================================
