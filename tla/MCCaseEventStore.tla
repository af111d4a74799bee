-------------------------- MODULE MCCaseEventStore --------------------------
(* CaseEventStore for TLC: interchangeable processes and events. *)
EXTENDS CaseEventStore, TLC

Symmetry == Permutations(Event)
=============================================================================
