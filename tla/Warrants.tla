------------------------------ MODULE Warrants ------------------------------
(***************************************************************************)
(* What becomes of a claim: the stages of each pipeline in the order in    *)
(* which they decide, the first that does not pass being the verdict.      *)
(*                                                                         *)
(* A raw claim is a record with the source and the words it quotes, and    *)
(* maybe a second quote: the force evidence of a rule, the exception of a  *)
(* conformance rule.  A candidate is a claim with the warrants of its      *)
(* quotes, whether resolved from the raw claim or supplied by a caller.    *)
(***************************************************************************)
EXTENDS DeonticSupport

CONSTANT NoQuote    \* no force evidence, no exception

Verdicts == {"validated", "needs_review", "rejected"}

Then(first, second) == IF first = "validated" THEN second ELSE first

Check(condition) == IF condition THEN "validated" ELSE "rejected"

\* An inferred reading goes to review, its evidence verified.
Stated(w) == IF w.claimType = "inferred" THEN "needs_review" ELSE "validated"

\* Any batch form: every claim ends in one of three buckets, and none stops
\* the others.
Batch(verdict) == [v \in Verdicts |-> {c \in DOMAIN verdict : verdict[c] = v}]

-----------------------------------------------------------------------------
(* From a raw claim to a candidate *)

Resolution(claim, quote, claimType, store) ==
  ResolveQuote(claim.source, quote, claimType, store)

Binding(resolution) ==
  CASE resolution.status = "unresolvable" -> "rejected"
    [] resolution.status = "ambiguous"    -> "needs_review"
    [] resolution.status = "resolved"     -> "validated"

Primary(p, store) == Resolution(p, p.quote, p.claimType, store)
Secondary(p, store) == IF p.extra = NoQuote THEN Resolved(NoWarrant)
                    ELSE Resolution(p, p.extra, p.extraType, store)

\* resolveRawProposal: both quotes, or no candidate.
ResolveRawProposal(p, store) == Then(Binding(Primary(p, store)), Binding(Secondary(p, store)))

Candidate(p, store) ==
  [claim |-> p, warrant |-> Primary(p, store).warrant, second |-> Secondary(p, store).warrant]

-----------------------------------------------------------------------------
(* Policy rules *)

Deontic(c) ==
  LET support == CheckDeonticSupport(c.claim.force,
                   {w.quotedText : w \in {c.warrant, c.second} \ {NoWarrant}})
  IN CASE support = "contradicted" -> "rejected"
       [] support = "unsupported"  -> "needs_review"
       [] support = "supported"    -> "validated"

CheckWarrant(c, store) ==
  Then(Check(Verified(c.warrant, store)),
  Then(Stated(c.warrant),
  Then(IF c.second = NoWarrant THEN "validated"
       ELSE Then(Check(Verified(c.second, store)), Stated(c.second)),
       Deontic(c))))

\* validateRule, on the fields of the claim.
ValidateRule(c) == Check(c.claim.wellFormed)

ProposeAndValidate(c, store) == Then(CheckWarrant(c, store), ValidateRule(c))

ProposeRawAndValidate(p, store) ==
  Then(ResolveRawProposal(p, store), ProposeAndValidate(Candidate(p, store), store))

GateSourceId(allowed, source) == Check(source \in allowed)

ProposeGatedRawRule(p, store, allowed) ==
  Then(GateSourceId(allowed, p.source), ProposeRawAndValidate(p, store))

-----------------------------------------------------------------------------
(* Source relationships *)

\* The warrant must be anchored in the source that makes the claim.
CheckRelationshipWarrant(c, store) ==
  Then(Check(c.claim.wellFormed /\ c.warrant # NoWarrant),
  Then(Check(c.warrant.sourceId = c.claim.source /\ Verified(c.warrant, store)),
       Stated(c.warrant)))

ProposeRawRelationship(p, store) ==
  Then(ResolveRawProposal(p, store), CheckRelationshipWarrant(Candidate(p, store), store))

-----------------------------------------------------------------------------
(* Conformance rules *)

\* An exception is quoted from the same source, or the rule is refused with it.
ValidateException(c, store) ==
  IF c.claim.extra = NoQuote THEN "validated"
  ELSE Then(Check(c.second # NoWarrant),
       Then(Check(c.second.sourceId = c.claim.source /\ Verified(c.second, store)),
            Stated(c.second)))

ValidateConformanceRule(c, store) ==
  Then(Check(c.claim.wellFormed /\ c.warrant # NoWarrant),
  Then(Check(c.warrant.sourceId = c.claim.source /\ Verified(c.warrant, store)),
  Then(Stated(c.warrant),
       ValidateException(c, store))))

ProposeConformanceRule(c, store, allowed) ==
  Then(GateSourceId(allowed, c.claim.source), ValidateConformanceRule(c, store))

ProposeRawConformanceRule(p, store, allowed) ==
  Then(GateSourceId(allowed, p.source),
  Then(ResolveRawProposal(p, store),
       ProposeConformanceRule(Candidate(p, store), store, allowed)))
=============================================================================
