-------------------------- MODULE AuthorityResolver --------------------------
(***************************************************************************)
(* resolveAuthority (authority/authorityResolver.ts): which of several     *)
(* documents governs a decision, from lineage claims that were validated   *)
(* one by one (authority/relationshipValidator.ts), as of an instant that  *)
(* moves on.  The resolution is recomputed from the list of claims whenever *)
(* a case is analysed.                                                     *)
(***************************************************************************)
EXTENDS Naturals, FiniteSets, SequencesExt

CONSTANTS Source,
          Scopes,            \* Scopes[s]: what the source claims to apply to
          Queries,           \* the decisions a governing source is wanted for
          Effective,         \* the possible effective dates, [Source -> Nat]
          Instant,           \* the instants the authority is resolved as of
          NoUnit, AnyStudent,
          NoSource,
          Lineage,           \* the lineage claims that may be validated
          MaxRelationships   \* bound: validated relationships

Type == {"GOVERNS", "IMPLEMENTS", "EXTENDS", "SUPERSEDES", "GUIDANCE_FOR"}
Relationship == {r \in [type : Type, from : Source, to : Source] : r.from # r.to}

ASSUME AuthorityAssumption ==
  /\ IsFiniteSet(Source) /\ NoSource \notin Source
  /\ Lineage \subseteq Relationship
  /\ Effective \subseteq [Source -> Nat]
  /\ Instant \subseteq Nat
  /\ MaxRelationships \in Nat

VARIABLES query, effective, relationships, asOf

vars == <<query, effective, relationships, asOf>>

Init == /\ query \in Queries
        /\ effective \in Effective
        /\ relationships = <<>>
        /\ asOf \in Instant
        /\ \A t \in Instant : asOf <= t
-----------------------------------------------------------------------------
\* A scope below campus level has to be asked for; a student population is
\* only compared when the query states one.
ScopeMatches(scope, q) ==
  /\ scope.institution = q.institution
  /\ q.decisionType \in scope.decisionTypes \ scope.excludes
  /\ scope.unit \in {NoUnit, q.unit}
  /\ \/ AnyStudent \in {scope.studentType, q.studentType}
     \/ scope.studentType = q.studentType

Matched == {s \in Source : ScopeMatches(Scopes[s], query)}

\* Mutant: a source that has been retired itself retires nothing any more.
RetiredInTurn(rels, t) ==
  FoldLeft(LAMBDA gone, r :
             IF r.type # "SUPERSEDES" \/ {r.from, r.to} \cap (gone \cup (Source \ Matched)) # {}
             THEN gone
             ELSE gone \cup {IF effective[r.from] <= t THEN r.to ELSE r.from},
           {}, rels)

\* Mutant: the date of the replaced document decides.
RetiredByOldDate(rels, t) ==
  {IF effective[r.to] <= t THEN r.to ELSE r.from :
     r \in {x \in Range(rels) : x.type = "SUPERSEDES" /\ {x.from, x.to} \subseteq Matched}}

\* applySupersession: the newer source replaces the older one on its effective
\* date, and is not in force before.
Retired(rels, t) ==
  {IF effective[r.from] <= t THEN r.to ELSE r.from :
     r \in {x \in Range(rels) : x.type = "SUPERSEDES" /\ {x.from, x.to} \subseteq Matched}}

Guidance(rels) == {r.from : r \in {x \in Range(rels) : x.type = "GUIDANCE_FOR"}}

\* governingCandidates
Candidates(rels, t) == (Matched \ Retired(rels, t)) \ Guidance(rels)

Child(r) == IF r.type = "GOVERNS" THEN r.to ELSE r.from
Parent(r) == IF r.type = "GOVERNS" THEN r.from ELSE r.to

\* buildParents: where the superiors of s are recorded.
Records(s, rels, C) ==
  {i \in DOMAIN rels : /\ rels[i].type \in {"GOVERNS", "IMPLEMENTS", "EXTENDS"}
                       /\ {rels[i].from, rels[i].to} \subseteq C
                       /\ Child(rels[i]) = s}

\* The first recorded superior of every source.
Superior(rels, C) ==
  [s \in C |-> IF Records(s, rels, C) = {} THEN NoSource
               ELSE Parent(rels[Min(Records(s, rels, C))])]

\* ancestorsOf: the chain of superiors, which ends at a source without one or,
\* if it comes back to itself, not at all.
Chain(s, superior) ==
  LET at[n \in 0..Cardinality(DOMAIN superior)] ==
        IF n = 0 THEN s
        ELSE IF at[n - 1] = NoSource THEN NoSource ELSE superior[at[n - 1]]
  IN at

\* Mutant: a source with several superiors is followed up to the first one.
NoMultiParent(rels, C) == {}

MultiParent(rels, C) == {s \in C : Cardinality(Records(s, rels, C)) > 1}

Roots(rels, C) == {s \in C : Records(s, rels, C) = {}}

\* Mutant: with one top-level source, the others are taken for its subordinates.
AlwaysConnected(s, root, rels, C) == TRUE

\* The chain from s ends, and passes through the root.
Connected(s, root, rels, C) ==
  LET chain == Chain(s, Superior(rels, C))
  IN /\ chain[Cardinality(C)] = NoSource
     /\ \E n \in 1..Cardinality(C) : chain[n] = root

SourceUnavailable == [status |-> "BLOCKED_SOURCE_UNAVAILABLE", allowed |-> {}]
SourceConflict == [status |-> "BLOCKED_SOURCE_CONFLICT", allowed |-> {}]

\* The root of the lineage of the sources C, if it has one and reaches them
\* all, with the sources allowedSourceIds lets rules come from.
Governing(rels, C) ==
  LET roots == Roots(rels, C)
      root  == CHOOSE s \in roots : TRUE
  IN IF MultiParent(rels, C) # {} \/ Cardinality(roots) # 1 THEN SourceConflict
     ELSE IF \E s \in C \ {root} : ~Connected(s, root, rels, C) THEN SourceConflict
     ELSE [status |-> "APPLICABLE", governing |-> root, allowed |-> C]

\* resolveAuthority
Resolution(rels, t) ==
  IF Candidates(rels, t) = {} THEN SourceUnavailable ELSE Governing(rels, Candidates(rels, t))
-----------------------------------------------------------------------------
\* One more lineage claim is validated.
Validate(r) == /\ Len(relationships) < MaxRelationships
               /\ relationships' = Append(relationships, r)
               /\ UNCHANGED <<query, effective, asOf>>

\* The case is analysed as of a later instant.
Later(t) == /\ t > asOf
            /\ asOf' = t
            /\ UNCHANGED <<query, effective, relationships>>

Next == (\E r \in Lineage : Validate(r)) \/ (\E t \in Instant : Later(t))

Spec == Init /\ [][Next]_vars
-----------------------------------------------------------------------------
(* Properties *)

Authority == Resolution(relationships, asOf)
Then == Authority'
Applicable == Authority.status = "APPLICABLE"

\* A source is chosen exactly when the lineage of all sources in force is a
\* tree with that source at the top: one record per subordinate, all of them
\* below it (whoever is taken together with all superiors, it is among them);
\* in every other case nothing may be compiled from any source.
LineageIsATree ==
  LET C == Candidates(relationships, asOf)
      records == {i \in DOMAIN relationships :
                    /\ relationships[i].type \in {"GOVERNS", "IMPLEMENTS", "EXTENDS"}
                    /\ {relationships[i].from, relationships[i].to} \subseteq C}
      RecordsOf(s) == {i \in records : Child(relationships[i]) = s}
      Closed(U) == \A i \in records : Child(relationships[i]) \in U => Parent(relationships[i]) \in U
      IsTop(g) == /\ RecordsOf(g) = {}
                  /\ \A s \in C \ {g} :
                       /\ Cardinality(RecordsOf(s)) = 1
                       /\ \A U \in SUBSET C : s \in U /\ Closed(U) => g \in U
  IN /\ Applicable <=> \E g \in C : IsTop(g)
     /\ Applicable => IsTop(Authority.governing) /\ Authority.allowed = C
     /\ ~Applicable => Authority.allowed = {}

\* What governs does not depend on the order in which lineage claims were
\* proposed and validated.
Swapped(k) == [relationships EXCEPT ![k] = relationships[k + 1], ![k + 1] = relationships[k]]
ValidationOrderIrrelevant ==
  \A k \in 1..(Len(relationships) - 1) : Resolution(Swapped(k), asOf) = Authority

\* "Policies change" is no licence to jump to the newest version: time alone
\* moves the authority only on the effective date of a validated replacement.
AuthorityMovesOnEffectiveDates ==
  [][(relationships' = relationships /\ Then # Authority)
     => \E r \in Range(relationships) : /\ r.type = "SUPERSEDES"
                                        /\ effective[r.from] > asOf
                                        /\ effective[r.from] <= asOf']_vars

\* A document that has been replaced is history: no later lineage claim, no
\* replacement of its replacement and no later instant brings it back.
Replaced == {r.to : r \in {x \in Range(relationships) :
                             /\ x.type = "SUPERSEDES"
                             /\ {x.from, x.to} \subseteq Matched
                             /\ effective[x.from] <= asOf}}
ReplacedNeverReturns == [][Replaced \cap Then.allowed = {}]_vars
=============================================================================
