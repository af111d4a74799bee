------------------------------ MODULE CaseTwin ------------------------------
(***************************************************************************)
(* The case twin (case/caseTwin.ts) and the deviations read off it         *)
(* (deviation/detector.ts).  A case is what was compiled from its policy,  *)
(* which does not change, and an event log, which grows; its state is      *)
(* recomputed from both, as of a stated instant, whenever it is asked for. *)
(*                                                                         *)
(* The due dates are given by the deadlines' equations (DueDates), which   *)
(* is what DueDateResolver computes where no deadlines form a circle; here *)
(* none do.                                                                *)
(***************************************************************************)
EXTENDS EventLog, Deadlines, ProcedureModel, FiniteSets, Functions

CONSTANTS Event,         \* the facts that can be recorded: type, instant, subject
          Compilations,  \* what may have been compiled: rules, constraints, rules
                         \* refused, other claims refused, claims held for review,
                         \* ambiguities, the authority's status
          GroundOpen,    \* the note that eligibility is undetermined
          NoGround,      \* the subject of an assertion that names no ground
          NoTrigger,     \* an obligation whose trigger is unresolved
          Clock,         \* the instants as of which the case is evaluated
          MaxEvents      \* bound: events in the log

ASSUME TwinAssumption ==
  /\ \A c \in Compilations :
       /\ c = [rules |-> c.rules, constraints |-> c.constraints, refused |-> c.refused,
               dropped |-> c.dropped, held |-> c.held, ambiguities |-> c.ambiguities,
               authority |-> c.authority]
       /\ \A r \in c.rules : r.id \in Rule
       /\ \A r \in c.rules : r.deadline = NoDeadline \/ ValidDeadline(r.deadline, Rule)
       /\ \A r, s \in c.rules : r.id = s.id => r = s
       /\ \A r \in c.constraints :
            r.kind \in {"required_event", "required_before", "minimum_lead_time"}
  /\ \A e \in Event : e.type \in EventType /\ e.at \in Nat
  /\ MaxEvents \in Nat
  /\ Clock \subseteq Nat

VARIABLES compiled, log, evaluationAt

vars == <<compiled, log, evaluationAt>>

Init == /\ compiled \in Compilations
        /\ log = <<>>
        /\ evaluationAt \in Clock
        /\ \A t \in Clock : evaluationAt <= t
-----------------------------------------------------------------------------
(* computeCaseState, for the procedure p *)

FirstTimes(l) == [t \in EventType |-> FirstAt(l, t)]

Procedure(c) == BuildProcedureModel(c.rules)

Ids(rules) == {r.id : r \in rules}

\* The deadline of an id: nothing can be computed for a rule without trigger or
\* deadline, nor for an id that is not an obligation's.
DeadlineOf(p, id) ==
  LET dated == {r \in Bound(p) : r.id = id /\ r.trigger # NoTrigger /\ r.deadline # NoDeadline}
  IN IF dated = {} THEN [type |-> "unspecified"] ELSE (CHOOSE r \in dated : TRUE).deadline

\* Anchors lead from one obligation to others, and never back.
ASSUME AnchorsAssumption ==
  \A c \in Compilations : \A U \in (SUBSET Rule) \ {{}} :
    \E id \in U : Range(AnchorsOf(DeadlineOf(Procedure(c), id))) \cap U = {}

DueAt(p, l) == DueDates(FirstTimes(l), [id \in Rule |-> DeadlineOf(p, id)])

\* Mutant: two records of one completion are taken for a contradiction.
CompletedOnce(p, l, id) ==
  Cardinality({i \in OfType(l, IF id \in Ids(p.studentObligations) THEN "student_action_taken"
                                                        ELSE "institution_action_taken") :
                 l[i].about = id}) = 1

\* A completion is recorded by the party the obligation binds.
Completed(p, l, id) ==
  \E i \in OfType(l, IF id \in Ids(p.studentObligations) THEN "student_action_taken"
                                                        ELSE "institution_action_taken") :
    l[i].about = id

\* Mutant: the deadline is looked at before the record of a completion.
StatusByClock(p, l, t, id, due) ==
  IF due = NoDate THEN "unknown"
  ELSE IF t > due THEN "missed"
  ELSE IF Completed(p, l, id) THEN "met"
  ELSE "pending"

\* computeObligationState, for an obligation due at `due`.
Status(p, l, t, id, due) ==
  IF due = NoDate THEN "unknown"
  ELSE IF Completed(p, l, id) THEN "met"
  ELSE IF t > due THEN "missed"
  ELSE "pending"

\* Mutant: the ground asserted last is the one that counts.
AssertedLast(l) ==
  CHOOSE i \in OfType(l, "ground_asserted") :
    \A j \in OfType(l, "ground_asserted") \ {i} : Before(l, j, i)

\* The position of the event that asserts the ground.
Asserted(l) == First(l, "ground_asserted")

\* determineEligibility: the first ground asserted decides; only a closed list
\* licenses a rejection of what it does not mention.
Eligibility(p, l) ==
  LET Lists(polarity) == {r \in p.eligibilityGrounds : r.polarity = polarity}
      ground == l[Asserted(l)].about
  IN IF OfType(l, "ground_asserted") = {} \/ ground = NoGround THEN "undetermined"
     ELSE IF \E r \in Lists("invalid") : ground \in r.grounds THEN "ineligible"
     ELSE IF \E r \in Lists("valid") : ground \in r.grounds THEN "eligible"
     ELSE IF \E r \in Lists("valid") : r.closure = "CLOSED" THEN "ineligible"
     ELSE "undetermined"

CaseState(p, l, t) ==
  LET due == DueAt(p, l)
  IN [due         |-> [id \in Ids(Bound(p)) |-> due[id]],
      status      |-> [id \in Ids(Bound(p)) |-> Status(p, l, t, id, due[id])],
      eligibility |-> Eligibility(p, l)]
-----------------------------------------------------------------------------
(* detectDeviations, for a case state of the compilation c *)

MissedBy(p, id) == IF id \in Ids(p.studentObligations) THEN "STUDENT_DEADLINE_EXCEEDED"
                                                       ELSE "INSTITUTION_DEADLINE_EXCEEDED"

\* The gates whose evidence, named by their action, has not been provided.
MissingEvidence(p, l) ==
  {g \in p.evidenceGates : /\ g.force \in Requiring
                           /\ \A i \in OfType(l, "evidence_provided") : l[i].about # g.action}

\* Only a procedure with grounds has something to be ambiguous about.
EligibilityOpen(p, state) ==
  state.eligibility = "undetermined" /\ p.eligibilityGrounds # {}

Deviations(c, l, state) ==
  LET p == Procedure(c)
      WithStatus(s) == {id \in DOMAIN state.status : state.status[id] = s}
  IN {<<MissedBy(p, id), id>> : id \in WithStatus("missed")}
     \cup {<<"NORMAL_WAITING", id>> : id \in WithStatus("pending")}
     \cup {<<"STUDENT_REQUIREMENT_MISSING", g.id>> : g \in MissingEvidence(p, l)}
     \cup {<<"CONFLICTING_RULES", conflict>> : conflict \in DetectConflicts(c.rules)}
     \cup {<<"MISSING_SOURCE_EVIDENCE", claim>> : claim \in c.refused}
     \cup {<<"POLICY_SOURCE_AMBIGUITY", note>> : note \in c.ambiguities}
     \cup (IF EligibilityOpen(p, state) THEN {<<"POLICY_SOURCE_AMBIGUITY", GroundOpen>>} ELSE {})
-----------------------------------------------------------------------------
\* append(): a fact is recorded some time after it occurred.  Bound: once; what
\* recording one again does is a property of its own (RetriesChangeNothing).
Record(e) == /\ Len(log) < MaxEvents
             /\ \A i \in DOMAIN log : log[i] # e
             /\ log' = Append(log, e)
             /\ UNCHANGED <<compiled, evaluationAt>>

\* The next analysis is made as of a later instant.
Evaluate(t) == /\ t > evaluationAt
               /\ evaluationAt' = t
               /\ UNCHANGED <<compiled, log>>

Next == (\E e \in Event : Record(e)) \/ (\E t \in Clock : Evaluate(t))

Spec == Init /\ [][Next]_vars
-----------------------------------------------------------------------------
(* Properties *)

Now == CaseState(Procedure(compiled), log, evaluationAt)

\* The obligations whose due date hangs on no "latest" of several anchors.
HangsOnLatest[id \in Rule] ==
  LET deadline == DeadlineOf(Procedure(compiled), id)
  IN \/ deadline.type = "derived" /\ deadline.combinator = "latest"
     \/ \E a \in Range(AnchorsOf(deadline)) \cap Rule : HangsOnLatest[a]
Anchored == {id \in Ids(Bound(Procedure(compiled))) : ~HangsOnLatest[id]}

\* As facts are recorded, late or not, and time passes: a known due date stays
\* known, a met obligation stays met, and a missed one is missed for good
\* unless its completion is recorded -- or its deadline waits for the latest of
\* several anchors, one of which is still to come.
StatusAdvances ==
  [][\A p \in {Procedure(compiled)} :
       \A now \in {CaseState(p, log, evaluationAt)}, then \in {CaseState(p, log', evaluationAt')} :
         \A id \in DOMAIN now.status :
           /\ now.status[id] = "met" => then.status[id] = "met"
           /\ now.status[id] \in {"pending", "missed"} => then.status[id] # "unknown"
           /\ (now.status[id] = "missed" /\ id \in Anchored)
              => then.status[id] \in {"missed", "met"}]_vars

\* "Whichever date is earlier": once a due date is known, no fact recorded
\* later, back-dated or not, ever moves it later (where no "latest" is involved).
DueDatesNeverSlip ==
  [][\A p \in {Procedure(compiled)} :
       \A now \in {DueAt(p, log)}, then \in {DueAt(p, log')} :
         \A id \in Anchored :
           now[id] # NoDate => then[id] # NoDate /\ then[id] <= now[id]]_vars
=============================================================================
