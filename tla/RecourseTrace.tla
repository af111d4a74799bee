---------------------------- MODULE RecourseTrace ----------------------------
(***************************************************************************)
(* The Recourse Trace (trace/recourseTrace.ts) of an analysed case: every  *)
(* row of it, what it lists as undetermined, and what the two parts of its *)
(* page, the summary and the evidence, show of it.  The words, the quotes  *)
(* and the hash of the whole content are left out.                         *)
(***************************************************************************)
EXTENDS ScenarioForecast

CONSTANTS Asked   \* the forecast scenarios the case asks for

ASSUME AskedAssumption == \A s \in Asked : s.hypothetical \in Seq(Event)

\* The exception dimension of a finding (applyException).
ExceptionState(r, l) ==
  IF r.exception = NoException THEN "none"
  ELSE IF Constraint(r, l) # "NONCONFORMANT" THEN "NOT_APPLICABLE"
  ELSE IF FirstAt(l, r.exception.established) # NoDate THEN "APPLIES"
  ELSE IF FirstAt(l, r.exception.negated) # NoDate THEN "EXCLUDED"
  ELSE "UNRESOLVED"

ConstraintEventTypes(r) ==
  CASE r.kind = "required_event" -> {r.event, r.closesUpon} \ {NoType}
    [] r.kind = "required_before" -> {r.event, r.before}
    [] r.kind = "minimum_lead_time" -> {r.anchor, r.target}

FindingRow(r, l) ==
  [status |-> Finding(r, l), exception |-> ExceptionState(r, l),
   observed |-> {e \in Range(l) : e.type \in ConstraintEventTypes(r)}]

ObligationRow(p, state, id) ==
  [party |-> IF id \in Ids(p.studentObligations) THEN "student" ELSE "institution",
   due |-> state.due[id], status |-> state.status[id]]
-----------------------------------------------------------------------------
AuthorityUncertainty(c) ==
  CASE c.authority = "BLOCKED_SOURCE_UNAVAILABLE" -> {<<"SOURCE_UNAVAILABLE", "authority">>}
    [] c.authority = "BLOCKED_SOURCE_CONFLICT" -> {<<"UNRESOLVED_AUTHORITY", "authority">>}
    [] OTHER -> {}

\* Obligations without a date and findings the record does not decide.
Gaps(state, l, constraints) ==
  {<<"MISSING_EVENT_OR_FACT", id>> :
     id \in {x \in DOMAIN state.status : state.status[x] = "unknown"}}
  \cup {<<IF ExceptionState(r, l) = "UNRESOLVED" THEN "UNRESOLVED_EXCEPTION"
          ELSE "MISSING_EVENT_OR_FACT", r>> :
          r \in {x \in constraints : Finding(x, l) = "UNDETERMINED"}}

\* Mutant: what was ambiguous is not carried over from the deviations.
UncertaintyWithoutAmbiguity(c, l, state) ==
  AuthorityUncertainty(c)
  \cup {<<"SOURCE_CONFLICT", conflict>> : conflict \in DetectConflicts(c.rules)}
  \cup {<<"INFERRED_CLAIM_HELD_FOR_REVIEW", claim>> : claim \in c.held}
  \cup {<<"REJECTED_CLAIM", claim>> : claim \in c.refused \cup c.dropped}
  \cup Gaps(state, l, c.constraints)

\* collectUncertainty
Uncertainty(c, l, state) ==
  AuthorityUncertainty(c)
  \cup {<<"SOURCE_CONFLICT", conflict>> : conflict \in DetectConflicts(c.rules)}
  \cup {<<"INFERRED_CLAIM_HELD_FOR_REVIEW", claim>> : claim \in c.held}
  \cup {<<"REJECTED_CLAIM", claim>> : claim \in c.refused \cup c.dropped}
  \cup Gaps(state, l, c.constraints)
  \cup {<<"SOURCE_CONFLICT", d[2]>> :
          d \in {x \in Deviations(c, l, state) : x[1] = "POLICY_SOURCE_AMBIGUITY"}}

\* buildRecourseTrace, of the compilation c of a case with log l at instant t.
Trace(c, l, t) ==
  LET p     == Procedure(c)
      state == CaseState(p, l, t)
  IN [authority   |-> c.authority,
      validated   |-> Ids(c.rules) \cup c.constraints,
      refused     |-> c.refused \cup c.dropped,
      held        |-> c.held,
      actors      |-> {r.actor : r \in c.rules \cup c.constraints},
      obligations |-> [id \in DOMAIN state.status |-> ObligationRow(p, state, id)],
      advisory    |-> p.advisoryRules,
      grounds     |-> p.eligibilityGrounds,
      eligibility |-> state.eligibility,
      conflicts   |-> DetectConflicts(c.rules),
      events      |-> All(l),
      findings    |-> [r \in c.constraints |-> FindingRow(r, l)],
      forecast    |-> [s \in Asked |-> ForecastPoint(c, l, t, s)],
      uncertainty |-> Uncertainty(c, l, state)]
-----------------------------------------------------------------------------
(* renderRecourseTraceMarkdown: what each part of the page states *)

Rows(what, f) == {<<what, x, f[x].status>> : x \in DOMAIN f}

EligibilityLine(tr) == IF tr.grounds = {} THEN {} ELSE {<<"eligibility", "case", tr.eligibility>>}

\* A scenario that was refused is not in the summary.
Summary(tr) ==
  {<<"authority", "case", tr.authority>>}
  \cup Rows("finding", tr.findings) \cup Rows("obligation", tr.obligations)
  \cup {<<"forecast", s, "evaluated", tr.forecast[s].outcome>> :
          s \in {x \in DOMAIN tr.forecast : tr.forecast[x].status = "evaluated"}}
  \cup EligibilityLine(tr)
  \cup {<<"undetermined", u>> : u \in tr.uncertainty}

\* What could not be determined is stated in the summary only.
Evidence(tr) ==
  {<<"authority", "case", tr.authority>>}
  \cup {<<"validated", claim>> : claim \in tr.validated}
  \cup {<<"refused", claim>> : claim \in tr.refused}
  \cup {<<"held", claim>> : claim \in tr.held}
  \cup {<<"party", a>> : a \in tr.actors}
  \cup {<<"advisory", r.id>> : r \in tr.advisory}
  \cup {<<"grounds", r.id>> : r \in tr.grounds}
  \cup EligibilityLine(tr)
  \cup {<<"conflict", conflict>> : conflict \in tr.conflicts}
  \cup {<<"event", e>> : e \in Range(tr.events)}
  \cup Rows("finding", tr.findings) \cup Rows("obligation", tr.obligations)
  \cup {IF tr.forecast[s].status = "rejected" THEN <<"forecast", s, "rejected">>
        ELSE <<"forecast", s, "evaluated", tr.forecast[s].outcome>> : s \in DOMAIN tr.forecast}
-----------------------------------------------------------------------------
(* Properties *)

Here == Trace(compiled, log, evaluationAt)

\* The same facts give the same trace (traceContentHash), in whatever order
\* several people recorded them; facts of one instant are listed as recorded.
Swapped(k) == [log EXCEPT ![k] = log[k + 1], ![k + 1] = log[k]]
Reproduced(k, here, other) ==
  /\ log[k].at # log[k + 1].at => other = here
  /\ log[k].type # log[k + 1].type =>
       /\ Range(other.events) = Range(here.events)
       /\ [other EXCEPT !.events = here.events] = here
ReproducedInAnyOrder(here) ==
  \A k \in 1..(Len(log) - 1) : Reproduced(k, here, Trace(compiled, Swapped(k), evaluationAt))
TraceReproducible == ReproducedInAnyOrder(Here)

\* A batch that failed half way and is handed in again (appendAll) leaves facts
\* twice in the log: the trace lists them twice, and says nothing else for it.
Retried(i) == log \o SubSeq(log, i, Len(log))
RetryChangesNothing(here) ==
  \A i \in DOMAIN log : LET again == Trace(compiled, Retried(i), evaluationAt)
                       IN /\ Range(again.events) = Range(here.events)
                          /\ [again EXCEPT !.events = here.events] = here
RetriesChangeNothing == RetryChangesNothing(Here)

\* "Never gate state" (ProcedureModel): without one of its advisory rules, a
\* case has the same obligations, eligibility, findings and forecasts.
Without(r) == [compiled EXCEPT !.rules = @ \ {r}]
SameCase(here, without) ==
  /\ without.obligations = here.obligations
  /\ without.eligibility = here.eligibility
  /\ without.findings = here.findings
  /\ \A s \in Asked : here.forecast[s].status = "evaluated" =>
       /\ without.forecast[s].outcome = here.forecast[s].outcome
       /\ without.forecast[s].changes = here.forecast[s].changes
AdvisoryNeverGates ==
  \A r \in Procedure(compiled).advisoryRules :
    SameCase(Here, Trace(Without(r), log, evaluationAt))

\* While facts are recorded in the order they occurred, what a trace has
\* determined stays determined: the last fact recorded opens no question that the
\* trace did not name before it, and the ground a case rests on is decided by its
\* first assertion.
Settled(l) ==
  LET state == CaseState(Procedure(compiled), l, evaluationAt)
  IN [open |-> {u[2] : u \in Uncertainty(compiled, l, state)}, eligibility |-> state.eligibility]
SettlesForGood ==
  LET last    == Len(log)
      earlier == SubSeq(log, 1, last - 1)
      settled == [l \in {log, earlier} |-> Settled(l)]
  IN (log # <<>> /\ \A i \in DOMAIN log : log[i].at <= log[last].at) =>
       /\ settled[log].open \subseteq settled[earlier].open
       /\ OfType(earlier, "ground_asserted") # {}
          => settled[log].eligibility = settled[earlier].eligibility

\* A forecast and the list of limits agree: where a scenario moves nothing, the
\* forecast waits for something exactly when the trace names what is missing.
Missing(uncertainty) ==
  {u \in uncertainty : u[1] \in {"MISSING_EVENT_OR_FACT", "UNRESOLVED_EXCEPTION"}}
NamesTheGap(point, missing) ==
  /\ point.outcome = "CONDITIONAL_ON_FUTURE_EVENT" => missing # {}
  /\ point.outcome = "STATE_UNCHANGED" => missing = {}
GapsNamed(here) == \A s \in Asked : here.forecast[s].status = "evaluated" =>
                     NamesTheGap(here.forecast[s], Missing(here.uncertainty))
ForecastNamesTheGap == GapsNamed(Here)

\* "A reader who sees only" the summary learns of every deviation of the case but
\* the missing evidence, and the evidence repeats what the summary determines.
Told(d, summary) ==
  CASE d[1] \in {"STUDENT_DEADLINE_EXCEEDED", "INSTITUTION_DEADLINE_EXCEEDED"} ->
         <<"obligation", d[2], "missed">> \in summary
    [] d[1] = "NORMAL_WAITING" -> <<"obligation", d[2], "pending">> \in summary
    [] d[1] = "STUDENT_REQUIREMENT_MISSING" -> TRUE
    [] OTHER -> \E s \in summary : s[1] = "undetermined" /\ s[2][2] = d[2]
TellsDeviations(here, summary) ==
  /\ \A d \in Deviations(compiled, log, Now) : Told(d, summary)
  /\ {s \in summary : s[1] # "undetermined"} \subseteq Evidence(here)
SummaryTellsDeviations == TellsDeviations(Here, Summary(Here))
=============================================================================
