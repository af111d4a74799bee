-------------------------- MODULE RecourseTrace_proofs --------------------------
(***************************************************************************)
(* What advice can do to a case, what a trace settles, reports and states, *)
(* and on what it depends, for any compiled rules, record and scenarios.   *)
(***************************************************************************)
EXTENDS RecourseTrace, CaseForecast_proofs

IsCompilation(c) ==
  c = [rules |-> c.rules, constraints |-> c.constraints, refused |-> c.refused,
       dropped |-> c.dropped, held |-> c.held, ambiguities |-> c.ambiguities, authority |-> c.authority]

-----------------------------------------------------------------------------
(* Advice *)

\* A case state depends on the obligations that bind and on the grounds.
LEMMA StateOfBinding ==
  ASSUME NEW p, NEW q, NEW l, NEW t,
         p.studentObligations = q.studentObligations,
         p.institutionObligations = q.institutionObligations,
         p.eligibilityGrounds = q.eligibilityGrounds
  PROVE  CaseState(p, l, t) = CaseState(q, l, t)
<1>1. Bound(p) = Bound(q)
  BY DEF Bound
<1>2. \A id : DeadlineOf(p, id) = DeadlineOf(q, id)
  BY <1>1 DEF DeadlineOf
<1>3. DueAt(p, l) = DueAt(q, l)
  BY <1>2 DEF DueAt
<1>4. \A id : Completed(p, l, id) = Completed(q, l, id)
  BY DEF Completed
<1>5. \A id, due : Status(p, l, t, id, due) = Status(q, l, t, id, due)
  BY <1>4 DEF Status
<1>6. Eligibility(p, l) = Eligibility(q, l)
  BY DEF Eligibility
<1> QED
  BY <1>1, <1>3, <1>5, <1>6 DEF CaseState

\* buildProcedureModel: a rule of the advisory list is in no other.
LEMMA WithoutAdvice ==
  ASSUME NEW rules, NEW r \in BuildProcedureModel(rules).advisoryRules
  PROVE  LET p == BuildProcedureModel(rules)
             q == BuildProcedureModel(rules \ {r})
         IN /\ q.studentObligations = p.studentObligations
            /\ q.institutionObligations = p.institutionObligations
            /\ q.eligibilityGrounds = p.eligibilityGrounds
<1>1. r.kind = "obligation" /\ r.force \notin BindingForces
  BY DEF BuildProcedureModel, Obligations, OfKind
<1>2. /\ {x \in Obligations(rules \ {r}) : x.force \in BindingForces}
           = {x \in Obligations(rules) : x.force \in BindingForces}
      /\ OfKind(rules \ {r}, "eligibility_grounds") = OfKind(rules, "eligibility_grounds")
  BY <1>1 DEF Obligations, OfKind
<1> QED
  BY <1>2 DEF BuildProcedureModel

\* "Never gate state" (ProcedureModel.advisoryRules; AdvisoryNeverGates):
\* without one of its advisory rules a case has the same obligations,
\* eligibility, findings and forecasts.
THEOREM AdviceNeverGates == Spec => []AdvisoryNeverGates
<1>1. IsCompilation(compiled) => AdvisoryNeverGates
  <2> SUFFICES ASSUME IsCompilation(compiled), NEW r \in Procedure(compiled).advisoryRules
               PROVE  SameCase(Here, Trace(Without(r), log, evaluationAt))
    BY DEF AdvisoryNeverGates
  <2> DEFINE d == Without(r)
  <2>1. d.rules = compiled.rules \ {r} /\ d.constraints = compiled.constraints
    BY DEF IsCompilation, Without
  <2>2. r \in BuildProcedureModel(compiled.rules).advisoryRules
    BY DEF Procedure
  <2>3. /\ Procedure(d).studentObligations = Procedure(compiled).studentObligations
        /\ Procedure(d).institutionObligations = Procedure(compiled).institutionObligations
        /\ Procedure(d).eligibilityGrounds = Procedure(compiled).eligibilityGrounds
    BY <2>1, <2>2, WithoutAdvice DEF Procedure
  <2> HIDE DEF d
  <2>4. \A l, t : CaseState(Procedure(d), l, t) = CaseState(Procedure(compiled), l, t)
    BY <2>3, StateOfBinding
  <2>5. \A state, id : ObligationRow(Procedure(d), state, id)
                         = ObligationRow(Procedure(compiled), state, id)
    BY <2>3 DEF ObligationRow
  <2>6. \A l : Findings(d, l) = Findings(compiled, l)
    BY <2>1 DEF Findings
  <2>7. \A l, t : Standing(d, l, t) = Standing(compiled, l, t)
    BY <2>4, <2>6 DEF Standing
  <2>8. \A l, t, s : /\ Evaluated(d, l, t, s).outcome = Evaluated(compiled, l, t, s).outcome
                     /\ Evaluated(d, l, t, s).changes = Evaluated(compiled, l, t, s).changes
    BY <2>7 DEF Evaluated, Compared, Reported
  <2>9. ASSUME NEW s \in Asked, Here.forecast[s].status = "evaluated"
        PROVE  /\ Trace(d, log, evaluationAt).forecast[s].outcome = Here.forecast[s].outcome
               /\ Trace(d, log, evaluationAt).forecast[s].changes = Here.forecast[s].changes
    <3>1. /\ Here.forecast[s] = ForecastPoint(compiled, log, evaluationAt, s)
          /\ Trace(d, log, evaluationAt).forecast[s] = ForecastPoint(d, log, evaluationAt, s)
      BY DEF Here, Trace
    <3>2. Valid(log, s)
      BY <2>9, <3>1 DEF ForecastPoint
    <3> QED
      BY <2>8, <3>1, <3>2 DEF ForecastPoint
  <2>10. /\ Trace(d, log, evaluationAt).obligations = Here.obligations
         /\ Trace(d, log, evaluationAt).eligibility = Here.eligibility
         /\ Trace(d, log, evaluationAt).findings = Here.findings
    BY <2>1, <2>4, <2>5 DEF Here, Trace
  <2> QED
    BY <2>9, <2>10 DEF d, SameCase
<1>2. IInv => IsCompilation(compiled)
  BY TwinAssumption DEF IInv, IsCompilation
<1> QED
  BY <1>1, <1>2, SpecIInv, PTL

-----------------------------------------------------------------------------
(* The summary *)

\* The summary carries every obligation with its status and every limit that the
\* trace lists.
LEMMA SummaryCarries ==
  ASSUME NEW tr
  PROVE  /\ \A id \in DOMAIN tr.obligations :
              <<"obligation", id, tr.obligations[id].status>> \in Summary(tr)
         /\ \A u \in tr.uncertainty : <<"undetermined", u>> \in Summary(tr)
BY DEF Summary, Rows

LEMMA DeviationIsTold ==
  ASSUME NEW d \in Deviations(compiled, log, Now)
  PROVE  Told(d, Summary(Here))
<1> DEFINE p == Procedure(compiled)
           WithStatus(s) == {id \in DOMAIN Now.status : Now.status[id] = s}
<1>1. /\ DOMAIN Here.obligations = DOMAIN Now.status
      /\ \A id \in DOMAIN Now.status : Here.obligations[id].status = Now.status[id]
      /\ Here.uncertainty = Uncertainty(compiled, log, Now)
  BY DEF Here, Now, Trace, ObligationRow
<1>2. CASE d \in {<<MissedBy(p, id), id>> : id \in WithStatus("missed")}
  <2>1. PICK id \in WithStatus("missed") : d = <<MissedBy(p, id), id>>
    BY <1>2
  <2>2. <<"obligation", id, "missed">> \in Summary(Here)
    BY <1>1, <2>1, SummaryCarries
  <2> QED
    BY <2>1, <2>2 DEF Told, MissedBy
<1>3. CASE d \in {<<"NORMAL_WAITING", id>> : id \in WithStatus("pending")}
  <2>1. PICK id \in WithStatus("pending") : d = <<"NORMAL_WAITING", id>>
    BY <1>3
  <2>2. <<"obligation", id, "pending">> \in Summary(Here)
    BY <1>1, <2>1, SummaryCarries
  <2> QED
    BY <2>1, <2>2 DEF Told
<1>4. CASE d \in {<<"STUDENT_REQUIREMENT_MISSING", g.id>> : g \in MissingEvidence(p, log)}
  BY <1>4 DEF Told
<1>5. ASSUME NEW kind, <<kind, d[2]>> \in Uncertainty(compiled, log, Now),
             d[1] \in {"CONFLICTING_RULES", "MISSING_SOURCE_EVIDENCE", "POLICY_SOURCE_AMBIGUITY"}
      PROVE  Told(d, Summary(Here))
  <2>1. <<"undetermined", <<kind, d[2]>>>> \in Summary(Here)
    BY <1>1, <1>5, SummaryCarries
  <2> QED
    BY <1>5, <2>1 DEF Told
<1>6. CASE d \in {<<"CONFLICTING_RULES", conflict>> : conflict \in DetectConflicts(compiled.rules)}
  <2>1. PICK conflict \in DetectConflicts(compiled.rules) : d = <<"CONFLICTING_RULES", conflict>>
    BY <1>6
  <2>2. <<"SOURCE_CONFLICT", conflict>> \in Uncertainty(compiled, log, Now)
    BY DEF Uncertainty
  <2> QED
    BY <1>5, <2>1, <2>2
<1>7. CASE d \in {<<"MISSING_SOURCE_EVIDENCE", claim>> : claim \in compiled.refused}
  <2>1. PICK claim \in compiled.refused : d = <<"MISSING_SOURCE_EVIDENCE", claim>>
    BY <1>7
  <2>2. <<"REJECTED_CLAIM", claim>> \in Uncertainty(compiled, log, Now)
    BY DEF Uncertainty
  <2> QED
    BY <1>5, <2>1, <2>2
<1>8. CASE d[1] = "POLICY_SOURCE_AMBIGUITY"
  BY <1>5, <1>8 DEF Uncertainty
<1> QED
  BY <1>2, <1>3, <1>4, <1>6, <1>7, <1>8 DEF Deviations

\* A reader of the summary learns of every deviation but the missing evidence,
\* and the evidence repeats what the summary determines
\* (renderRecourseTraceMarkdown; SummaryTellsDeviations).
THEOREM SummaryIsComplete == Spec => []SummaryTellsDeviations
<1>1. {s \in Summary(Here) : s[1] # "undetermined"} \subseteq Evidence(Here)
  BY DEF Summary, Evidence
<1>2. SummaryTellsDeviations
  BY <1>1, DeviationIsTold DEF SummaryTellsDeviations, TellsDeviations
<1> QED
  BY <1>2, PTL

-----------------------------------------------------------------------------
(* The list of limits *)

\* What a trace says is missing, and what a forecast may wait for, is the same.
LEMMA GapsAreWaits ==
  ASSUME NEW c, NEW l, NEW state
  PROVE  /\ Missing(Uncertainty(c, l, state)) = Gaps(state, l, c.constraints)
         /\ Gaps(state, l, c.constraints) = {} <=> ~Waiting(state, Findings(c, l))
<1> DEFINE gaps == Gaps(state, l, c.constraints)
           kinds == {"MISSING_EVENT_OR_FACT", "UNRESOLVED_EXCEPTION"}
<1>1. \A u \in gaps : u[1] \in kinds
  BY DEF Gaps
<1>2. \A u \in Uncertainty(c, l, state) \ gaps : u[1] \notin kinds
  BY DEF Uncertainty, AuthorityUncertainty
<1>3. gaps \subseteq Uncertainty(c, l, state)
  BY DEF Uncertainty
<1>4. gaps = {} <=> ~Waiting(state, Findings(c, l))
  BY DEF Gaps, Waiting, Findings
<1> QED
  BY <1>1, <1>2, <1>3, <1>4 DEF Missing

\* Where a scenario moves nothing, the forecast waits for something exactly when
\* the trace names what is missing (forecast.ts, classify, and recourseTrace.ts,
\* collectUncertainty; ForecastNamesTheGap).
THEOREM ForecastsNameTheGap == Spec => []ForecastNamesTheGap
<1>1. IInv => ForecastNamesTheGap
  <2> SUFFICES ASSUME IInv, NEW s \in Asked, Here.forecast[s].status = "evaluated"
               PROVE  NamesTheGap(Here.forecast[s], Missing(Here.uncertainty))
    BY DEF ForecastNamesTheGap, GapsNamed
  <2> DEFINE p == Procedure(compiled)
             simulated == Simulated(log, s)
             before == Standing(compiled, All(log), evaluationAt)
             after == Standing(compiled, simulated, s.at)
             point == Here.forecast[s]
             changes == Changes(before.state, after.state, before.findings, after.findings)
  <2>1. point = ForecastPoint(compiled, log, evaluationAt, s)
        /\ Here.uncertainty = Uncertainty(compiled, log, Now)
    BY DEF Here, Trace, Now
  <2>2. point.outcome = Classify(changes, after.state, after.findings)
    <3>1. point = Compared(compiled, simulated, s, before, after)
      BY <2>1 DEF ForecastPoint, Evaluated
    <3> HIDE DEF point, before, after, simulated
    <3> QED
      BY <3>1 DEF Compared, Reported
  <2>3. before.state = Now /\ before.findings = Findings(compiled, log)
    <3>1. log \in Seq(Event) /\ compiled \in Compilations
      BY DEF IInv
    <3>2. All(log) \in Seq(Event) /\ Range(All(log)) = Range(log) /\ SameFacts(All(log), log)
      BY <3>1, AllHasTheFacts
    <3>3. CaseState(p, All(log), evaluationAt) = Now
      BY <3>1, <3>2, SameFactsSameCase DEF Now
    <3>4. Findings(compiled, All(log)) = Findings(compiled, log)
      BY <3>1, <3>2, SameFactsSameFindings
    <3> QED
      BY <3>3, <3>4 DEF Standing
  <2>4. /\ DOMAIN before.state.status = DOMAIN after.state.status
        /\ DOMAIN before.findings = DOMAIN after.findings
    BY DEF Standing, CaseState, Findings
  <2> HIDE DEF before, after, simulated, point
  <2>5. ASSUME changes = {}
        PROVE  Waiting(after.state, after.findings) <=> Waiting(before.state, before.findings)
    <3>1. \A id \in DOMAIN after.state.status : before.state.status[id] = after.state.status[id]
      BY <2>5 DEF Changes
    <3>2. \A r \in DOMAIN after.findings : before.findings[r] = after.findings[r]
      BY <2>5 DEF Changes
    <3> QED
      BY <2>4, <3>1, <3>2 DEF Waiting
  <2>6. point.outcome \in {"CONDITIONAL_ON_FUTURE_EVENT", "STATE_UNCHANGED"} =>
          /\ changes = {}
          /\ point.outcome = "CONDITIONAL_ON_FUTURE_EVENT" <=> Waiting(after.state, after.findings)
    <3> HIDE DEF changes
    <3> QED
      BY <2>2 DEF Classify
  <2>7. Missing(Here.uncertainty) = {} <=> ~Waiting(before.state, before.findings)
    BY <2>1, <2>3, GapsAreWaits
  <2> QED
    BY <2>5, <2>6, <2>7 DEF NamesTheGap, point
<1> QED
  BY <1>1, SpecIInv, PTL

-----------------------------------------------------------------------------
(* What is settled *)

\* The log before its last entry was recorded.
LEMMA BeforeTheLast ==
  ASSUME NEW l \in Seq(Event), l # <<>>
  PROVE  /\ SubSeq(l, 1, Len(l) - 1) \in Seq(Event) /\ l[Len(l)] \in Event
         /\ l = Append(SubSeq(l, 1, Len(l) - 1), l[Len(l)])
         /\ \A i \in DOMAIN SubSeq(l, 1, Len(l) - 1) :
              i \in DOMAIN l /\ SubSeq(l, 1, Len(l) - 1)[i] = l[i]
<1>1. PICK s \in Seq(Event), e \in Event : l = Append(s, e)
  BY SequenceEmptyOrAppend
<1>2. /\ Len(s) \in Nat /\ Len(l) = Len(s) + 1 /\ l[Len(l)] = e /\ DOMAIN s = 1..Len(s)
      /\ \A i \in 1..Len(s) : l[i] = s[i] /\ i \in DOMAIN l /\ s[i] \in Event
  BY <1>1
<1>3. SubSeq(l, 1, Len(l) - 1) = s
  <2> DEFINE earlier == SubSeq(l, 1, Len(s))
  <2>1. /\ earlier \in Seq(Event) /\ Len(earlier) = Len(s)
        /\ \A i \in 1..Len(s) : earlier[i] = s[i]
    BY <1>2, SubSeqProperties
  <2> HIDE DEF earlier
  <2>2. earlier = s
    BY <2>1, SeqEqual
  <2>3. Len(l) - 1 = Len(s)
    BY <1>2
  <2> QED
    BY <2>2, <2>3 DEF earlier
<1> QED
  BY <1>1, <1>2, <1>3

\* A ground once asserted decides, whatever is recorded of later times.
LEMMA EligibilityIsFinal ==
  ASSUME NEW l \in Seq(Event), NEW e \in Event, \A i \in DOMAIN l : l[i].at <= e.at, NEW p,
         OfType(l, "ground_asserted") # {}
  PROVE  Eligibility(p, Append(l, e)) = Eligibility(p, l)
<1> DEFINE t == "ground_asserted"
           m == Append(l, e)
<1>1. First(m, t) = First(l, t) /\ m[First(l, t)] = l[First(l, t)]
  BY EventsAreDated, FirstStaysFirst
<1>2. OfType(m, t) # {}
  BY EventsAreDated, AppendedTypes
<1>3. m[Asserted(m)] = l[Asserted(l)]
  BY <1>1 DEF Asserted
<1> HIDE DEF m
<1> QED
  BY <1>2, <1>3 DEF Eligibility, m

\* What is open after a fact that came after all others was open before it.
LEMMA NothingReopens ==
  ASSUME IInv, NEW l \in Seq(Event), NEW e \in Event, \A i \in DOMAIN l : l[i].at <= e.at
  PROVE  Settled(Append(l, e)).open \subseteq Settled(l).open
<1> DEFINE m == Append(l, e)
           p == Procedure(compiled)
           now == CaseState(p, l, evaluationAt)
           then == CaseState(p, m, evaluationAt)
           before == Uncertainty(compiled, l, now)
           after == Uncertainty(compiled, m, then)
<1>1. compiled \in Compilations /\ m \in Seq(Event)
  BY DEF IInv
<1>2. /\ now.eligibility = Eligibility(p, l) /\ then.eligibility = Eligibility(p, m)
      /\ DOMAIN now.status = Ids(Bound(p)) /\ DOMAIN then.status = Ids(Bound(p))
      /\ \A id \in Ids(Bound(p)) :
           /\ now.status[id] = Status(p, l, evaluationAt, id, DueAt(p, l)[id])
           /\ then.status[id] = Status(p, m, evaluationAt, id, DueAt(p, m)[id])
  BY DEF CaseState
<1>3. ASSUME NEW id \in Ids(Bound(p)), then.status[id] = "unknown"
      PROVE  now.status[id] = "unknown"
  <2>1. id \in Rule
    BY <1>1, ObligationsAreRules
  <2>2. DueAt(p, m)[id] = NoDate
    BY <1>2, <1>3 DEF Status
  <2>3. DueAt(p, l)[id] = NoDate
    <3>1. Earlier(FirstTimes(l), FirstTimes(m))
      BY RecordedIsEarlier
    <3>2. DueAt(p, l)[id] # NoDate => DueAt(p, m)[id] # NoDate
      BY <1>1, <2>1, <3>1, FirstTimesAreDates, DueAtIsDue, DueDatesEarlier
    <3> QED
      BY <2>2, <3>2
  <2> QED
    BY <1>2, <2>3 DEF Status
<1>4. ASSUME NEW r \in compiled.constraints, Finding(r, m) = "UNDETERMINED"
      PROVE  Finding(r, l) = "UNDETERMINED"
  <2>1. r.kind \in Kinds
    BY <1>1, TwinAssumption DEF Kinds
  <2> HIDE DEF m
  <2> QED
    BY <1>4, <2>1, EventsAreDated, FindingIsFinal DEF m
<1>5. EligibilityOpen(p, then) => EligibilityOpen(p, now)
  <2>1. CASE OfType(l, "ground_asserted") # {}
    BY <1>2, <2>1, EligibilityIsFinal DEF EligibilityOpen
  <2>2. CASE OfType(l, "ground_asserted") = {}
    BY <1>2, <2>2 DEF EligibilityOpen, Eligibility
  <2> QED
    BY <2>1, <2>2
<1> HIDE DEF now, then, m, p
<1>6. ASSUME NEW u \in Gaps(then, m, compiled.constraints)
      PROVE  \E v \in Gaps(now, l, compiled.constraints) : v[2] = u[2]
  <2>1. CASE \E id \in DOMAIN then.status : then.status[id] = "unknown" /\ u = <<"MISSING_EVENT_OR_FACT", id>>
    BY <1>2, <1>3, <2>1 DEF Gaps
  <2>2. CASE \E r \in compiled.constraints : Finding(r, m) = "UNDETERMINED" /\ u[2] = r
    <3>1. PICK r \in compiled.constraints : Finding(r, m) = "UNDETERMINED" /\ u[2] = r
      BY <2>2
    <3> DEFINE v == <<IF ExceptionState(r, l) = "UNRESOLVED" THEN "UNRESOLVED_EXCEPTION"
                      ELSE "MISSING_EVENT_OR_FACT", r>>
    <3>2. v \in Gaps(now, l, compiled.constraints)
      BY <1>4, <3>1 DEF Gaps
    <3> QED
      BY <3>1, <3>2
  <2> QED
    BY <2>1, <2>2 DEF Gaps
<1>7. ASSUME NEW d \in Deviations(compiled, m, then), d[1] = "POLICY_SOURCE_AMBIGUITY"
      PROVE  d \in Deviations(compiled, l, now)
  <2>1. \/ d \in {<<"POLICY_SOURCE_AMBIGUITY", note>> : note \in compiled.ambiguities}
        \/ EligibilityOpen(p, then) /\ d = <<"POLICY_SOURCE_AMBIGUITY", GroundOpen>>
    BY <1>7 DEF Deviations, MissedBy, p
  <2> QED
    BY <1>5, <2>1 DEF Deviations, p
<1>8. ASSUME NEW u \in after
      PROVE  \E v \in before : v[2] = u[2]
  <2>1. CASE u \in Gaps(then, m, compiled.constraints)
    BY <1>6, <2>1 DEF Uncertainty
  <2>2. CASE \E d \in Deviations(compiled, m, then) :
               d[1] = "POLICY_SOURCE_AMBIGUITY" /\ u = <<"SOURCE_CONFLICT", d[2]>>
    BY <1>7, <2>2 DEF Uncertainty
  <2>3. CASE u \notin Gaps(then, m, compiled.constraints)
             /\ ~ \E d \in Deviations(compiled, m, then) :
                    d[1] = "POLICY_SOURCE_AMBIGUITY" /\ u = <<"SOURCE_CONFLICT", d[2]>>
    BY <2>3 DEF Uncertainty
  <2> QED
    BY <2>1, <2>2, <2>3
<1>9. Settled(m).open = {u[2] : u \in after} /\ Settled(l).open = {u[2] : u \in before}
  BY DEF Settled, now, then, p
<1> HIDE DEF before, after
<1>10. Settled(m).open \subseteq Settled(l).open
  BY <1>8, <1>9
<1> QED
  BY <1>10 DEF m

\* While facts are recorded in the order they occurred, what a trace has
\* determined stays determined (recourseTrace.ts, collectUncertainty, and
\* caseTwin.ts, determineEligibility; SettlesForGood).
THEOREM TracesSettle == Spec => []SettlesForGood
<1>1. IInv => SettlesForGood
  <2> DEFINE earlier == SubSeq(log, 1, Len(log) - 1)
             last == log[Len(log)]
             settled == [l \in {log, earlier} |-> Settled(l)]
  <2> SUFFICES ASSUME IInv, log # <<>>, \A i \in DOMAIN log : log[i].at <= last.at
               PROVE  /\ settled[log].open \subseteq settled[earlier].open
                      /\ OfType(earlier, "ground_asserted") # {}
                         => settled[log].eligibility = settled[earlier].eligibility
    BY DEF SettlesForGood
  <2>1. /\ earlier \in Seq(Event) /\ last \in Event /\ log = Append(earlier, last)
        /\ \A i \in DOMAIN earlier : i \in DOMAIN log /\ earlier[i] = log[i]
    BY BeforeTheLast DEF IInv
  <2>2. settled[log] = Settled(log) /\ settled[earlier] = Settled(earlier)
    OBVIOUS
  <2> HIDE DEF earlier, last, settled
  <2>3. \A i \in DOMAIN earlier : earlier[i].at <= last.at
    BY <2>1
  <2>4. Settled(log).open \subseteq Settled(earlier).open
    BY <2>1, <2>3, NothingReopens
  <2>5. \A l : Settled(l).eligibility = Eligibility(Procedure(compiled), l)
    BY DEF Settled, CaseState
  <2>6. OfType(earlier, "ground_asserted") # {} => Settled(log).eligibility = Settled(earlier).eligibility
    BY <2>1, <2>3, <2>5, EligibilityIsFinal
  <2> QED
    BY <2>2, <2>4, <2>6
<1> QED
  BY <1>1, SpecIInv, PTL

-----------------------------------------------------------------------------
(* The order of recording *)

\* The positions of a log that another one continues.
LEMMA JoinedLogs ==
  ASSUME NEW x \in Seq(Event), NEW h \in Seq(Event)
  PROVE  LET n == Len(x)
             l == x \o h
         IN /\ n \in Nat /\ l \in Seq(Event)
            /\ \A i \in DOMAIN x : i \in DOMAIN l /\ l[i] = x[i]
            /\ \A j \in DOMAIN h : n + j \in DOMAIN l /\ l[n + j] = h[j]
            /\ \A k \in DOMAIN l : k \in DOMAIN x \/ (k - n \in DOMAIN h /\ k = n + (k - n))
            /\ \A i \in DOMAIN x, j \in DOMAIN h : i < n + j
<1> DEFINE n == Len(x)
           l == x \o h
<1>1. /\ l \in Seq(Event) /\ Len(l) = n + Len(h)
      /\ \A i \in 1..(n + Len(h)) : l[i] = IF i <= n THEN x[i] ELSE h[i - n]
  BY ConcatProperties
<1>2. n \in Nat /\ Len(h) \in Nat /\ DOMAIN x = 1..n /\ DOMAIN h = 1..Len(h)
  OBVIOUS
<1> HIDE DEF l, n
<1>3. DOMAIN l = 1..(n + Len(h))
  BY <1>1
<1>4. \A i \in DOMAIN x : i \in DOMAIN l /\ l[i] = x[i]
  BY <1>1, <1>2, <1>3
<1>5. ASSUME NEW j \in DOMAIN h
      PROVE  n + j \in DOMAIN l /\ l[n + j] = h[j]
  <2>1. n + j \in 1..(n + Len(h)) /\ ~(n + j <= n) /\ (n + j) - n = j
    BY <1>2
  <2> QED
    BY <1>1, <1>3, <2>1
<1>6. \A k \in DOMAIN l : k \in DOMAIN x \/ (k - n \in DOMAIN h /\ k = n + (k - n))
  BY <1>2, <1>3
<1>7. \A i \in DOMAIN x, j \in DOMAIN h : i < n + j
  BY <1>2
<1> QED
  BY <1>1, <1>2, <1>4, <1>5, <1>6, <1>7 DEF l, n

\* What occurred first in a log and its continuation: the continuation's first
\* event only where the log has none, or a later one.
LEMMA FirstOfJoined ==
  ASSUME NEW x \in Seq(Event), NEW h \in Seq(Event), NEW t, OfType(x \o h, t) # {}
  PROVE  LET f == x[First(x, t)]
             g == h[First(h, t)]
         IN (x \o h)[First(x \o h, t)]
              = IF OfType(x, t) = {} \/ (OfType(h, t) # {} /\ g.at < f.at) THEN g ELSE f
<1> DEFINE n == Len(x)
           l == x \o h
           f == x[First(x, t)]
           g == h[First(h, t)]
<1>1. /\ n \in Nat /\ l \in Seq(Event)
      /\ \A i \in DOMAIN x : i \in DOMAIN l /\ l[i] = x[i]
      /\ \A j \in DOMAIN h : n + j \in DOMAIN l /\ l[n + j] = h[j]
      /\ \A k \in DOMAIN l : k \in DOMAIN x \/ (k - n \in DOMAIN h /\ k = n + (k - n))
      /\ \A i \in DOMAIN x, j \in DOMAIN h : i < n + j
  BY JoinedLogs
<1>2. /\ \A i \in DOMAIN x : i \in Nat /\ x[i].at \in Nat
      /\ \A j \in DOMAIN h : j \in Nat /\ h[j].at \in Nat
  BY EventsAreDated, LogEntries
<1>3. OfType(l, t) # {}
  OBVIOUS
<1> HIDE DEF l, n
<1>4. /\ OfType(x, t) # {} => IsFirst(x, t, First(x, t)) /\ First(x, t) \in DOMAIN x
      /\ OfType(h, t) # {} => IsFirst(h, t, First(h, t)) /\ First(h, t) \in DOMAIN h
  BY EventsAreDated, FirstsExist
<1>5. /\ \A k \in OfType(x, t) : f.at <= x[k].at
      /\ \A k \in OfType(h, t) : g.at <= h[k].at
  <2>1. ASSUME NEW z \in Seq(Event), NEW k \in OfType(z, t), NEW i \in DOMAIN z, IsFirst(z, t, i)
        PROVE  z[i].at <= z[k].at
    <3>1. k \in DOMAIN z /\ z[i].at \in Nat /\ z[k].at \in Nat
      BY EventsAreDated, LogEntries DEF OfType
    <3> QED
      BY <2>1, <3>1 DEF IsFirst, Before
  <2> QED
    BY <1>4, <2>1
<1>6. ASSUME NEW k \in OfType(l, t)
      PROVE  k \in OfType(x, t) \/ (k - n \in OfType(h, t) /\ k = n + (k - n))
  BY <1>1, <1>6 DEF OfType
<1>7. CASE OfType(x, t) = {} \/ (OfType(h, t) # {} /\ g.at < f.at)
  <2>1. OfType(h, t) # {}
    BY <1>3, <1>6, <1>7
  <2> DEFINE j == First(h, t)
             q == n + j
  <2>2. IsFirst(h, t, j) /\ j \in DOMAIN h
    BY <1>4, <2>1
  <2>3. q \in OfType(l, t) /\ l[q] = h[j]
    BY <1>1, <2>2 DEF OfType, IsFirst
  <2>4. ASSUME NEW k \in OfType(l, t) \ {q}
        PROVE  Before(l, q, k)
    <3>1. CASE k \in OfType(x, t)
      <4>1. g.at < f.at /\ f.at <= x[k].at /\ l[k] = x[k] /\ l[q].at = g.at
        BY <1>1, <1>5, <1>7, <2>3, <3>1 DEF OfType
      <4>2. g.at \in Nat /\ f.at \in Nat /\ x[k].at \in Nat
        BY <1>2, <1>4, <2>2, <3>1 DEF OfType
      <4> QED
        BY <4>1, <4>2 DEF Before
    <3>2. CASE k - n \in OfType(h, t) /\ k = n + (k - n)
      <4> DEFINE i == k - n
      <4>1. i \in OfType(h, t) \ {j} /\ i \in DOMAIN h /\ k = n + i
        BY <2>4, <3>2 DEF OfType
      <4> HIDE DEF i, j
      <4>2. Before(h, j, i)
        BY <2>2, <4>1 DEF IsFirst
      <4>3. l[k] = h[i] /\ i \in Nat /\ j \in Nat
        BY <1>1, <1>2, <2>2, <4>1
      <4> QED
        BY <1>1, <2>3, <4>1, <4>2, <4>3 DEF Before
    <3> QED
      BY <1>6, <2>4, <3>1, <3>2
  <2>5. First(l, t) = q
    BY <1>1, <2>3, <2>4, EventsAreDated, FirstIsUnique DEF IsFirst
  <2> QED
    BY <1>7, <2>3, <2>5 DEF l
<1>8. CASE OfType(x, t) # {} /\ (OfType(h, t) = {} \/ ~(g.at < f.at))
  <2> DEFINE q == First(x, t)
  <2>1. IsFirst(x, t, q) /\ q \in DOMAIN x
    BY <1>4, <1>8
  <2>2. q \in OfType(l, t) /\ l[q] = x[q]
    BY <1>1, <2>1 DEF OfType, IsFirst
  <2> HIDE DEF q
  <2>3. ASSUME NEW k \in OfType(l, t) \ {q}
        PROVE  Before(l, q, k)
    <3>1. CASE k \in OfType(x, t)
      BY <1>1, <2>1, <2>2, <2>3, <3>1 DEF IsFirst, OfType, Before
    <3>2. CASE k - n \in OfType(h, t) /\ k = n + (k - n)
      <4> DEFINE i == k - n
      <4>1. i \in OfType(h, t) /\ i \in DOMAIN h /\ k = n + i
        BY <3>2 DEF OfType
      <4> HIDE DEF i
      <4>2. ~(g.at < f.at) /\ g.at <= h[i].at /\ l[k] = h[i] /\ l[q] = f /\ q < k
        BY <1>1, <1>5, <1>8, <2>1, <2>2, <4>1 DEF q
      <4>3. g.at \in Nat /\ f.at \in Nat /\ h[i].at \in Nat
        BY <1>2, <1>4, <1>8, <4>1
      <4>4. l[q].at <= l[k].at /\ l[q].at \in Nat /\ l[k].at \in Nat
        BY <4>2, <4>3
      <4> QED
        BY <4>2, <4>4 DEF Before
    <3> QED
      BY <1>6, <2>3, <3>1, <3>2
  <2>4. First(l, t) = q
    BY <1>1, <2>2, <2>3, EventsAreDated, FirstIsUnique DEF IsFirst
  <2> QED
    BY <1>8, <2>2, <2>4 DEF l, q
<1> QED
  BY <1>7, <1>8

\* Where two logs of the same facts are continued alike, the facts stay the same.
LEMMA SameFactsContinue ==
  ASSUME NEW x \in Seq(Event), NEW y \in Seq(Event), SameFacts(x, y), NEW h \in Seq(Event)
  PROVE  SameFacts(x \o h, y \o h)
<1> DEFINE t == "ground_asserted"
           l == x \o h
           m == y \o h
<1>1. Range(x) = Range(y)
  BY DEF SameFacts
<1>2. Range(l) = Range(m)
  <2>1. Range(l) = Range(x) \cup Range(h) /\ Range(m) = Range(y) \cup Range(h)
    BY RangeConcatenation
  <2> QED
    BY <1>1, <2>1
<1>3. ASSUME OfType(l, t) # {}
      PROVE  l[First(l, t)] = m[First(m, t)]
  <2>1. OfType(m, t) # {}
    <3> HIDE DEF l, m
    <3> QED
      BY <1>2, <1>3, TypesInRange
  <2>2. OfType(x, t) = {} <=> OfType(y, t) = {}
    BY <1>1, TypesInRange
  <2>3. OfType(x, t) # {} => x[First(x, t)] = y[First(y, t)]
    BY DEF SameFacts, Asserted
  <2> DEFINE joined(z) == IF OfType(z, t) = {} \/ (OfType(h, t) # {} /\ h[First(h, t)].at < z[First(z, t)].at)
                          THEN h[First(h, t)] ELSE z[First(z, t)]
  <2>4. l[First(l, t)] = joined(x)
    BY <1>3, FirstOfJoined
  <2>5. m[First(m, t)] = joined(y)
    BY <2>1, FirstOfJoined
  <2>6. joined(x) = joined(y)
    BY <2>2, <2>3
  <2> QED
    BY <2>4, <2>5, <2>6
<1> HIDE DEF l, m
<1> QED
  BY <1>2, <1>3 DEF SameFacts, Asserted, l, m

IsRecord(g) == g = [k \in DOMAIN g |-> g[k]]

LEMMA EventsReplaced ==
  ASSUME NEW g, NEW h, IsRecord(g), IsRecord(h), DOMAIN g = DOMAIN h, "events" \in DOMAIN g,
         \A k \in DOMAIN g \ {"events"} : g[k] = h[k]
  PROVE  h = [g EXCEPT !.events = h.events]
BY DEF IsRecord

\* A trace depends on a log through its facts, except for the list of them.
LEMMA SameFactsSameTrace ==
  ASSUME NEW l \in Seq(Event), NEW m \in Seq(Event), SameFacts(l, m),
         NEW c \in Compilations, NEW t
  PROVE  Trace(c, m, t) = [Trace(c, l, t) EXCEPT !.events = All(m)]
<1> DEFINE p == Procedure(c)
           state(x) == CaseState(p, x, t)
           obligations(x) == [id \in DOMAIN state(x).status |-> ObligationRow(p, state(x), id)]
           findings(x) == [r \in c.constraints |-> FindingRow(r, x)]
           points(x) == [s \in Asked |-> ForecastPoint(c, x, t, s)]
           limits(x) == Uncertainty(c, x, state(x))
<1>1. Range(l) = Range(m) /\ \A u : FirstAt(l, u) = FirstAt(m, u)
  BY FirstAtOfFacts DEF SameFacts
<1>2. state(l) = state(m)
  BY SameFactsSameCase
<1>3. ASSUME NEW r \in c.constraints
      PROVE  Finding(r, l) = Finding(r, m) /\ ExceptionState(r, l) = ExceptionState(r, m)
  <2>1. r.kind \in Kinds
    BY TwinAssumption DEF Kinds
  <2>2. Constraint(r, l) = Constraint(r, m) /\ Finding(r, l) = Finding(r, m)
    BY <1>1, <2>1, FindingOfTimes
  <2> QED
    BY <1>1, <2>2 DEF ExceptionState
<1>4. findings(l) = findings(m)
  BY <1>1, <1>3 DEF FindingRow
<1>5. ASSUME NEW s \in Asked
      PROVE  ForecastPoint(c, l, t, s) = ForecastPoint(c, m, t, s)
  <2>1. Valid(l, s) <=> Valid(m, s)
    BY <1>1 DEF Valid
  <2> DEFINE a == Simulated(l, s)
             b == Simulated(m, s)
  <2>2. All(l) \in Seq(Event) /\ All(m) \in Seq(Event) /\ SameFacts(All(l), All(m))
    <3>1. /\ All(l) \in Seq(Event) /\ Range(All(l)) = Range(l) /\ SameFacts(All(l), l)
          /\ All(m) \in Seq(Event) /\ Range(All(m)) = Range(m) /\ SameFacts(All(m), m)
      BY AllHasTheFacts
    <3>2. SameFacts(All(l), All(m))
      BY <1>1, <3>1, TypesInRange DEF SameFacts
    <3> QED
      BY <3>1, <3>2
  <2>3. s.hypothetical \in Seq(Event)
    BY AskedAssumption
  <2>4. a \in Seq(Event) /\ b \in Seq(Event) /\ SameFacts(a, b) /\ Range(a) = Range(b)
    <3>1. a = All(l) \o s.hypothetical /\ b = All(m) \o s.hypothetical
      BY DEF Simulated
    <3> HIDE DEF a, b
    <3>2. a \in Seq(Event) /\ b \in Seq(Event)
      BY <2>2, <2>3, <3>1, ConcatProperties
    <3>3. SameFacts(a, b)
      BY <2>2, <2>3, <3>1, SameFactsContinue
    <3> QED
      BY <3>2, <3>3 DEF SameFacts
  <2> HIDE DEF a, b
  <2>5. Standing(c, All(l), t) = Standing(c, All(m), t)
    BY <2>2, SameFactsSameCase, SameFactsSameFindings DEF Standing, SameFacts
  <2>6. Standing(c, a, s.at) = Standing(c, b, s.at)
    BY <2>4, SameFactsSameCase, SameFactsSameFindings DEF Standing
  <2>7. \A w : Deviations(c, a, w) = Deviations(c, b, w)
    BY <2>4, SameFactsSameFindings
  <2>8. \A v, w : Compared(c, a, s, v, w) = Compared(c, b, s, v, w)
    BY <2>7 DEF Compared, Reported
  <2>9. Evaluated(c, l, t, s) = Evaluated(c, m, t, s)
    BY <2>5, <2>6, <2>8 DEF Evaluated, a, b
  <2> QED
    BY <2>1, <2>9 DEF ForecastPoint
<1>6. points(l) = points(m)
  BY <1>5
<1>7. limits(l) = limits(m)
  <2>1. Gaps(state(l), l, c.constraints) = Gaps(state(m), m, c.constraints)
    <3> HIDE DEF state
    <3>1. {r \in c.constraints : Finding(r, l) = "UNDETERMINED"}
            = {r \in c.constraints : Finding(r, m) = "UNDETERMINED"}
      BY <1>3
    <3> QED
      BY <1>2, <1>3, <3>1 DEF Gaps
  <2>2. \A w : Deviations(c, l, w) = Deviations(c, m, w)
    BY <1>1, SameFactsSameFindings
  <2> HIDE DEF state
  <2> QED
    BY <1>2, <2>1, <2>2 DEF Uncertainty
<1>8. obligations(l) = obligations(m)
  BY <1>2
<1> DEFINE actors == {r.actor : r \in c.rules \cup c.constraints}
           With(x, events) ==
             [authority |-> c.authority, validated |-> Ids(c.rules) \cup c.constraints,
              refused |-> c.refused \cup c.dropped, held |-> c.held, actors |-> actors,
              obligations |-> obligations(x), advisory |-> p.advisoryRules,
              grounds |-> p.eligibilityGrounds, eligibility |-> state(x).eligibility,
              conflicts |-> DetectConflicts(c.rules), events |-> events,
              findings |-> findings(x), forecast |-> points(x), uncertainty |-> limits(x)]
<1>9. \A x : Trace(c, x, t) = With(x, All(x))
  BY DEF Trace
<1>10. \A events : With(l, events) = With(m, events)
  <2> HIDE DEF state, obligations, findings, points, limits
  <2> QED
    BY <1>2, <1>4, <1>6, <1>7, <1>8
<1>11. With(l, All(m)) = [With(l, All(l)) EXCEPT !.events = All(m)]
  <2> HIDE DEF state, obligations, findings, points, limits, actors, p
  <2>1. \A x, y : With(l, y).events = y /\ IsRecord(With(l, x)) /\ "events" \in DOMAIN With(l, x)
    BY DEF IsRecord
  <2>2. \A x : DOMAIN With(l, x)
                 = {"authority", "validated", "refused", "held", "actors", "obligations", "advisory",
                    "grounds", "eligibility", "conflicts", "events", "findings", "forecast", "uncertainty"}
    OBVIOUS
  <2>3. ASSUME NEW x, NEW y, NEW k \in DOMAIN With(l, x) \ {"events"}
        PROVE  With(l, x)[k] = With(l, y)[k]
    <3>1. k \in {"authority", "validated", "refused", "held", "actors", "obligations", "advisory",
                 "grounds", "eligibility", "conflicts", "findings", "forecast", "uncertainty"}
      BY <2>2
    <3> DEFINE g == With(l, x)
               h == With(l, y)
    <3>2. /\ g.authority = h.authority /\ g.validated = h.validated /\ g.refused = h.refused
          /\ g.held = h.held /\ g.actors = h.actors /\ g.obligations = h.obligations
          /\ g.advisory = h.advisory /\ g.grounds = h.grounds /\ g.eligibility = h.eligibility
          /\ g.conflicts = h.conflicts /\ g.findings = h.findings /\ g.forecast = h.forecast
          /\ g.uncertainty = h.uncertainty
      OBVIOUS
    <3> HIDE DEF With
    <3> QED
      BY <3>1, <3>2
  <2> HIDE DEF With
  <2> QED
    BY <2>1, <2>2, <2>3, EventsReplaced
<1> HIDE DEF With
<1> QED
  BY <1>9, <1>10, <1>11

\* Where the entries k and k + 1 of a log go when they are exchanged.
Moved(k, i) == IF i = k THEN k + 1 ELSE IF i = k + 1 THEN k ELSE i

LEMMA ExchangeMoves ==
  ASSUME NEW l \in Seq(Event), NEW k \in 1..(Len(l) - 1)
  PROVE  /\ Exchanged(l, k) \in Seq(Event) /\ DOMAIN Exchanged(l, k) = DOMAIN l
         /\ Len(Exchanged(l, k)) = Len(l)
         /\ \A i \in DOMAIN l : /\ Moved(k, i) \in DOMAIN l /\ Moved(k, Moved(k, i)) = i
                                /\ Exchanged(l, k)[Moved(k, i)] = l[i]
         /\ \A i, j \in DOMAIN l :
              (l[k].at = l[k + 1].at => {i, j} # {k, k + 1})
              => (Before(Exchanged(l, k), Moved(k, i), Moved(k, j)) <=> Before(l, i, j))
<1> DEFINE m == Exchanged(l, k)
<1>1. /\ k \in DOMAIN l /\ k + 1 \in DOMAIN l /\ m \in Seq(Event) /\ DOMAIN m = DOMAIN l
      /\ m[k] = l[k + 1] /\ m[k + 1] = l[k]
      /\ \A i \in DOMAIN l \ {k, k + 1} : m[i] = l[i]
  BY ExchangedLog
<1>2. /\ Len(l) \in Nat /\ DOMAIN l = 1..Len(l) /\ k \in Nat
      /\ \A i \in DOMAIN l : i \in Nat /\ l[i].at \in Nat
  BY <1>1, EventsAreDated, LogEntries
<1>3. Len(m) = Len(l)
  BY <1>1, <1>2
<1> HIDE DEF m
<1>4. ASSUME NEW i \in DOMAIN l
      PROVE  Moved(k, i) \in DOMAIN l /\ Moved(k, Moved(k, i)) = i /\ m[Moved(k, i)] = l[i]
  BY <1>1, <1>2 DEF Moved
<1>5. ASSUME NEW i \in DOMAIN l, NEW j \in DOMAIN l, l[k].at = l[k + 1].at => {i, j} # {k, k + 1}
      PROVE  Before(m, Moved(k, i), Moved(k, j)) <=> Before(l, i, j)
  <2>1. m[Moved(k, i)] = l[i] /\ m[Moved(k, j)] = l[j]
    BY <1>4
  <2>2. l[i].at = l[j].at => (Moved(k, i) < Moved(k, j) <=> i < j)
    <3> SUFFICES ASSUME l[i].at = l[j].at
                 PROVE  Moved(k, i) < Moved(k, j) <=> i < j
      OBVIOUS
    <3>1. ~(i = k /\ j = k + 1) /\ ~(i = k + 1 /\ j = k)
      BY <1>5
    <3>2. i \in Nat /\ j \in Nat /\ k \in Nat
      BY <1>2
    <3>3. \/ i = k /\ Moved(k, i) = k + 1
          \/ i = k + 1 /\ Moved(k, i) = k
          \/ i \notin {k, k + 1} /\ Moved(k, i) = i
      BY DEF Moved
    <3>4. \/ j = k /\ Moved(k, j) = k + 1
          \/ j = k + 1 /\ Moved(k, j) = k
          \/ j \notin {k, k + 1} /\ Moved(k, j) = j
      BY DEF Moved
    <3> QED
      BY <3>1, <3>2, <3>3, <3>4
  <2> QED
    BY <2>1, <2>2 DEF Before
<1> QED
  BY <1>1, <1>3, <1>4, <1>5 DEF m

\* Exchanging two neighbours keeps the facts unless they are of one type and of
\* one instant.
LEMMA ExchangeKeepsFacts ==
  ASSUME NEW l \in Seq(Event), NEW k \in 1..(Len(l) - 1),
         l[k].type # l[k + 1].type \/ l[k].at # l[k + 1].at
  PROVE  SameFacts(l, Exchanged(l, k))
<1> DEFINE m == Exchanged(l, k)
           t == "ground_asserted"
           i == First(l, t)
<1>1. /\ m \in Seq(Event) /\ DOMAIN m = DOMAIN l
      /\ \A j \in DOMAIN l : /\ Moved(k, j) \in DOMAIN l /\ Moved(k, Moved(k, j)) = j
                             /\ m[Moved(k, j)] = l[j]
  BY ExchangeMoves
<1>2. Range(l) = Range(m)
  <2> HIDE DEF m
  <2>1. \A j \in DOMAIN l : m[j] = l[Moved(k, j)]
    BY <1>1
  <2> QED
    BY <1>1, <2>1 DEF Range
<1>3. SUFFICES ASSUME OfType(l, t) # {}
               PROVE  l[i] = m[First(m, t)]
  BY <1>2 DEF SameFacts, Asserted
<1>4. IsFirst(l, t, i) /\ i \in DOMAIN l /\ l[i].type = t
  BY <1>3, EventsAreDated, FirstsExist DEF IsFirst, OfType
<1>5. ASSUME NEW j \in OfType(m, t) \ {Moved(k, i)}
      PROVE  Before(m, Moved(k, i), j)
  <2> DEFINE q == Moved(k, j)
  <2>1. q \in DOMAIN l /\ Moved(k, q) = j /\ l[q] = m[j] /\ l[q].type = t
    <3> HIDE DEF m
    <3> QED
      BY <1>1, <1>5 DEF OfType
  <2>2. q # i
    BY <1>5, <2>1
  <2>3. Before(l, i, q)
    BY <1>4, <2>1, <2>2 DEF IsFirst, OfType
  <2>4. {i, q} = {k, k + 1} => l[k].type = l[k + 1].type
    <3> HIDE DEF i, q
    <3>1. k # k + 1
      OBVIOUS
    <3> QED
      BY <1>4, <2>1, <3>1
  <2> HIDE DEF i, q, m
  <2>5. Before(m, Moved(k, i), Moved(k, q)) <=> Before(l, i, q)
    BY <1>4, <2>1, <2>4, ExchangeMoves DEF m
  <2> QED
    BY <2>1, <2>3, <2>5
<1> HIDE DEF i, m
<1>6. Moved(k, i) \in OfType(m, t) /\ m[Moved(k, i)] = l[i]
  BY <1>1, <1>4 DEF OfType
<1>7. First(m, t) = Moved(k, i)
  BY <1>1, <1>5, <1>6, EventsAreDated, FirstIsUnique DEF IsFirst
<1> QED
  BY <1>6, <1>7

\* Exchanging two neighbours of different instants makes no difference to the
\* sorted log.
LEMMA ExchangeKeepsAll ==
  ASSUME NEW l \in Seq(Event), NEW k \in 1..(Len(l) - 1), l[k].at # l[k + 1].at
  PROVE  All(Exchanged(l, k)) = All(l)
<1> DEFINE m == Exchanged(l, k)
<1>1. /\ m \in Seq(Event) /\ DOMAIN m = DOMAIN l
      /\ \A i \in DOMAIN l : /\ Moved(k, i) \in DOMAIN l /\ Moved(k, Moved(k, i)) = i
                             /\ m[Moved(k, i)] = l[i]
      /\ \A i, j \in DOMAIN l : Before(m, Moved(k, i), Moved(k, j)) <=> Before(l, i, j)
  BY ExchangeMoves
<1>2. PICK order \in [DOMAIN l -> DOMAIN l] :
        /\ All(l) = [p \in DOMAIN l |-> l[order[p]]]
        /\ \A p \in DOMAIN l : Rank(l, order[p]) = p - 1
  BY AllIsSorted
<1>3. PICK place \in [DOMAIN m -> DOMAIN m] :
        /\ All(m) = [p \in DOMAIN m |-> m[place[p]]]
        /\ \A p \in DOMAIN m : Rank(m, place[p]) = p - 1
  BY <1>1, AllIsSorted
<1> HIDE DEF m
<1>4. ASSUME NEW i \in DOMAIN l
      PROVE  Rank(m, Moved(k, i)) = Rank(l, i)
  <2> DEFINE S == Predecessors(l, i)
             T == Predecessors(m, Moved(k, i))
             f == [j \in S |-> Moved(k, j)]
  <2>1. \A j \in DOMAIN l : j \in S <=> Moved(k, j) \in T
    BY <1>1, <1>4 DEF Predecessors
  <2>2. f \in Bijection(S, T)
    <3>1. S \subseteq DOMAIN l /\ T \subseteq DOMAIN l
      BY <1>1 DEF Predecessors
    <3> HIDE DEF S, T
    <3>2. \A j \in S : f[j] \in T /\ f[j] = Moved(k, j)
      BY <2>1, <3>1
    <3>3. \A j \in T : Moved(k, j) \in S /\ f[Moved(k, j)] = j
      BY <1>1, <2>1, <3>1
    <3>4. \A a, b \in S : f[a] = f[b] => a = b
      BY <1>1, <3>1, <3>2
    <3> QED
      BY <3>2, <3>3, <3>4 DEF Bijection, Injection, Surjection, IsInjective
  <2>3. IsFiniteSet(S)
    <3>1. DOMAIN l = 1..Len(l) /\ Len(l) \in Nat
      OBVIOUS
    <3>2. IsFiniteSet(DOMAIN l)
      BY <3>1, FS_Interval
    <3>3. S \in SUBSET DOMAIN l
      BY DEF Predecessors
    <3> HIDE DEF S
    <3> QED
      BY <3>2, <3>3, FS_Subset
  <2> HIDE DEF f, S, T
  <2>4. Cardinality(T) = Cardinality(S)
    BY <2>2, <2>3, FS_Bijection DEF ExistsBijection
  <2> QED
    BY <2>4 DEF Rank, S, T
<1>5. ASSUME NEW p \in DOMAIN l
      PROVE  m[place[p]] = l[order[p]]
  <2> DEFINE a == place[p]
             b == Moved(k, order[p])
  <2>1. order[p] \in DOMAIN l /\ a \in DOMAIN m /\ b \in DOMAIN m
    BY <1>1
  <2>2. Rank(m, a) = Rank(m, b)
    BY <1>1, <1>2, <1>3, <1>4, <2>1
  <2> HIDE DEF a, b
  <2>3. a = b
    <3>1. /\ Rank(m, a) \in Nat /\ Rank(m, b) \in Nat
          /\ Before(m, a, b) => Rank(m, a) < Rank(m, b)
          /\ Before(m, b, a) => Rank(m, b) < Rank(m, a)
          /\ a = b \/ Before(m, a, b) \/ Before(m, b, a)
      BY <1>1, <2>1, RankOrders
    <3> QED
      BY <2>2, <3>1
  <2> QED
    BY <1>1, <2>1, <2>3 DEF a, b
<1> QED
  BY <1>1, <1>2, <1>3, <1>5 DEF m

\* The same facts give the same trace, in whatever order several people recorded
\* them; facts of one instant are listed as recorded (CaseEventLog.all and
\* buildRecourseTrace; TraceReproducible).
THEOREM TracesAreReproducible == Spec => []TraceReproducible
<1>1. IInv => TraceReproducible
  <2> SUFFICES ASSUME IInv, NEW k \in 1..(Len(log) - 1)
               PROVE  Reproduced(k, Here, Trace(compiled, Swapped(k), evaluationAt))
    BY DEF TraceReproducible, ReproducedInAnyOrder
  <2> DEFINE m == Exchanged(log, k)
             other == Trace(compiled, m, evaluationAt)
  <2>1. Swapped(k) = m
    BY DEF Swapped, Exchanged
  <2>2. compiled \in Compilations /\ log \in Seq(Event) /\ m \in Seq(Event) /\ Len(m) = Len(log)
    BY ExchangeMoves DEF IInv
  <2>3. Here.events = All(log) /\ other.events = All(m)
    BY DEF Here, Trace
  <2>4. ASSUME log[k].at # log[k + 1].at \/ log[k].type # log[k + 1].type
        PROVE  SameFacts(log, m) /\ other = [Here EXCEPT !.events = All(m)]
    <3>1. SameFacts(log, m)
      BY <2>2, <2>4, ExchangeKeepsFacts
    <3> HIDE DEF m
    <3> QED
      BY <2>2, <3>1, SameFactsSameTrace DEF Here
  <2>5. IsRecord(Here) /\ "events" \in DOMAIN Here
    BY DEF Here, Trace, IsRecord
  <2>6. ASSUME log[k].at # log[k + 1].at
        PROVE  other = Here
    <3>1. All(m) = All(log)
      BY <2>2, <2>6, ExchangeKeepsAll
    <3> HIDE DEF m, other
    <3> QED
      BY <2>3, <2>4, <2>5, <2>6, <3>1 DEF IsRecord
  <2>7. ASSUME log[k].type # log[k + 1].type
        PROVE  /\ Range(other.events) = Range(Here.events)
               /\ [other EXCEPT !.events = Here.events] = Here
    <3>1. Range(All(m)) = Range(All(log))
      BY <2>2, <2>4, <2>7, AllHasTheFacts DEF SameFacts
    <3> HIDE DEF m, other
    <3> QED
      BY <2>3, <2>4, <2>5, <2>7, <3>1 DEF IsRecord
  <2> QED
    BY <2>1, <2>6, <2>7 DEF Reproduced
<1> QED
  BY <1>1, SpecIInv, PTL

-----------------------------------------------------------------------------
(* A batch handed in again *)

\* The end of a log, recorded again, adds no fact and moves no first occurrence.
LEMMA RetryKeepsFacts ==
  ASSUME NEW l \in Seq(Event), NEW i \in DOMAIN l
  PROVE  LET m == l \o SubSeq(l, i, Len(l))
         IN m \in Seq(Event) /\ SameFacts(l, m)
<1> DEFINE h == SubSeq(l, i, Len(l))
           m == l \o h
           t == "ground_asserted"
<1>1. Len(l) \in Nat /\ DOMAIN l = 1..Len(l) /\ \A j \in DOMAIN l : j \in Nat /\ l[j].at \in Nat
  BY EventsAreDated, LogEntries
<1>2. /\ h \in Seq(Event) /\ Len(h) = Len(l) - i + 1
      /\ \A j \in 1..(Len(l) - i + 1) : h[j] = l[i + j - 1]
  BY <1>1, SubSeqProperties
<1> HIDE DEF h
<1>3. \A j \in DOMAIN h : \E k \in DOMAIN l : h[j] = l[k]
  <2>1. ASSUME NEW j \in DOMAIN h
        PROVE  i + j - 1 \in DOMAIN l /\ h[j] = l[i + j - 1]
    <3>1. j \in 1..(Len(l) - i + 1)
      BY <1>2
    <3> QED
      BY <1>1, <1>2, <3>1
  <2> QED
    BY <2>1
<1>4. m \in Seq(Event) /\ Range(m) = Range(l)
  <2>1. m \in Seq(Event) /\ Range(m) = Range(l) \cup Range(h)
    BY <1>2, ConcatProperties, RangeConcatenation
  <2>2. Range(h) \subseteq Range(l)
    BY <1>3 DEF Range
  <2> QED
    BY <2>1, <2>2
<1>5. ASSUME OfType(l, t) # {}
      PROVE  l[First(l, t)] = m[First(m, t)]
  <2>1. OfType(m, t) # {}
    <3> HIDE DEF m
    <3> QED
      BY <1>4, <1>5, TypesInRange
  <2>2. IsFirst(l, t, First(l, t)) /\ First(l, t) \in DOMAIN l
    BY <1>5, EventsAreDated, FirstsExist
  <2>3. ASSUME OfType(h, t) # {}
        PROVE  ~(h[First(h, t)].at < l[First(l, t)].at)
    <3>1. First(h, t) \in OfType(h, t)
      BY <1>2, <2>3, EventsAreDated, FirstsExist DEF IsFirst
    <3>2. PICK k \in DOMAIN l : h[First(h, t)] = l[k]
      BY <1>3, <3>1 DEF OfType
    <3>3. k \in OfType(l, t)
      BY <3>1, <3>2 DEF OfType
    <3> QED
      BY <1>1, <2>2, <3>2, <3>3 DEF IsFirst, Before
  <2>4. m[First(m, t)] = IF OfType(l, t) = {} \/ (OfType(h, t) # {} /\ h[First(h, t)].at < l[First(l, t)].at)
                         THEN h[First(h, t)] ELSE l[First(l, t)]
    BY <1>2, <2>1, FirstOfJoined
  <2> QED
    BY <1>5, <2>3, <2>4
<1> HIDE DEF m
<1> QED
  BY <1>4, <1>5 DEF SameFacts, Asserted, m, h

\* A batch that failed half way and is handed in again leaves facts twice in the
\* log; what the trace says of the case is the same (caseStore.ts, appendAll, and
\* recourseTrace.ts, buildRecourseTrace; RetriesChangeNothing).
THEOREM RetriesAreHarmless == Spec => []RetriesChangeNothing
<1>1. IInv => RetriesChangeNothing
  <2> SUFFICES ASSUME IInv, NEW i \in DOMAIN log
               PROVE  LET again == Trace(compiled, Retried(i), evaluationAt)
                      IN /\ Range(again.events) = Range(Here.events)
                         /\ [again EXCEPT !.events = Here.events] = Here
    BY DEF RetriesChangeNothing, RetryChangesNothing
  <2> DEFINE m == Retried(i)
             again == Trace(compiled, m, evaluationAt)
  <2>1. compiled \in Compilations /\ log \in Seq(Event) /\ m \in Seq(Event) /\ SameFacts(log, m)
    BY RetryKeepsFacts DEF IInv, Retried
  <2>2. Here.events = All(log) /\ again.events = All(m)
    BY DEF Here, Trace
  <2>3. again = [Here EXCEPT !.events = All(m)]
    <3> HIDE DEF m
    <3> QED
      BY <2>1, SameFactsSameTrace DEF Here
  <2>4. IsRecord(Here) /\ "events" \in DOMAIN Here
    BY DEF Here, Trace, IsRecord
  <2>5. Range(All(m)) = Range(All(log))
    <3> HIDE DEF m
    <3> QED
      BY <2>1, AllHasTheFacts DEF SameFacts
  <2> HIDE DEF m, again
  <2>6. [again EXCEPT !.events = Here.events] = Here
    BY <2>2, <2>3, <2>4 DEF IsRecord
  <2>7. Range(again.events) = Range(Here.events)
    BY <2>2, <2>5
  <2> QED
    BY <2>6, <2>7 DEF again, m
<1> QED
  BY <1>1, SpecIInv, PTL
=============================================================================
