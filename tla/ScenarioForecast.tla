-------------------------- MODULE ScenarioForecast --------------------------
(***************************************************************************)
(* forecastScenario (forecast/forecast.ts): what the compilation c of a    *)
(* case implies at another instant, under events the caller supplies,      *)
(* compared with the case as it stands: its log l at instant t.            *)
(***************************************************************************)
EXTENDS CaseTwin, ConformanceRules, SequencesExt

\* all(): the events of a log by time of occurrence.
All(l) == LET At(k) == CHOOSE i \in DOMAIN l : Cardinality({j \in DOMAIN l : Before(l, j, i)}) = k - 1
          IN SubSeq([k \in DOMAIN l |-> l[At(k)]], 1, Len(l))

\* checkAllConformance
Findings(c, l) == [r \in c.constraints |-> Finding(r, l)]

\* validateScenario, of a well-formed scenario; an event's id stands for the
\* event.  That an id, an instant, a known kind and the fields of every event are
\* there is left out: without them the code rejects the scenario as well.
Valid(l, scenario) ==
  /\ scenario.kind = "NO_NEW_EVENTS" => scenario.hypothetical = <<>>
  /\ Range(scenario.hypothetical) \cap Range(l) = {}
  /\ IsInjective(scenario.hypothetical)

\* diff: <<what, whose, from, to>> for everything that moved.
Changes(before, after, found, finds) ==
  {<<"obligation_status", id, before.status[id], after.status[id]>> :
     id \in {x \in DOMAIN after.status : before.status[x] # after.status[x]}}
  \cup {<<"obligation_due", id, before.due[id], after.due[id]>> :
          id \in {x \in DOMAIN after.due : before.due[x] # after.due[x]}}
  \cup (IF before.eligibility = after.eligibility THEN {}
        ELSE {<<"eligibility", "case", before.eligibility, after.eligibility>>})
  \cup {<<"conformance_status", r, found[r], finds[r]>> :
          r \in {x \in DOMAIN finds : found[x] # finds[x]}}

IsViolation(change) ==
  \/ change[1] = "obligation_status" /\ change[4] = "missed"
  \/ change[1] = "conformance_status" /\ change[4] = "NONCONFORMANT"

NothingToEvaluate(state, finds) == DOMAIN state.status = {} /\ DOMAIN finds = {}

Waiting(state, finds) == \/ \E id \in DOMAIN state.status : state.status[id] = "unknown"
                         \/ \E r \in DOMAIN finds : finds[r] = "UNDETERMINED"

\* Mutant: any resolved change hides the violations next to it.
ClassifyChangesFirst(changes, state, finds) ==
  CASE NothingToEvaluate(state, finds) -> "CANNOT_DETERMINE"
    [] \E c \in changes : ~IsViolation(c) -> "DEADLINE_OR_STATE_TRANSITION"
    [] changes # {} -> "NEW_DEVIATION_DETECTED"
    [] Waiting(state, finds) -> "CONDITIONAL_ON_FUTURE_EVENT"
    [] OTHER -> "STATE_UNCHANGED"

\* Mutant: what is not waiting for a date is not waiting for anything.
ClassifyByDates(changes, state, finds) ==
  IF NothingToEvaluate(state, finds) THEN "CANNOT_DETERMINE"
  ELSE IF \E c \in changes : IsViolation(c) THEN "NEW_DEVIATION_DETECTED"
  ELSE IF changes # {} THEN "DEADLINE_OR_STATE_TRANSITION"
  ELSE IF \E id \in DOMAIN state.status : state.status[id] = "unknown"
       THEN "CONDITIONAL_ON_FUTURE_EVENT"
  ELSE "STATE_UNCHANGED"

\* classify
Classify(changes, state, finds) ==
  IF NothingToEvaluate(state, finds) THEN "CANNOT_DETERMINE"
  ELSE IF \E c \in changes : IsViolation(c) THEN "NEW_DEVIATION_DETECTED"
  ELSE IF changes # {} THEN "DEADLINE_OR_STATE_TRANSITION"
  ELSE IF Waiting(state, finds) THEN "CONDITIONAL_ON_FUTURE_EVENT"
  ELSE "STATE_UNCHANGED"

\* Mutant: facts the simulated instant has not reached are left out.
SimulatedUpTo(l, scenario) ==
  LET Reached(e) == e.at <= scenario.at
  IN SelectSeq(All(l) \o scenario.hypothetical, Reached)

\* The simulated log: the facts of the case, then the caller's.
Simulated(l, scenario) == All(l) \o scenario.hypothetical

\* A case as the engines find it at an instant.
Standing(c, l, t) == [state |-> CaseState(Procedure(c), l, t), findings |-> Findings(c, l)]

Reported(c, simLog, scenario, after, changes) ==
  [status |-> "evaluated", scenario |-> scenario,
   outcome |-> Classify(changes, after.state, after.findings), changes |-> changes,
   state |-> after.state, findings |-> after.findings,
   deviations |-> Deviations(c, simLog, after.state)]

Compared(c, simLog, scenario, before, after) ==
  Reported(c, simLog, scenario, after,
           Changes(before.state, after.state, before.findings, after.findings))

Evaluated(c, l, t, scenario) ==
  Compared(c, Simulated(l, scenario), scenario, Standing(c, All(l), t),
           Standing(c, Simulated(l, scenario), scenario.at))

\* forecastScenario
ForecastPoint(c, l, t, scenario) ==
  IF Valid(l, scenario) THEN Evaluated(c, l, t, scenario)
  ELSE [status |-> "rejected", scenario |-> scenario]
=============================================================================
