---------------------------- MODULE CaseForecast ----------------------------
(***************************************************************************)
(* A forecast is made of a case, and the case goes on: what was forecast   *)
(* can be compared with what happened.                                     *)
(***************************************************************************)
EXTENDS ScenarioForecast

CONSTANTS MaxHypotheses,  \* bound: hypothetical events in a scenario
          NoForecast

VARIABLE forecast   \* the forecast that was made, if one was, and of what case

ASSUME ForecastAssumption == MaxHypotheses \in Nat

Scenario == [kind : {"NO_NEW_EVENTS", "EXPLICIT_SCENARIO"},
             at : Clock,
             hypothetical : SeqOf(Event, MaxHypotheses)]

ForecastInit == Init /\ forecast = NoForecast

\* The case is not changed by a forecast.  Bound: one forecast is followed.
Forecast(scenario) ==
  /\ forecast = NoForecast
  /\ forecast' = [point |-> ForecastPoint(compiled, log, evaluationAt, scenario),
                  base |-> log, baseAt |-> evaluationAt]
  /\ UNCHANGED vars

ForecastNext == \/ Next /\ UNCHANGED forecast
                \/ \E scenario \in Scenario : Forecast(scenario)

ForecastSpec == ForecastInit /\ [][ForecastNext]_<<vars, forecast>>
-----------------------------------------------------------------------------
(* Properties *)

IsEvaluated == forecast # NoForecast /\ forecast.point.status = "evaluated"

\* NO_NEW_EVENTS looked at a later instant: if nobody does anything, all that
\* can happen is that pending obligations are missed.
NoNewEventsOnlyMisses ==
  (/\ IsEvaluated
   /\ forecast.point.scenario.kind = "NO_NEW_EVENTS"
   /\ forecast.point.scenario.at >= forecast.baseAt)
  => \A c \in forecast.point.changes :
       c[1] = "obligation_status" /\ c[3] = "pending" /\ c[4] = "missed"

\* The facts recorded since the forecast are the ones it supposed, in any order.
SinceForecast == SubSeq(log, Len(forecast.base) + 1, Len(log))
AsSupposed ==
  /\ evaluationAt = forecast.point.scenario.at
  /\ Len(SinceForecast) = Len(forecast.point.scenario.hypothetical)
  /\ Range(SinceForecast) = Range(forecast.point.scenario.hypothetical)

NoTies == \A i, j \in DOMAIN log :
            log[i].type = log[j].type /\ log[i].at = log[j].at => i = j

\* "No second deadline engine": when exactly what a scenario supposed is
\* recorded, in whatever order, the case at that instant is the one forecast.
ForecastComesTrue ==
  (IsEvaluated /\ AsSupposed /\ NoTies)
  => /\ forecast.point.state = Now
     /\ forecast.point.findings = Findings(compiled, log)
     /\ forecast.point.deviations = Deviations(compiled, log, Now)

\* A forecast warns of a new deviation exactly when the simulated case has a
\* missed deadline, or a violated conformance rule, that the case had not.
WarnsOfViolations ==
  IsEvaluated =>
    LET before == CaseState(Procedure(compiled), forecast.base, forecast.baseAt)
    IN forecast.point.outcome = "NEW_DEVIATION_DETECTED"
       <=> \/ \E d \in forecast.point.deviations \ Deviations(compiled, forecast.base, before) :
                d[1] \in {"STUDENT_DEADLINE_EXCEEDED", "INSTITUTION_DEADLINE_EXCEEDED"}
           \/ \E r \in compiled.constraints :
                /\ forecast.point.findings[r] = "NONCONFORMANT"
                /\ Findings(compiled, forecast.base)[r] # "NONCONFORMANT"
=============================================================================
