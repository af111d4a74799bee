\* Scenarios of up to two hypothetical events, compared with what happens next.
SPECIFICATION ForecastSpec
CONSTANTS
  decide = decide
  appeal = appeal
  proof = proof
  grounds = grounds
  harm = harm
  NoDate = NoDate
  NoType = NoType
  NoTrigger = NoTrigger
  GroundOpen = GroundOpen
  NoGround = NoGround
  NoDeadline = NoDeadline
  NoException = NoException
  NoForecast = NoForecast
  Rule = {decide, appeal, proof, grounds}
  Holidays = {7}
  EventType <- MCEventType
  Event <- MCEvent
  Compilations <- MCCompilations
  Clock <- MCClock
  MaxEvents = 3
  MaxHypotheses = 2
INVARIANTS NoNewEventsOnlyMisses ForecastComesTrue WarnsOfViolations
CHECK_DEADLOCK FALSE
