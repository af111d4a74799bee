\* A grievance, the decision on it and an appeal, facts recorded late and in any order.
SPECIFICATION Spec
CONSTANTS
  decide = decide
  appeal = appeal
  reply = reply
  advise = advise
  proof = proof
  valid = valid
  invalid = invalid
  harm = harm
  bias = bias
  note = note
  claim = claim
  lineage = lineage
  NoDate = NoDate
  NoType = NoType
  NoTrigger = NoTrigger
  NoDeadline = NoDeadline
  NoException = NoException
  GroundOpen = GroundOpen
  NoGround = NoGround
  Rule = {decide, appeal, reply, advise, proof, valid, invalid}
  Holidays = {7}
  EventType <- MCEventType
  Event <- MCEvent
  Compilations <- MCCompilations
  Asked <- MCAsked
  Clock <- MCClock
  MaxEvents = 4
INVARIANTS TraceReproducible  AdvisoryNeverGates SettlesForGood ForecastNamesTheGap SummaryTellsDeviations
PROPERTIES StatusAdvances DueDatesNeverSlip
CHECK_DEADLOCK FALSE
