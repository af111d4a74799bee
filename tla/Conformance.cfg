\* Ten rules on a hearing and its notice, four events recorded in any order.
SPECIFICATION Spec
CONSTANTS
  notice = notice
  hearing = hearing
  waived = waived
  declined = declined
  NoType = NoType
  NoException = NoException
  NoDate = NoDate
  Holidays = {7}
  EventType = {notice, hearing, waived, declined}
  Instant <- MCInstant
  Rules <- MCRules
  MaxEvents = 4
INVARIANTS OrderIrrelevant LeadTimeCounted
PROPERTY FindingsFinal
CHECK_DEADLOCK FALSE
