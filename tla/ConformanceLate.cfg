\* Can a reported violation be taken back by an event that occurs later?
SPECIFICATION Spec
CONSTANTS
  notice = notice
  hearing = hearing
  waived = waived
  declined = declined
  NoType = NoType
  NoException = NoException
  NoDate = NoDate
  Holidays = {7}
  EventType = {notice, hearing, waived, declined}
  Instant <- MCInstantSmall
  Rules <- MCRules
  MaxEvents = 4
PROPERTY ViolationsUnavoidable
CHECK_DEADLOCK FALSE
