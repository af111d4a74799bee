\* Three obligations, every combination of deadlines, circular ones included.
SPECIFICATION Spec
CONSTANTS
  r1 = r1
  r2 = r2
  r3 = r3
  e1 = e1
  e2 = e2
  Dangling = {gone}
  NoDate = NoDate
  NoDeadline = NoDeadline
  Rule = {r1, r2, r3}
  EventType = {e1, e2}
  Holidays = {7}
  Order <- MCOrder
  Terms <- MCTerms
  Deadlines <- MCDeadlines
  Timelines <- MCTimelines
INVARIANTS TypeOK VisitingIsAPath DueDatesSolved DueDatesDefined NoGuessedDate BusinessDaysCounted DisagreementReported
PROPERTIES SettledMemoStable Terminates
CHECK_DEADLOCK FALSE
