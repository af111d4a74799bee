\* Two obligations anchored on one another: does each resolve as soon as one of its anchors does?
SPECIFICATION Spec
CONSTANTS
  r1 = r1
  r2 = r2
  r3 = r3
  e1 = e1
  e2 = e2
  Dangling = {gone}
  NoDate = NoDate
  NoDeadline = NoDeadline
  Rule = {r1, r2}
  EventType = {e1, e2}
  Holidays = {7}
  Order <- MCOrderSmall
  Terms <- MCTerms
  Deadlines <- MCDeadlinesCircular
  Timelines <- MCTimelines
INVARIANT ResolvesWithOneAnchor
CHECK_DEADLOCK FALSE
