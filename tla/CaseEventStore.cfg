\* Two processes append and compact; no write is interrupted.
SPECIFICATION Spec
CONSTANTS
  Process = {p1, p2}
  Compactors = {p1, p2}
  Event = {e1, e2, e3}
  Malformed = Malformed
  NoView = NoView
  MaxBatch = 2
  MaxLines = 4
  MaxCalls = 2
  MaxTears = 0
SYMMETRY Symmetry
INVARIANTS TypeOK AckedDurable NoMoreCopiesThanCalls
PROPERTY RefinesHistory
CHECK_DEADLOCK FALSE
