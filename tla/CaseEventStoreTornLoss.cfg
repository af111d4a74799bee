\* One process, one interrupted append: is what was acknowledged still there?
SPECIFICATION Spec
CONSTANTS
  Process = {p1}
  Compactors = {}
  Event = {e1, e2}
  Malformed = Malformed
  NoView = NoView
  MaxBatch = 1
  MaxLines = 4
  MaxCalls = 2
  MaxTears = 1
INVARIANT AckedDurable
CHECK_DEADLOCK FALSE
