\* Two processes append, die, retry and leave torn writes; nobody compacts.
SPECIFICATION Spec
CONSTANTS
  Process = {p1, p2}
  Compactors = {}
  Event = {e1, e2, e3}
  Malformed = Malformed
  NoView = NoView
  MaxBatch = 2
  MaxLines = 4
  MaxCalls = 2
  MaxTears = 2
SYMMETRY Symmetry
INVARIANTS TornTailHarmless SilentLossBounded
PROPERTY CorruptionPersists
CHECK_DEADLOCK FALSE
