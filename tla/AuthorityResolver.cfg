\* Three sources, up to three validated lineage claims, two instants.
SPECIFICATION Spec
CONSTANTS
  campus = campus
  college = college
  office = office
  NoUnit = NoUnit
  AnyStudent = AnyStudent
  NoSource = NoSource
  Source = {campus, college, office}
  Scopes <- MCScopes
  Queries <- MCQueries
  Effective <- MCEffective
  Instant = {3, 6}
  Lineage <- MCLineage
  MaxRelationships = 3
INVARIANTS LineageIsATree ValidationOrderIrrelevant
PROPERTIES AuthorityMovesOnEffectiveDates ReplacedNeverReturns
CHECK_DEADLOCK FALSE
