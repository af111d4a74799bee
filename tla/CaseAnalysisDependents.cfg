\* The campus policy stops saying that it governs the college page.
SPECIFICATION Spec
CONSTANTS
  campus = campus
  college = college
  catalog = catalog
  NoUnit = NoUnit
  AnyStudent = AnyStudent
  NoSource = NoSource
  NoQuote = NoQuote
  NoTrace = NoTrace
  Missing = Missing
  Unavailable = Unavailable
  Source = {campus, college, catalog}
  Supplied <- MCSupplied
  Order <- MCOrder
  Scopes <- MCScopes
  Query <- MCQuery
  Effective <- MCEffective
  AsOf = 2
  Lineage <- MCLineage
  RuleClaims <- MCRuleClaims
  Constraints <- MCConstraints
  Documents <- MCDocuments
  Extracted <- MCExtracted
  Extractors = {1, 2}
  MaxChanges = 1
INVARIANT DependentsMarked
