SPECIFICATION LedgerSpec
CONSTANTS
  a = a
  b = b
  Sessions = {a, b}
  ModelOf <- Models
  DayLength = 1
  BatchSize = 2
  MaxFailures = 2
  Scenarios <- SomeScenarios
INVARIANTS LedgerInv QueriesAreRight SummaryIsRight
CHECK_DEADLOCK FALSE
