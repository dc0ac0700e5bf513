SPECIFICATION Spec
CONSTANTS
  MaxRetries = 1
  Calm = TRUE
  MaxEntries = 6
  MaxSettings = 3
  MaxCalls = 2
  MaxQueue = 1
INVARIANTS ContextFollowsStore HistoryIsWhole
CHECK_DEADLOCK FALSE
