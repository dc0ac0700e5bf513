SPECIFICATION Spec
CONSTANTS
    MaxReplay = 2
    MaxEvents <- SomeEvents
    MaxMessages = 2
    MaxLoads = 2
    MaxRestarts = 1
INVARIANTS EachOnce SettledPageIsRight
CHECK_DEADLOCK FALSE
