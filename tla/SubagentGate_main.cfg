SPECIFICATION FairSpec
CONSTANTS
    Calls <- SomeCalls
    MaxDepth = 2
    MaxConcurrent = 2
    MaxPerParent = 1
INVARIANTS SlotsCounted NobodyWaitsInVain
PROPERTIES OvertakesOnlyTheBlocked EveryCallAnswers
CHECK_DEADLOCK FALSE
