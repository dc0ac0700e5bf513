SPECIFICATION Spec
CONSTANTS
    NSteps = 3
    Files = {1}
    Parallel = 2
    Chat = TRUE
INVARIANTS
    CutShortIsSeen
    LatestSeen
