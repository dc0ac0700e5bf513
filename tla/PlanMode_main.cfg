SPECIFICATION Spec
CONSTANTS
    MaxPlans = 2
    MaxSteps = 1
    MaxRevision = 5
    Policy <- Default
INVARIANTS
    
    PanelShowsPlan
    ChangesAreConfirmed
PROPERTIES
    NothingStaleIsLast
    NoPlanStrays
CHECK_DEADLOCK FALSE
