SPECIFICATION PanelSpec
CONSTANTS
    Titles = {a, b}
    a = a
    b = b
    MaxId = 3
    MaxSteps = 2
    MaxChanges = 2
INVARIANTS
    StepsSound
PROPERTIES
    FrozenUnlessResuming
    ProgressKept
    PanelCorrected
    ClicksLand
CHECK_DEADLOCK FALSE
SYMMETRY Symmetry
