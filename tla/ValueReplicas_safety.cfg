SPECIFICATION Spec
CONSTANTS
    Replica = {1, 2}
    Kind = {"gcounter", "pncounter", "gset", "lww", "autodoc"}
    ProgramValue <- SmallValues
    Key = {"k"}
    MaxInt = 2
    MaxCounter = 4
    MaxChanges = 3
    MaxRestarts = 1
CHECK_DEADLOCK FALSE
INVARIANT TypeOK
INVARIANT CountersReadTotals
INVARIANT HeldWriteIsLatest
INVARIANT DocumentReadsSurvivors
INVARIANT SameHistorySameState
PROPERTY StaleStateHarmless
