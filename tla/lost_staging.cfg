CONSTANTS
    Hunk = {h1, h2}
    MaxOps = 2
    MaxEdits = 1
    MaxFailures = 0
SPECIFICATION Spec
CHECK_DEADLOCK FALSE
INVARIANT StagedStays
