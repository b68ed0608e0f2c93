CONSTANTS
    MaxSent = 2
    MaxBreaks = 2
SPECIFICATION Spec
CHECK_DEADLOCK FALSE
INVARIANTS
    NothingLost
