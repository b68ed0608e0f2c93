CONSTANTS
    Hunk = {h1, h2}
    MaxOps = 3
    MaxEdits = 2
    MaxFailures = 1
SPECIFICATION FairSpec
CHECK_DEADLOCK FALSE
INVARIANTS
    TypeOK
    NewestWriteHandled
PROPERTIES
    DiffSettles
