CONSTANTS
    MaxLines = 3
    Mine <- AllLines
    MaxRead = 5
    MaxLog = 2
    Grace = 2
    MaxResets = 1
    MaxRequests = 2
SPECIFICATION FairSpec
CHECK_DEADLOCK FALSE
INVARIANTS
    TypeOK
    LoggedOnceInOrder
    LogMatchesOffset
PROPERTIES
    TailEnds
