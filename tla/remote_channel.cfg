CONSTANTS
    MaxSent = 2
    MaxBreaks = 1
SPECIFICATION FairSpec
CHECK_DEADLOCK FALSE
INVARIANTS
    TypeOK
PROPERTIES
    ClientToServer
    ServerToClient
    RequestsAnswered
