CONSTANTS
    MaxMissed = 5
    MaxAttempts = 3
SPECIFICATION FairSpec
CHECK_DEADLOCK FALSE
INVARIANTS
    TypeOK
    HeartbeatFindsState
    OneAttempt
PROPERTIES
    DisconnectedIsFinal
    ReconnectEnds
    ArmedHeartbeatNotices
