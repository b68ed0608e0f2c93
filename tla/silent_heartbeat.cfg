CONSTANTS
    MaxMissed = 5
    MaxAttempts = 3
SPECIFICATION FairSpec
CHECK_DEADLOCK FALSE
PROPERTIES
    SilenceTriggersReconnect
