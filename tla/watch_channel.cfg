CONSTANTS
    Receiver = {r1, r2, r3}
    MaxSends = 2
    MaxWakers = 2
SPECIFICATION FairSpec
CHECK_DEADLOCK FALSE
INVARIANTS
    TypeOK
    NoMissedWakeup
    WakersHaveFutures
    VersionTellsValue
PROPERTIES
    KeepsPromise
