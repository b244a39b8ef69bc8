CONSTANTS
    IPs = {a}
    NoInfo = NoInfo
    NoIP = NoIP
    Threshold = 2
    Window = 1
    BlockDuration = 3
    Durations = {1, 4}
    MaxFailures = 2
    MaxTime = 5

SPECIFICATION FairSpec
INVARIANT TypeOK
INVARIANT DetectedIsBlocked
PROPERTY NoFalseAlarm
PROPERTY DestructorReturns
PROPERTY BlockIsRemoved
CHECK_DEADLOCK FALSE
