CONSTANTS
    IPs = {a}
    NoInfo = NoInfo
    MaxRequests = 2
    Window = 2
    BlockDuration = 5
    MaxTime = 12

SPECIFICATION FairSpec
INVARIANT TypeOK
INVARIANT SlidingWindow
PROPERTY BlockLasts
PROPERTY BlockEnds
