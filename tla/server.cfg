CONSTANTS
    IllTyped = IllTyped
    JsonTrue = JsonTrue
    Files <- MCFiles
    NoFile = NoFile
    NoConfig = NoConfig
    DefaultThreadCount = 3
    MaxThreads = 3
    MaxConnections = 2

SPECIFICATION FairSpec
INVARIANT TypeOK
INVARIANT ServingAccepts
INVARIANT ServedPortIsValidated
INVARIANT SavedLoadsBack
PROPERTY SignalEndsCommand
PROPERTY AcceptEnds
CHECK_DEADLOCK FALSE
