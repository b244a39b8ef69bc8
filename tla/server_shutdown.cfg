CONSTANTS
    IllTyped = IllTyped
    JsonTrue = JsonTrue
    Files <- MCFiles
    NoFile = NoFile
    NoConfig = NoConfig
    DefaultThreadCount = 3
    MaxThreads = 3
    MaxConnections = 2

SPECIFICATION Spec
INVARIANT ShutdownIsGraceful
CHECK_DEADLOCK FALSE
