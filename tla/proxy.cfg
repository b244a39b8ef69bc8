CONSTANTS
    Sessions = {s}
    c1 = c1
    c2 = c2
    Connections = {c1, c2}
    NoProxy = NoProxy
    Chunk = 2
    Units <- MCUnits

SPECIFICATION FairSpec
INVARIANT TypeOK
INVARIANT ActiveIsMapped
INVARIANT ActiveIsServed
INVARIANT NeverCountedTwice
PROPERTY RelayInOrder
PROPERTY StoppedIsRemoved
CHECK_DEADLOCK FALSE
