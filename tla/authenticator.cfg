CONSTANTS
    Threads = {t1, t2}
    NoThread = NoThread
    Users = {u}
    Nothing = Nothing
    MaxLoginAttempts = 2
    TokenExpiryTime = 1
    MaxTime = 3
    MaxAttempts = 3
    MaxIssued = 2

SPECIFICATION Spec
INVARIANT TypeOK
INVARIANT LockedOnlyAfterAttempts
PROPERTY RevokedIsRejected
