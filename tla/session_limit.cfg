CONSTANTS
    Users = {u1, u2}
    SessionIds = {s1, s2, s3}
    NoSession = NoSession
    Callers = {}
    MaxSessionsPerUser = 2
    SessionTimeout = 2
    Extensions <- MCExtensions
    IdsRecur = TRUE
    ClockStepsBack = FALSE
    MaxTime = 4
    MaxExpiry = 6
    MaxCreated = 5

SPECIFICATION Spec
SYMMETRY MCSymmetry
INVARIANT TypeOK
INVARIANT SessionLimit
PROPERTY QuotaSpec
PROPERTY NoRevival
