CONSTANTS
    Users = {u1, u2}
    SessionIds = {s1, s2}
    NoSession = NoSession
    Callers = {c1, c2}
    MaxSessionsPerUser = 1
    SessionTimeout = 2
    Extensions <- MCExtensions
    IdsRecur = FALSE
    ClockStepsBack = TRUE
    MaxTime = 2
    MaxExpiry = 3
    MaxCreated = 2

SPECIFICATION Spec
SYMMETRY MCSymmetry
PROPERTY TerminatedStaysGone
PROPERTY LiveLeavesByTermination
