CONSTANTS
    Connections = {c1, c2}
    Users = {u1, u2}
    Roles = {admin}
    Services = {web}
    admin = admin
    viewer = viewer
    database = database
    web = web
    Allowed <- MCAllowed
    NoUser = NoUser
    SessionIds = {s1, s2, s3}
    NoSession = NoSession
    MaxSessionsPerUser = 1
    SessionTimeout = 0
    MaxTime = 1
    MaxCreated = 3

SPECIFICATION Spec
SYMMETRY MCSymmetry
INVARIANT TypeOK
INVARIANT OwnSession
INVARIANT EndedSessionIsForgotten
PROPERTY EndedByOwner
