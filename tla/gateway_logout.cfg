CONSTANTS
    Connections = {c1}
    Users = {u1}
    Roles = {admin, viewer}
    Services = {database, web}
    admin = admin
    viewer = viewer
    database = database
    web = web
    Allowed <- MCAllowed
    NoUser = NoUser
    SessionIds = {s1, s2}
    NoSession = NoSession
    MaxSessionsPerUser = 2
    SessionTimeout = 1
    MaxTime = 3
    MaxCreated = 2

SPECIFICATION Spec
PROPERTY LogoutEndsEverySession
