CONSTANTS
    Callers = {t1}
    Services = {"database-internal"}
    Permissions = {"session.create"}
    NoService = NoService
    NoCaller = NoCaller
    NoQuery = NoQuery
    DefaultServices <- MCDefaultServices
    DefaultPermissions <- MCDefaultPermissions
    AllowedRoles <- MCAllowedRoles
    Assignable <- MCAssignable
    Edges <- MCEdges

SPECIFICATION Spec
INVARIANT ViewerCreatesNoSession
CHECK_DEADLOCK FALSE
