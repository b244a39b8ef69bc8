CONSTANTS
    Callers = {t1, t2}
    Services = {"database-internal"}
    Permissions = {"session.create"}
    NoService = NoService
    NoCaller = NoCaller
    NoQuery = NoQuery
    DefaultServices <- MCDefaultServices
    DefaultPermissions <- MCDefaultPermissions
    AllowedRoles <- MCAllowedRoles
    Assignable <- MCAssignable
    Edges <- MCEdges

SPECIFICATION FairSpec
INVARIANT TypeOK
 
 
PROPERTY PermissionDenialIsCurrent
PROPERTY LocksAreReleased
CHECK_DEADLOCK FALSE
