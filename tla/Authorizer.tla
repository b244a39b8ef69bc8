----------------------------- MODULE Authorizer -----------------------------
(***************************************************************************)
(* zerossg::AuthorizationManager: services with the roles they allow, the  *)
(* permissions of the roles, and the role hierarchy, each under a mutex of *)
(* its own, queried by several threads while an administrator edits them.  *)
(*                                                                         *)
(* Two queries hold one mutex while they take another: a service is judged *)
(* under m_services_mutex with m_hierarchy_mutex taken for each comparison *)
(* of roles, and a permission is looked up under m_permissions_mutex with  *)
(* m_hierarchy_mutex taken for the roles above.  Between two acquisitions  *)
(* other threads run.  is_role_superior calls itself with its mutex held;  *)
(* the mutex is not recursive, so the thread then waits for itself and     *)
(* keeps what it holds.                                                    *)
(***************************************************************************)
EXTENDS Naturals, FiniteSets

CONSTANTS
    Callers,             \* the threads that query
    Services, Permissions,
    NoService,           \* no service is being judged
    NoCaller,            \* the holder of a mutex that is free
    NoQuery,
    DefaultServices,     \* initialize_default_services
    DefaultPermissions,  \* initialize_default_permissions
    AllowedRoles,        \* bound: what the administrator gives a service
    Assignable,          \* bound: <<role, permission>> the administrator edits
    Edges                \* bound: <<superior, subordinate>> that may be added

\* Role, with the values that order a std::set of roles.
Rank == [ADMIN |-> 0, OPERATOR |-> 1, VIEWER |-> 2]
Roles == {"ADMIN", "OPERATOR", "VIEWER"}

ASSUME AuthorizerAssumption ==
    /\ NoService \notin Services
    /\ NoCaller \notin Callers
    /\ DefaultServices \in [Services -> SUBSET Roles]
    /\ DefaultPermissions \in [Roles -> SUBSET Permissions]
    /\ AllowedRoles \subseteq SUBSET Roles
    /\ Assignable \subseteq Roles \X Permissions
    /\ Edges \subseteq Roles \X Roles

Query ==
    [op : {"can_access_service"}, role : Roles, of : Services]
    \cup [op : {"get_allowed_services"}, role : Roles, of : {NoService}]
    \cup [op : {"has_permission"}, role : Roles, of : Permissions]
    \cup [op : {"is_role_superior"}, role : Roles, of : Roles]

ASSUME QueryAssumption == NoQuery \notin Query

VARIABLES
    m_services, m_role_permissions, m_role_hierarchy,
    m_services_mutex, m_permissions_mutex, m_hierarchy_mutex,   \* holders
    pc, query,           \* where a caller is, and in which query
    left,                \* services the query has still to judge
    service, todo,       \* the one it judges, and the roles not compared yet
    answer,              \* TRUE or FALSE, or the set of services allowed
    known                \* history: the hierarchy when the query began

tables == <<m_services, m_role_permissions, m_role_hierarchy>>
mutexes == <<m_services_mutex, m_permissions_mutex, m_hierarchy_mutex>>
judging == <<left, service, todo>>
vars == <<tables, mutexes, pc, query, judging, answer, known>>

Goto(c, step) == pc' = [pc EXCEPT ![c] = step]

Init ==
    /\ m_services = DefaultServices
    /\ m_role_permissions = DefaultPermissions
    /\ m_role_hierarchy = [ADMIN |-> {"OPERATOR", "VIEWER"}, OPERATOR |-> {"VIEWER"},
                           VIEWER |-> {}]
    /\ m_services_mutex = NoCaller
    /\ m_permissions_mutex = NoCaller
    /\ m_hierarchy_mutex = NoCaller
    /\ pc = [c \in Callers |-> "idle"]
    /\ query = [c \in Callers |-> NoQuery]
    /\ left = [c \in Callers |-> {}]
    /\ service = [c \in Callers |-> NoService]
    /\ todo = [c \in Callers |-> {}]
    /\ answer = [c \in Callers |-> {}]
    /\ known = [c \in Callers |-> m_role_hierarchy]

-----------------------------------------------------------------------------
\* The first element of a non-empty std::set of roles.
FirstOf(roles) == CHOOSE r \in roles : \A x \in roles : Rank[r] <= Rank[x]

\* Faulty: the roles are taken in the wrong order.
Superior_Swapped(a, b) ==
    IF a = b THEN "yes"
    ELSE IF m_role_hierarchy[b] = {} THEN "no"
    ELSE IF FirstOf(m_role_hierarchy[b]) = a THEN "yes"
    ELSE "relocks"

\* Faulty: only the direct subordinates are looked at.
Superior_Direct(a, b) == IF a = b \/ b \in m_role_hierarchy[a] THEN "yes" ELSE "no"

\* is_role_superior: it answers for equal roles, for a role without
\* subordinates and for the first subordinate; in front of any other it calls
\* itself for the first subordinate and locks the mutex it holds.
Superior(a, b) ==
    IF a = b THEN "yes"
    ELSE IF m_role_hierarchy[a] = {} THEN "no"
    ELSE IF FirstOf(m_role_hierarchy[a]) = b THEN "yes"
    ELSE "relocks"

\* A query is made, and has not taken its first mutex.
Call(c, q) ==
    /\ pc[c] = "idle"
    /\ Goto(c, "called")
    /\ query' = [query EXCEPT ![c] = q]
    /\ known' = [known EXCEPT ![c] = m_role_hierarchy]
    /\ UNCHANGED <<tables, mutexes, judging, answer>>

\* The caller has its answer, and forgets it.
Leave(c) ==
    /\ pc[c] = "returned"
    /\ Goto(c, "idle")
    /\ query' = [query EXCEPT ![c] = NoQuery]
    /\ answer' = [answer EXCEPT ![c] = {}]
    /\ known' = [known EXCEPT ![c] = m_role_hierarchy]
    /\ UNCHANGED <<tables, mutexes, judging>>

\* can_access_service and get_allowed_services lock m_services_mutex; the one
\* judges the service it was asked for, if there is one, the other all.
LockServices(c) ==
    /\ pc[c] = "called"
    /\ query[c].op \in {"can_access_service", "get_allowed_services"}
    /\ m_services_mutex = NoCaller
    /\ m_services_mutex' = c
    /\ left' = [left EXCEPT ![c] =
          {s \in DOMAIN m_services :
              query[c].op = "can_access_service" => s = query[c].of}]
    /\ Goto(c, "judging")
    /\ UNCHANGED <<tables, m_permissions_mutex, m_hierarchy_mutex, query, service, todo,
                   answer, known>>

\* can_role_access_service: a role that is named is allowed.
JudgeNamed(c, s) ==
    /\ pc[c] = "judging"
    /\ s \in left[c]
    /\ query[c].role \in m_services[s]
    /\ left' = [left EXCEPT ![c] = @ \ {s}]
    /\ answer' = [answer EXCEPT ![c] = @ \cup {s}]
    /\ UNCHANGED <<tables, mutexes, pc, query, service, todo, known>>

\* Faulty: the service counts as judged before its roles are compared.
JudgeByHierarchy_Early(c, s) ==
    /\ pc[c] = "judging"
    /\ s \in left[c]
    /\ query[c].role \notin m_services[s]
    /\ left' = [left EXCEPT ![c] = @ \ {s}]
    /\ service' = [service EXCEPT ![c] = s]
    /\ todo' = [todo EXCEPT ![c] = m_services[s]]
    /\ Goto(c, "comparing")
    /\ UNCHANGED <<tables, mutexes, query, answer, known>>

\* can_role_access_service: for any other the hierarchy decides.
JudgeByHierarchy(c, s) ==
    /\ pc[c] = "judging"
    /\ s \in left[c]
    /\ query[c].role \notin m_services[s]
    /\ service' = [service EXCEPT ![c] = s]
    /\ todo' = [todo EXCEPT ![c] = m_services[s]]
    /\ Goto(c, "comparing")
    /\ UNCHANGED <<tables, mutexes, query, left, answer, known>>

\* The judgement on a service ends.
Judged(c, allowed) ==
    /\ left' = [left EXCEPT ![c] = @ \ {service[c]}]
    /\ service' = [service EXCEPT ![c] = NoService]
    /\ todo' = [todo EXCEPT ![c] = {}]
    /\ answer' = IF allowed THEN [answer EXCEPT ![c] = @ \cup {service[c]}] ELSE answer
    /\ Goto(c, "judging")

\* A role of the service is compared, in the order of its vector.
CompareRole(c, r) ==
    /\ pc[c] = "comparing"
    /\ r \in todo[c]
    /\ m_hierarchy_mutex = NoCaller
    /\ \/ /\ Superior(query[c].role, r) = "yes"
          /\ Judged(c, TRUE)
          /\ UNCHANGED m_hierarchy_mutex
       \/ /\ Superior(query[c].role, r) = "no"
          /\ todo' = [todo EXCEPT ![c] = @ \ {r}]
          /\ UNCHANGED <<m_hierarchy_mutex, pc, left, service, answer>>
       \/ /\ Superior(query[c].role, r) = "relocks"
          /\ m_hierarchy_mutex' = c
          /\ Goto(c, "stuck")
          /\ UNCHANGED <<judging, answer>>
    /\ UNCHANGED <<tables, m_services_mutex, m_permissions_mutex, query, known>>

\* Faulty: the comparison of roles begins again.
DenyService_Again(c) ==
    /\ pc[c] = "comparing"
    /\ todo[c] = {}
    /\ todo' = [todo EXCEPT ![c] = m_services[service[c]]]
    /\ UNCHANGED <<tables, mutexes, pc, query, left, service, answer, known>>

\* No role of the service is below the caller's.
DenyService(c) ==
    /\ pc[c] = "comparing"
    /\ todo[c] = {}
    /\ Judged(c, FALSE)
    /\ UNCHANGED <<tables, mutexes, query, known>>

\* The end of can_access_service and get_allowed_services.
UnlockServices(c) ==
    /\ pc[c] = "judging"
    /\ left[c] = {}
    /\ m_services_mutex' = NoCaller
    /\ Goto(c, "returned")
    /\ UNCHANGED <<tables, m_permissions_mutex, m_hierarchy_mutex, query, judging, answer,
                   known>>

\* Faulty: the mutex is given back while the roles above are looked up.
LookUpPermission_Unlocks(c) ==
    /\ pc[c] = "called"
    /\ query[c].op = "has_permission"
    /\ m_permissions_mutex = NoCaller
    /\ LET direct == query[c].of \in m_role_permissions[query[c].role]
       IN  /\ answer' = [answer EXCEPT ![c] = IF direct THEN {query[c].of} ELSE {}]
           /\ Goto(c, IF direct THEN "returned" ELSE "inheriting")
    /\ UNCHANGED <<tables, mutexes, query, judging, known>>

\* role_has_permission: the permissions of the role itself.
LookUpPermission(c) ==
    /\ pc[c] = "called"
    /\ query[c].op = "has_permission"
    /\ m_permissions_mutex = NoCaller
    /\ LET direct == query[c].of \in m_role_permissions[query[c].role]
       IN  /\ answer' = [answer EXCEPT ![c] = IF direct THEN {query[c].of} ELSE {}]
           /\ Goto(c, IF direct THEN "returned" ELSE "inheriting")
           /\ m_permissions_mutex' = IF direct THEN NoCaller ELSE c
    /\ UNCHANGED <<tables, m_services_mutex, m_hierarchy_mutex, query, judging, known>>

\* role_has_permission: the permissions of the roles directly above.
InheritPermission(c) ==
    /\ pc[c] = "inheriting"
    /\ m_hierarchy_mutex = NoCaller
    /\ answer' = [answer EXCEPT ![c] =
          IF \E r \in Roles : /\ query[c].role \in m_role_hierarchy[r]
                              /\ query[c].of \in m_role_permissions[r]
          THEN {query[c].of} ELSE {}]
    /\ m_permissions_mutex' = NoCaller
    /\ Goto(c, "returned")
    /\ UNCHANGED <<tables, m_services_mutex, m_hierarchy_mutex, query, judging, known>>

\* is_role_superior as a query of its own.
IsRoleSuperior(c) ==
    /\ pc[c] = "called"
    /\ query[c].op = "is_role_superior"
    /\ m_hierarchy_mutex = NoCaller
    /\ LET result == Superior(query[c].role, query[c].of)
       IN  /\ answer' = [answer EXCEPT ![c] = IF result = "yes" THEN {query[c].of} ELSE {}]
           /\ Goto(c, IF result = "relocks" THEN "stuck" ELSE "returned")
           /\ m_hierarchy_mutex' = IF result = "relocks" THEN c ELSE NoCaller
    /\ UNCHANGED <<tables, m_services_mutex, m_permissions_mutex, query, judging, known>>

-----------------------------------------------------------------------------
(* The administrator, whose calls are one critical section each.           *)

callerVars == <<mutexes, pc, query, judging, answer, known>>

AddService(s, allowed) ==
    /\ m_services_mutex = NoCaller
    /\ m_services' = [t \in DOMAIN m_services \cup {s} |->
                         IF t = s THEN allowed ELSE m_services[t]]
    /\ UNCHANGED <<m_role_permissions, m_role_hierarchy, callerVars>>

UpdateService(s, allowed) ==
    /\ m_services_mutex = NoCaller
    /\ s \in DOMAIN m_services
    /\ m_services' = [m_services EXCEPT ![s] = allowed]
    /\ UNCHANGED <<m_role_permissions, m_role_hierarchy, callerVars>>

RemoveService(s) ==
    /\ m_services_mutex = NoCaller
    /\ m_services' = [t \in DOMAIN m_services \ {s} |-> m_services[t]]
    /\ UNCHANGED <<m_role_permissions, m_role_hierarchy, callerVars>>

AddPermissionToRole(r, p) ==
    /\ m_permissions_mutex = NoCaller
    /\ m_role_permissions' = [m_role_permissions EXCEPT ![r] = @ \cup {p}]
    /\ UNCHANGED <<m_services, m_role_hierarchy, callerVars>>

RemovePermissionFromRole(r, p) ==
    /\ m_permissions_mutex = NoCaller
    /\ m_role_permissions' = [m_role_permissions EXCEPT ![r] = @ \ {p}]
    /\ UNCHANGED <<m_services, m_role_hierarchy, callerVars>>

SetRoleHierarchy(superior, subordinate) ==
    /\ m_hierarchy_mutex = NoCaller
    /\ m_role_hierarchy' = [m_role_hierarchy EXCEPT ![superior] = @ \cup {subordinate}]
    /\ UNCHANGED <<m_services, m_role_permissions, callerVars>>

\* A query goes on.
Step(c) ==
    \/ LockServices(c) \/ DenyService(c) \/ UnlockServices(c)
    \/ \E s \in Services : JudgeNamed(c, s) \/ JudgeByHierarchy(c, s)
    \/ \E r \in Roles : CompareRole(c, r)
    \/ LookUpPermission(c) \/ InheritPermission(c)
    \/ IsRoleSuperior(c)

Administer ==
    \/ \E s \in Services :
          \/ \E allowed \in AllowedRoles : AddService(s, allowed) \/ UpdateService(s, allowed)
          \/ RemoveService(s)
    \/ \E a \in Assignable :
          AddPermissionToRole(a[1], a[2]) \/ RemovePermissionFromRole(a[1], a[2])
    \/ \E e \in Edges : SetRoleHierarchy(e[1], e[2])

Next ==
    \/ \E c \in Callers : (\E q \in Query : Call(c, q)) \/ Step(c) \/ Leave(c)
    \/ Administer

Spec == Init /\ [][Next]_vars

\* The scheduler runs every thread.  Nothing is assumed of the order in which
\* a mutex is granted to those who wait.
FairSpec == Spec /\ \A c \in Callers : WF_vars(Step(c))

-----------------------------------------------------------------------------
TypeOK ==
    /\ DOMAIN m_services \subseteq Services
    /\ m_services \in [DOMAIN m_services -> SUBSET Roles]
    /\ m_role_permissions \in [Roles -> SUBSET Permissions]
    /\ m_role_hierarchy \in [Roles -> SUBSET Roles]
    /\ m_services_mutex \in Callers \cup {NoCaller}
    /\ m_permissions_mutex \in Callers \cup {NoCaller}
    /\ m_hierarchy_mutex \in Callers \cup {NoCaller}
    /\ pc \in [Callers -> {"idle", "called", "judging", "comparing", "inheriting",
                           "returned", "stuck"}]
    /\ query \in [Callers -> Query \cup {NoQuery}]
    /\ left \in [Callers -> SUBSET Services]
    /\ service \in [Callers -> Services \cup {NoService}]
    /\ todo \in [Callers -> SUBSET Roles]
    /\ answer \in [Callers -> SUBSET (Services \cup Permissions \cup Roles)]
    /\ known \in [Callers -> [Roles -> SUBSET Roles]]
    /\ \A c \in Callers : pc[c] = "comparing" => service[c] \in left[c]

\* The roles below r in a hierarchy: the least set that has its subordinates
\* and theirs.
Below(hierarchy, r) ==
    {b \in Roles : \A S \in SUBSET Roles :
        hierarchy[r] \subseteq S /\ (\A x \in S : hierarchy[x] \subseteq S) => b \in S}

AtLeast(hierarchy, a, b) == a = b \/ b \in Below(hierarchy, a)

\* The query of c returns in this step.
Returns(c) == pc[c] # "returned" /\ pc'[c] = "returned"

JudgesServices(c) == query[c].op \in {"can_access_service", "get_allowed_services"}

\* A service is granted to a role that it allows or that is above one it
\* allows, by the tables as they are when the query returns, though the
\* roles were compared one by one with edits in between.
GrantIsJustified ==
    [][\A c \in Callers : Returns(c) =>
          /\ JudgesServices(c) => \A s \in answer'[c] :
                /\ s \in DOMAIN m_services
                /\ \E r \in m_services[s] : AtLeast(m_role_hierarchy, query[c].role, r)
          /\ query[c].op = "is_role_superior" /\ answer'[c] # {} =>
                AtLeast(m_role_hierarchy, query[c].role, query[c].of)]_vars

\* A service is refused only to a role that, when the query began, was not
\* above any role the service allows: through any number of levels, and in
\* a hierarchy with cycles.
DenialIsJustified ==
    [][\A c \in Callers : Returns(c) =>
          /\ JudgesServices(c) => \A s \in DOMAIN m_services \ answer'[c] :
                \/ query[c].op = "can_access_service" /\ s # query[c].of
                \/ \A r \in m_services[s] : ~AtLeast(known[c], query[c].role, r)
          /\ query[c].op = "is_role_superior" /\ answer'[c] = {} =>
                ~AtLeast(known[c], query[c].role, query[c].of)]_vars

\* A permission is refused only to a role that does not have it at that
\* moment, however long the query waited for the hierarchy in between.
PermissionDenialIsCurrent ==
    [][\A c \in Callers :
          Returns(c) /\ query[c].op = "has_permission" /\ answer'[c] = {} =>
             query[c].of \notin m_role_permissions[query[c].role]]_vars

\* A query gives back the mutexes it holds across steps, and so no two
\* queries wait for each other, unless one has locked the hierarchy twice.
LocksAreReleased ==
    \A c \in Callers :
        c \in {m_services_mutex, m_permissions_mutex}
        ~> \/ c \notin {m_services_mutex, m_permissions_mutex}
           \/ \E d \in Callers : pc[d] = "stuck"

\* tests/test_authorization.cpp:90 expects of has_permission(viewer_user,
\* "session.create") that "!permission.value()".
ViewerCreatesNoSession ==
    \A c \in Callers :
        pc[c] = "returned" /\ query[c].op = "has_permission" /\ query[c].role = "VIEWER"
        => "session.create" \notin answer[c]
=============================================================================
