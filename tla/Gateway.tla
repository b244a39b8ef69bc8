------------------------------ MODULE Gateway ------------------------------
(***************************************************************************)
(* The request path of the gateway: zerossg::Connection, one per client,   *)
(* over the SessionManager, the user table of the AuthenticationManager    *)
(* and the service check of the AuthorizationManager.                      *)
(*                                                                         *)
(* A connection handles one request at a time.  Its handler calls several  *)
(* managers, each under a mutex of its own, so between two of its calls    *)
(* the io threads of other connections and the administrator run: a        *)
(* handler that makes two calls is two actions.  The fields of the         *)
(* connection (m_authenticated, m_user, m_session_id) are touched by its   *)
(* own handlers only.                                                      *)
(***************************************************************************)
EXTENDS Integers, FiniteSets

CONSTANTS
    Connections,
    Users, Roles, Services,
    Allowed,             \* the <<role, service>> pairs can_access_service grants
    NoUser,              \* no user: of a default User and of an absent account
    SessionIds, NoSession,
    MaxSessionsPerUser, SessionTimeout,
    MaxTime, MaxCreated  \* bounds of SessionManager

Account == [role : Roles, active : BOOLEAN]
Identity == [user_name : Users, role : Roles]

ASSUME GatewayAssumption ==
    /\ Allowed \subseteq Roles \X Services
    /\ NoUser \notin Users \cup Account \cup Identity
    /\ NoSession \notin SessionIds
    /\ IsFiniteSet(SessionIds)
    /\ MaxSessionsPerUser \in Nat \ {0} /\ SessionTimeout \in Nat

VARIABLES
    m_sessions, m_total_sessions, now, issued, ended,  \* SessionManager
    m_users,           \* AuthenticationManager::m_users, NoUser where absent
    phase,             \* where the connection, or its handler, is
    m_authenticated, m_user, m_session_id,      \* Connection
    target,            \* the user or service of the request being handled
    response,          \* the response that waits to be written
    creator            \* history: the connection that created a session

vars == <<m_sessions, m_total_sessions, now, issued, ended, m_users, phase,
          m_authenticated, m_user, m_session_id, target, response, creator>>

managerVars == <<m_sessions, m_total_sessions, now, issued, ended>>
identityVars == <<m_authenticated, m_user, m_session_id>>

\* The manager as the gateway uses it: nothing calls update_session, and the
\* clock and the generator behave.
SM == INSTANCE SessionManager
        WITH Callers <- {}, copies <- << >>, Extensions <- {}, MaxExpiry <- 0,
             IdsRecur <- FALSE, ClockStepsBack <- FALSE

ASSUME SessionAssumption == NoSession \notin SM!Session

Phases == {"closed", "handshake", "ready", "verified", "authorised"}
Responses == {"none", "error", "login_successful", "session_created",
              "proxy_active", "logout_successful"}

-----------------------------------------------------------------------------
Init ==
    /\ m_sessions = [id \in SessionIds |-> NoSession]
    /\ m_total_sessions = 0
    /\ now = 0
    /\ issued = {}
    /\ ended = {}
    /\ m_users \in [Users -> Account \cup {NoUser}]
    /\ phase = [c \in Connections |-> "closed"]
    /\ m_authenticated = [c \in Connections |-> FALSE]
    /\ m_user = [c \in Connections |-> NoUser]
    /\ m_session_id = [c \in Connections |-> NoSession]
    /\ target = [c \in Connections |-> NoUser]
    /\ response = [c \in Connections |-> "none"]
    /\ creator = [id \in SessionIds |-> NoUser]

\* A handler may start on a request.
Reading(c) == phase[c] = "ready" /\ response[c] = "none"

\* handle_request ends: its response is handed to do_write.
Answer(c, r) ==
    /\ phase' = [phase EXCEPT ![c] = "ready"]
    /\ target' = [target EXCEPT ![c] = NoUser]
    /\ response' = [response EXCEPT ![c] = r]

-----------------------------------------------------------------------------
\* start, which a freshly accepted Connection object enters.
Start(c) ==
    /\ phase[c] = "closed"
    /\ phase' = [phase EXCEPT ![c] = "handshake"]
    /\ UNCHANGED <<managerVars, identityVars, m_users, target, response, creator>>

\* do_handshake: on success the first read begins; on an error nothing keeps
\* the object alive.
DoHandshake(c) ==
    /\ phase[c] = "handshake"
    /\ \E next \in {"ready", "closed"} : phase' = [phase EXCEPT ![c] = next]
    /\ UNCHANGED <<managerVars, identityVars, m_users, target, response, creator>>

\* stop, after a read or write error: the socket is closed and the object
\* goes.  Its session is left as it is.
Stop(c) ==
    /\ phase[c] = "ready"
    /\ phase' = [phase EXCEPT ![c] = "closed"]
    /\ m_authenticated' = [m_authenticated EXCEPT ![c] = FALSE]
    /\ m_user' = [m_user EXCEPT ![c] = NoUser]
    /\ m_session_id' = [m_session_id EXCEPT ![c] = NoSession]
    /\ response' = [response EXCEPT ![c] = "none"]
    /\ UNCHANGED <<managerVars, m_users, target, creator>>

\* do_write, and the read of the next request that follows it.
DoWrite(c) ==
    /\ phase[c] = "ready"
    /\ response[c] # "none"
    /\ response' = [response EXCEPT ![c] = "none"]
    /\ UNCHANGED <<managerVars, identityVars, m_users, phase, target, creator>>

\* handle_request: malformed JSON, an unknown type, an exception.
HandleRequestError(c) ==
    /\ Reading(c)
    /\ Answer(c, "error")
    /\ UNCHANGED <<managerVars, identityVars, m_users, creator>>

\* process_login_request up to authenticate: empty fields, the rate limiter's
\* refusal or a failed authentication.  Whoever was logged in stays so.
LoginRefused(c) ==
    /\ Reading(c)
    /\ Answer(c, "error")
    /\ UNCHANGED <<managerVars, identityVars, m_users, creator>>

\* Faulty: the connection counts as logged in before m_user is set.
LoginVerified_Early(c, u) ==
    /\ Reading(c)
    /\ m_users[u] # NoUser
    /\ m_users[u].active
    /\ phase' = [phase EXCEPT ![c] = "verified"]
    /\ target' = [target EXCEPT ![c] = u]
    /\ m_authenticated' = [m_authenticated EXCEPT ![c] = TRUE]
    /\ UNCHANGED <<managerVars, m_user, m_session_id, m_users, response, creator>>

\* authenticate accepts u, whose account exists and is active at that moment.
LoginVerified(c, u) ==
    /\ Reading(c)
    /\ m_users[u] # NoUser
    /\ m_users[u].active
    /\ phase' = [phase EXCEPT ![c] = "verified"]
    /\ target' = [target EXCEPT ![c] = u]
    /\ UNCHANGED <<managerVars, identityVars, m_users, response, creator>>

\* The rest of process_login_request: get_user reads the account again.
LoginCompleted(c) ==
    LET u == target[c]
    IN  /\ phase[c] = "verified"
        /\ \/ /\ m_users[u] = NoUser
              /\ Answer(c, "error")
              /\ UNCHANGED <<m_user, m_authenticated>>
           \/ /\ m_users[u] # NoUser
              /\ m_user' = [m_user EXCEPT ![c] =
                              [user_name |-> u, role |-> m_users[u].role]]
              /\ m_authenticated' = [m_authenticated EXCEPT ![c] = TRUE]
              /\ Answer(c, "login_successful")
        /\ UNCHANGED <<managerVars, m_session_id, m_users, creator>>

\* process_session_request refuses: no login, no service, or access denied.
SessionRefused(c) ==
    /\ Reading(c)
    /\ m_authenticated[c] =>
          \E s \in Services : <<m_user[c].role, s>> \notin Allowed
    /\ Answer(c, "error")
    /\ UNCHANGED <<managerVars, identityVars, m_users, creator>>

\* can_access_service grants s to the role cached in m_user at the login.
SessionAuthorised(c, s) ==
    /\ Reading(c)
    /\ m_authenticated[c]
    /\ <<m_user[c].role, s>> \in Allowed
    /\ phase' = [phase EXCEPT ![c] = "authorised"]
    /\ target' = [target EXCEPT ![c] = s]
    /\ UNCHANGED <<managerVars, identityVars, m_users, response, creator>>

\* create_session succeeds; its id replaces the one the connection had.
SessionCreated(c, id) ==
    /\ phase[c] = "authorised"
    /\ SM!CreateSession(m_user[c].user_name, id)
    /\ m_session_id' = [m_session_id EXCEPT ![c] = id]
    /\ creator' = [creator EXCEPT ![id] = c]
    /\ Answer(c, "session_created")
    /\ UNCHANGED <<m_authenticated, m_user, m_users>>

\* create_session fails at the user's limit.
SessionOverLimit(c) ==
    /\ phase[c] = "authorised"
    /\ SM!IsUserAtSessionLimit(m_user[c].user_name)
    /\ Answer(c, "error")
    /\ UNCHANGED <<managerVars, identityVars, m_users, creator>>

\* process_proxy_request looks at the connection's own fields only.
ProcessProxyRequest(c) ==
    /\ Reading(c)
    /\ Answer(c, IF m_authenticated[c] /\ m_session_id[c] # NoSession
                 THEN "proxy_active" ELSE "error")
    /\ UNCHANGED <<managerVars, identityVars, m_users, creator>>

\* Faulty: m_session_id is not cleared.
ProcessLogoutRequest_KeepsId(c) ==
    /\ Reading(c)
    /\ m_authenticated[c]
    /\ IF m_session_id[c] # NoSession /\ m_session_id[c] \in SM!Present
       THEN SM!TerminateSession(m_session_id[c])
       ELSE UNCHANGED managerVars
    /\ m_authenticated' = [m_authenticated EXCEPT ![c] = FALSE]
    /\ Answer(c, "logout_successful")
    /\ UNCHANGED <<m_session_id, m_user, m_users, creator>>

\* Faulty: every session of the user is ended, on whatever connection.
ProcessLogoutRequest_EveryDevice(c) ==
    /\ Reading(c)
    /\ m_authenticated[c]
    /\ m_sessions' = SM!Erased(SM!LiveSessions(m_user[c].user_name))
    /\ ended' = ended \cup SM!LiveSessions(m_user[c].user_name)
    /\ m_session_id' = [m_session_id EXCEPT ![c] = NoSession]
    /\ m_authenticated' = [m_authenticated EXCEPT ![c] = FALSE]
    /\ Answer(c, "logout_successful")
    /\ UNCHANGED <<m_total_sessions, now, issued, m_user, m_users, creator>>

\* The failure of terminate_session, when the session is gone, is ignored.
ProcessLogoutRequest(c) ==
    /\ Reading(c)
    /\ m_authenticated[c]
    /\ IF m_session_id[c] # NoSession /\ m_session_id[c] \in SM!Present
       THEN SM!TerminateSession(m_session_id[c])
       ELSE UNCHANGED managerVars
    /\ m_session_id' = [m_session_id EXCEPT ![c] = NoSession]
    /\ m_authenticated' = [m_authenticated EXCEPT ![c] = FALSE]
    /\ Answer(c, "logout_successful")
    /\ UNCHANGED <<m_user, m_users, creator>>

LogoutRefused(c) ==
    /\ Reading(c)
    /\ ~m_authenticated[c]
    /\ Answer(c, "error")
    /\ UNCHANGED <<managerVars, identityVars, m_users, creator>>

-----------------------------------------------------------------------------
\* add_user, update_user and delete_user of the AuthenticationManager.
\* An administrator stores an account under the name it carries.
SetAccount(u, account) ==
    /\ m_users' = [m_users EXCEPT ![u] = account]
    /\ UNCHANGED <<managerVars, identityVars, phase, target, response, creator>>

AddUser(u, account)    == m_users[u] = NoUser /\ SetAccount(u, account)
UpdateUser(u, account) == m_users[u] # NoUser /\ SetAccount(u, account)
DeleteUser(u)          == m_users[u] # NoUser /\ SetAccount(u, NoUser)

Tick ==
    /\ SM!Tick
    /\ UNCHANGED <<m_users, identityVars, phase, target, response, creator>>

Handle(c) ==
    \/ Start(c) \/ DoHandshake(c) \/ Stop(c) \/ DoWrite(c)
    \/ HandleRequestError(c)
    \/ LoginRefused(c) \/ LoginCompleted(c)
    \/ \E u \in Users : LoginVerified(c, u)
    \/ SessionRefused(c) \/ SessionOverLimit(c)
    \/ \E s \in Services : SessionAuthorised(c, s)
    \/ \E id \in SessionIds : SessionCreated(c, id)
    \/ ProcessProxyRequest(c)
    \/ ProcessLogoutRequest(c) \/ LogoutRefused(c)

Administer ==
    \E u \in Users :
        \/ \E a \in Account : AddUser(u, a) \/ UpdateUser(u, a)
        \/ DeleteUser(u)

Next == Tick \/ Administer \/ \E c \in Connections : Handle(c)

Spec == Init /\ [][Next]_vars

-----------------------------------------------------------------------------
TypeOK ==
    /\ SM!TypeOK
    /\ m_users \in [Users -> Account \cup {NoUser}]
    /\ phase \in [Connections -> Phases]
    /\ m_authenticated \in [Connections -> BOOLEAN]
    /\ m_user \in [Connections -> Identity \cup {NoUser}]
    /\ m_session_id \in [Connections -> SessionIds \cup {NoSession}]
    /\ target \in [Connections -> Users \cup Services \cup {NoUser}]
    /\ response \in [Connections -> Responses]
    /\ creator \in [SessionIds -> Connections \cup {NoUser}]
    /\ \A c \in Connections : m_authenticated[c] => m_user[c] # NoUser

\* The limit of create_session holds over all connections of a user together,
\* however their handlers interleave between authorisation and creation.
SessionLimit == SM!SessionLimit

\* The session a connection proxies through was created on it, by a request
\* it authenticated: sessions never cross from one connection to another.
OwnSession ==
    \A c \in Connections :
        m_session_id[c] # NoSession =>
            /\ creator[m_session_id[c]] = c
            /\ \A d \in Connections \ {c} : m_session_id[d] # m_session_id[c]

\* A session that still counts is ended by nothing but a logout of the
\* connection that created it: no other client's request ends it.
EndedByOwner ==
    [][\A id \in SessionIds :
          SM!Counts(id) /\ m_sessions'[id] = NoSession
          => \E c \in Connections :
                creator[id] = c /\ m_authenticated[c] /\ ~m_authenticated'[c]]_vars

\* After a logout the connection reaches no session until it has logged in
\* and created a new one: it may not go on proxying the ended session after
\* the next login.
EndedSessionIsForgotten ==
    \A c \in Connections :
        m_session_id[c] # NoSession => m_session_id[c] \in SM!Present

\* docs/architecture.md:112: "Gateway validates session and authorization".
\* A proxy request is granted only on a session that is present, active and
\* not expired.
ProxyOnValidSession ==
    [][\A c \in Connections :
          response[c] = "none" /\ response'[c] = "proxy_active"
          => SM!Counts(m_session_id[c])]_vars

\* docs/security_model.md:164: "Logout Security: Complete session
\* termination".  When a logout has been answered, no session created on the
\* connection still counts.
LogoutEndsEverySession ==
    [][\A c \in Connections :
          response[c] = "none" /\ response'[c] = "logout_successful"
          => \A id \in SessionIds : creator[id] = c => ~SM!Counts(id)']_vars

\* docs/security_model.md:161: "Session Regeneration: New session on
\* authentication".  The session a logged-in connection proxies through
\* belongs to the user it is logged in as.
SessionOfCurrentUser ==
    \A c \in Connections :
        m_authenticated[c] /\ m_session_id[c] \in SM!Present
        => m_sessions[m_session_id[c]].user_name = m_user[c].user_name

\* docs/security_model.md:10: "Never Trust, Always Verify: Every request is
\* authenticated and authorized regardless of source".  A session is created
\* only for a user whose account exists, is active and has the role that the
\* service requires.
CreatedForCurrentAccount ==
    [][\A c \in Connections :
          response[c] = "none" /\ response'[c] = "session_created"
          => /\ m_users[m_user[c].user_name] # NoUser
             /\ m_users[m_user[c].user_name].active
             /\ <<m_users[m_user[c].user_name].role, target[c]>> \in Allowed]_vars
=============================================================================
