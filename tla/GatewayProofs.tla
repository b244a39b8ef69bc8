--------------------------- MODULE GatewayProofs ---------------------------
(***************************************************************************)
(* Sessions and connections, for any number of both: which connection may  *)
(* proxy through a session, and which may end it.                          *)
(***************************************************************************)
EXTENDS Gateway, FiniteSetTheorems, TLAPS

\* OwnSession alone does not survive a creation: the new id could be one that
\* another connection still points to.  It cannot, because every id a
\* connection points to has been issued and a new one has not.
SessionInv ==
    /\ m_session_id \in [Connections -> SessionIds \cup {NoSession}]
    /\ creator \in [SessionIds -> Connections \cup {NoUser}]
    /\ m_authenticated \in [Connections -> BOOLEAN]
    /\ \A c \in Connections :
          m_session_id[c] # NoSession =>
              /\ m_session_id[c] \in issued
              /\ creator[m_session_id[c]] = c

LEMMA SessionInvStep ==
  ASSUME SessionInv, [Next]_vars
  PROVE  SessionInv'
<1> USE GatewayAssumption DEF SessionInv
<1>1. CASE UNCHANGED <<m_session_id, creator, issued, m_authenticated>>
  BY <1>1
<1>2. ASSUME NEW c \in Connections,
             \/ Start(c) \/ DoHandshake(c) \/ DoWrite(c) \/ HandleRequestError(c)
             \/ LoginRefused(c) \/ SessionRefused(c)
             \/ SessionOverLimit(c) \/ ProcessProxyRequest(c) \/ LogoutRefused(c)
      PROVE  SessionInv'
  BY <1>1, <1>2 DEF Start, DoHandshake, DoWrite, HandleRequestError,
       LoginRefused, SessionRefused, SessionOverLimit,
       ProcessProxyRequest, LogoutRefused, managerVars, identityVars
<1>3. ASSUME NEW c \in Connections, NEW u \in Users, LoginVerified(c, u)
      PROVE  SessionInv'
  BY <1>1, <1>3 DEF LoginVerified, managerVars, identityVars
<1>4. ASSUME NEW c \in Connections, NEW s \in Services, SessionAuthorised(c, s)
      PROVE  SessionInv'
  BY <1>1, <1>4 DEF SessionAuthorised, managerVars, identityVars
<1>5. ASSUME NEW c \in Connections, Stop(c)
      PROVE  SessionInv'
  BY <1>5 DEF Stop, managerVars
<1>6. ASSUME NEW c \in Connections, ProcessLogoutRequest(c)
      PROVE  SessionInv'
  <2>1. issued' = issued
    BY <1>6 DEF ProcessLogoutRequest, SM!TerminateSession, managerVars
  <2> QED
    BY <1>6, <2>1 DEF ProcessLogoutRequest
<1>7. ASSUME NEW c \in Connections, NEW id \in SessionIds, SessionCreated(c, id)
      PROVE  SessionInv'
  <2>1. id \notin issued /\ issued' = issued \cup {id}
    BY <1>7 DEF SessionCreated, SM!CreateSession, SM!FreshId
  <2>2. \A d \in Connections : m_session_id[d] # id
    BY <2>1
  <2> QED
    BY <1>7, <2>1, <2>2 DEF SessionCreated
<1>8. ASSUME NEW c \in Connections, LoginCompleted(c)
       PROVE  SessionInv'
  <2>1. UNCHANGED <<m_session_id, creator, issued>>
    BY <1>8 DEF LoginCompleted, managerVars
  <2>2. \/ UNCHANGED m_authenticated
        \/ m_authenticated' = [m_authenticated EXCEPT ![c] = TRUE]
    BY <1>8 DEF LoginCompleted
  <2> QED
    BY <2>1, <2>2
<1>9. CASE Tick
  BY <1>1, <1>9 DEF Tick, SM!Tick, identityVars
<1>10. CASE Administer
  BY <1>1, <1>10 DEF Administer, AddUser, UpdateUser, DeleteUser, SetAccount,
                    managerVars, identityVars
<1>11. CASE UNCHANGED vars
  BY <1>1, <1>11 DEF vars
<1> QED
  BY <1>2, <1>3, <1>4, <1>5, <1>6, <1>7, <1>8, <1>9, <1>10, <1>11
     DEF Next, Handle

\* The invariant holds from the start: no connection has a session.
LEMMA SessionInvHolds == Spec => []SessionInv
<1>1. Init => SessionInv
  BY GatewayAssumption DEF Init, SessionInv
<1> QED
  BY <1>1, SessionInvStep, PTL DEF Spec

\* A session is reached by the connection that created it and by no other.
THEOREM OwnSessionHolds == Spec => []OwnSession
<1>1. SessionInv => OwnSession
  BY GatewayAssumption DEF SessionInv, OwnSession
<1> QED
  BY <1>1, SessionInvHolds, PTL

\* A session that counts is ended only by a logout on that connection.
THEOREM EndedByOwnerHolds == Spec => EndedByOwner
<1>1. SessionInv /\ [Next]_vars
      => [\A id \in SessionIds :
             SM!Counts(id) /\ m_sessions'[id] = NoSession
             => \E c \in Connections :
                   creator[id] = c /\ m_authenticated[c] /\ ~m_authenticated'[c]]_vars
  <2> SUFFICES ASSUME SessionInv, [Next]_vars, NEW id \in SessionIds,
                      m_sessions[id] # NoSession, m_sessions'[id] = NoSession
               PROVE  \E c \in Connections :
                   creator[id] = c /\ m_authenticated[c] /\ ~m_authenticated'[c]
    BY DEF SM!Counts
  <2>1. ASSUME NEW c \in Connections, ProcessLogoutRequest(c)
        PROVE  creator[id] = c /\ m_authenticated[c] /\ ~m_authenticated'[c]
    <3>1. /\ m_session_id[c] # NoSession
          /\ m_sessions' = SM!Erased({m_session_id[c]})
      BY <2>1 DEF ProcessLogoutRequest, SM!TerminateSession, managerVars
    <3>2. id = m_session_id[c]
      BY <3>1 DEF SM!Erased
    <3>3. creator[id] = c
      BY <3>1, <3>2 DEF SessionInv
    <3>4. m_authenticated[c] /\ ~m_authenticated'[c]
      BY <2>1 DEF ProcessLogoutRequest, SessionInv
    <3> QED
      BY <3>3, <3>4
  <2>2. ASSUME NEW c \in Connections, NEW i \in SessionIds, SessionCreated(c, i)
        PROVE  FALSE
    <3> DEFINE s == [session_id |-> i, user_name |-> m_user[c].user_name,
                     expires_at |-> now + SessionTimeout, active |-> TRUE]
    <3>1. m_sessions' = [m_sessions EXCEPT ![i] = s]
      BY <2>2 DEF SessionCreated, SM!CreateSession
    <3>2. id # i
      BY <2>2 DEF SessionCreated, SM!CreateSession, SM!FreshId, SM!Present
    <3> QED
      BY <3>1, <3>2
  <2>3. CASE UNCHANGED m_sessions
    BY <2>3
  <2>4. ASSUME NEW c \in Connections, ~ProcessLogoutRequest(c),
               \A i \in SessionIds : ~SessionCreated(c, i), Handle(c)
        PROVE  UNCHANGED m_sessions
    BY <2>4 DEF Handle, Start, DoHandshake, Stop, DoWrite, HandleRequestError,
       LoginRefused, LoginVerified, LoginCompleted, SessionRefused,
       SessionAuthorised, SessionOverLimit, ProcessProxyRequest,
       LogoutRefused, managerVars
  <2>5. CASE Tick \/ Administer \/ UNCHANGED vars
    BY <2>3, <2>5 DEF Tick, SM!Tick, Administer, AddUser, UpdateUser, DeleteUser,
       SetAccount, managerVars, vars
  <2> QED
    BY <2>1, <2>2, <2>3, <2>4, <2>5 DEF Next
<1> QED
  BY <1>1, SessionInvHolds, PTL DEF Spec, EndedByOwner

-----------------------------------------------------------------------------
(* Types.                                                                  *)

\* A session request is authorised only on a connection that has a user, and it
\* cannot lose it before the session is created.
TypeInv ==
    /\ TypeOK
    /\ \A c \in Connections :
          /\ phase[c] = "verified" => target[c] \in Users
          /\ phase[c] = "authorised" => m_authenticated[c]

\* The table of a gateway that has just been started.
LEMMA InitTyped == Init => TypeInv
<1> USE GatewayAssumption
<1>1. << >> \in [{} -> SM!Session \cup {NoSession}]
  OBVIOUS
<1> QED
  BY <1>1 DEF Init, TypeInv, TypeOK, SM!TypeOK, SM!Present, Phases, Responses

\* A step that leaves the table of sessions alone, whatever it answers.
LEMMA QuietTyped ==
    ASSUME TypeInv, NEW c \in Connections, UNCHANGED <<managerVars, m_users, creator>>,
           \/ Start(c) \/ DoHandshake(c) \/ Stop(c) \/ DoWrite(c) \/ HandleRequestError(c)
           \/ LoginRefused(c) \/ SessionRefused(c) \/ SessionOverLimit(c)
           \/ ProcessProxyRequest(c) \/ LogoutRefused(c)
    PROVE  TypeInv'
<1> USE GatewayAssumption DEF TypeInv, TypeOK, Phases, Responses, identityVars, managerVars
<1>1. SM!TypeOK'
  BY DEF SM!TypeOK, SM!Present
<1>2. CASE Start(c)
  BY <1>1, <1>2 DEF Start
<1>3. CASE DoHandshake(c)
  BY <1>1, <1>3 DEF DoHandshake
<1>4. CASE Stop(c)
  BY <1>1, <1>4 DEF Stop
<1>5. CASE DoWrite(c)
  BY <1>1, <1>5 DEF DoWrite
<1>6. ASSUME NEW r \in Responses, Answer(c, r), UNCHANGED identityVars
      PROVE  TypeInv'
  BY <1>1, <1>6 DEF Answer
<1>7. CASE HandleRequestError(c) \/ LoginRefused(c) \/ SessionRefused(c)
           \/ SessionOverLimit(c) \/ ProcessProxyRequest(c) \/ LogoutRefused(c)
  BY <1>6, <1>7 DEF HandleRequestError, LoginRefused, SessionRefused, SessionOverLimit,
                    ProcessProxyRequest, LogoutRefused
<1> QED
  BY <1>2, <1>3, <1>4, <1>5, <1>7

\* The session that create_session makes for the user of the connection.
LEMMA CreatedTyped ==
    ASSUME TypeInv, NEW c \in Connections, NEW id \in SessionIds, SessionCreated(c, id)
    PROVE  /\ TypeInv'
           /\ m_user[c].user_name \in Users
<1> USE GatewayAssumption DEF TypeInv, TypeOK, Phases, Responses
<1> DEFINE s == [session_id |-> id, user_name |-> m_user[c].user_name,
                 expires_at |-> now + SessionTimeout, active |-> TRUE]
<1>1. m_user[c].user_name \in Users
  BY DEF SessionCreated, Identity
<1>2. now + SessionTimeout \in Int
  BY DEF SM!TypeOK
<1>3. s \in SM!Session /\ s.session_id = id
  BY <1>1, <1>2 DEF SM!Session
<1>4. /\ m_sessions' = [m_sessions EXCEPT ![id] = s]
      /\ m_total_sessions' = m_total_sessions + 1
      /\ issued' = issued \cup {id} /\ ended' = ended \ {id} /\ now' = now
  BY DEF SessionCreated, SM!CreateSession
<1> HIDE DEF s
<1>5. SM!TypeOK'
  BY <1>3, <1>4 DEF SM!TypeOK, SM!Present
<1> QED
  BY <1>1, <1>5 DEF SessionCreated, Answer

LEMMA TypeStep ==
    ASSUME TypeInv, [Next]_vars
    PROVE  TypeInv'
<1> USE GatewayAssumption DEF TypeInv, TypeOK, Phases, Responses, identityVars, managerVars
<1>1. ASSUME UNCHANGED managerVars
      PROVE  SM!TypeOK'
  BY <1>1 DEF SM!TypeOK, SM!Present
<1>2. ASSUME NEW c \in Connections,
             \/ Start(c) \/ DoHandshake(c) \/ Stop(c) \/ DoWrite(c) \/ HandleRequestError(c)
             \/ LoginRefused(c) \/ SessionRefused(c) \/ SessionOverLimit(c)
             \/ ProcessProxyRequest(c) \/ LogoutRefused(c)
      PROVE  TypeInv'
  <2>1. UNCHANGED <<managerVars, m_users, creator>>
    BY <1>2 DEF Start, DoHandshake, Stop, DoWrite, HandleRequestError, LoginRefused,
         SessionRefused, SessionOverLimit, ProcessProxyRequest, LogoutRefused
  <2> QED
    BY <1>2, <2>1, QuietTyped
<1>3. ASSUME NEW c \in Connections, NEW u \in Users, LoginVerified(c, u)
      PROVE  TypeInv'
  BY <1>1, <1>3 DEF LoginVerified, Reading
<1>4. ASSUME NEW c \in Connections, LoginCompleted(c)
      PROVE  TypeInv'
  <2>1. CASE Answer(c, "error") /\ UNCHANGED <<m_user, m_authenticated>>
    BY <1>1, <1>4, <2>1 DEF LoginCompleted, Answer
  <2>2. CASE /\ m_users[target[c]] # NoUser
             /\ m_user' = [m_user EXCEPT ![c] = [user_name |-> target[c],
                                                 role |-> m_users[target[c]].role]]
             /\ m_authenticated' = [m_authenticated EXCEPT ![c] = TRUE]
             /\ Answer(c, "login_successful")
    <3>1. target[c] \in Users
      BY <1>4 DEF LoginCompleted
    <3>2. m_users[target[c]].role \in Roles
      BY <2>2, <3>1 DEF Account
    <3>3. [user_name |-> target[c], role |-> m_users[target[c]].role] \in Identity
      BY <3>1, <3>2 DEF Identity
    <3> QED
      BY <1>1, <1>4, <2>2, <3>3 DEF LoginCompleted, Answer
  <2> QED
    BY <1>4, <2>1, <2>2 DEF LoginCompleted
<1>5. ASSUME NEW c \in Connections, NEW s \in Services, SessionAuthorised(c, s)
      PROVE  TypeInv'
  BY <1>1, <1>5 DEF SessionAuthorised, Reading
<1>6. ASSUME NEW c \in Connections, NEW id \in SessionIds, SessionCreated(c, id)
      PROVE  TypeInv'
  BY <1>6, CreatedTyped
<1>7. ASSUME NEW c \in Connections, ProcessLogoutRequest(c)
      PROVE  TypeInv'
  <2>1. SM!TypeOK'
    BY <1>1, <1>7 DEF ProcessLogoutRequest, SM!TerminateSession, SM!Erased, SM!TypeOK,
                      SM!Present
  <2> QED
    BY <1>7, <2>1 DEF ProcessLogoutRequest, Answer, Reading
<1>8. CASE Tick
  BY <1>8 DEF Tick, SM!Tick, SM!TypeOK, SM!Present
<1>9. CASE Administer
  BY <1>1, <1>9 DEF Administer, AddUser, UpdateUser, DeleteUser, SetAccount
<1>10. CASE UNCHANGED vars
  BY <1>1, <1>10 DEF vars
<1> QED
  BY <1>2, <1>3, <1>4, <1>5, <1>6, <1>7, <1>8, <1>9, <1>10 DEF Next, Handle

\* Every reachable state is well typed, and a connection that counts as logged
\* in has a user.
THEOREM TypeCorrect == Spec => []TypeOK
<1>1. TypeInv => TypeOK
  BY DEF TypeInv
<1> QED
  BY <1>1, InitTyped, TypeStep, PTL DEF Spec

-----------------------------------------------------------------------------
(* What the handlers do to the table of sessions.                          *)

\* Only the creation of a session and a logout touch the table.
LEMMA TableSteps ==
    ASSUME [Next]_vars
    PROVE  \/ UNCHANGED m_sessions /\ (now' = now \/ now' = now + 1)
           \/ \E c \in Connections, id \in SessionIds : SessionCreated(c, id)
           \/ \E c \in Connections : ProcessLogoutRequest(c)
<1>1. ASSUME NEW c \in Connections, Handle(c), ~ProcessLogoutRequest(c),
             \A id \in SessionIds : ~SessionCreated(c, id)
      PROVE  UNCHANGED <<m_sessions, now>>
  BY <1>1 DEF Handle, Start, DoHandshake, Stop, DoWrite, HandleRequestError,
       LoginRefused, LoginVerified, LoginCompleted, SessionRefused, SessionAuthorised,
       SessionOverLimit, ProcessProxyRequest, LogoutRefused, managerVars
<1>2. CASE Tick
  BY <1>2 DEF Tick, SM!Tick
<1>3. CASE Administer \/ UNCHANGED vars
  BY <1>3 DEF Administer, AddUser, UpdateUser, DeleteUser, SetAccount, managerVars, vars
<1> QED
  BY <1>1, <1>2, <1>3 DEF Next

\* A logout removes the session the connection has, or none.
LEMMA LogoutErases ==
    ASSUME NEW c \in Connections, ProcessLogoutRequest(c)
    PROVE  /\ now' = now
           /\ \/ m_sessions' = SM!Erased({m_session_id[c]})
              \/ UNCHANGED m_sessions
BY DEF ProcessLogoutRequest, SM!TerminateSession, managerVars

-----------------------------------------------------------------------------
(* The limit.                                                              *)

\* The cardinality the instance speaks of is the cardinality.
LEMMA CardinalityOfManager == \A S : SM!Cardinality(S) = Cardinality(S)
BY DEF SM!Cardinality, Cardinality

LEMMA LiveFinite ==
    ASSUME NEW u
    PROVE  /\ IsFiniteSet(SM!LiveSessions(u))
           /\ Cardinality(SM!LiveSessions(u)) \in Nat
<1>1. SM!LiveSessions(u) \in SUBSET SessionIds
  BY DEF SM!LiveSessions
<1> QED
  BY <1>1, FS_Subset, FS_CardinalityType, GatewayAssumption DEF GatewayAssumption

\* A session counts for its user from its creation on; nothing else the gateway
\* does makes a session count.
LEMMA OnlyCreationAdds ==
    ASSUME TypeInv, [Next]_vars, NEW u \in Users,
           \A c \in Connections, id \in SessionIds : ~SessionCreated(c, id)
    PROVE  SM!LiveSessions(u)' \subseteq SM!LiveSessions(u)
<1> USE DEF TypeInv, TypeOK, SM!TypeOK, SM!LiveSessions, SM!Counts
<1>1. CASE UNCHANGED m_sessions /\ (now' = now \/ now' = now + 1)
  <2>1. \A id \in SessionIds : m_sessions[id] # NoSession => m_sessions[id].expires_at \in Int
    BY DEF SM!Session
  <2> QED
    BY <1>1, <2>1
<1>2. ASSUME NEW c \in Connections, ProcessLogoutRequest(c)
      PROVE  SM!LiveSessions(u)' \subseteq SM!LiveSessions(u)
  BY <1>2, LogoutErases DEF SM!Erased
<1> QED
  BY <1>1, <1>2, TableSteps

\* A creation adds one session for one user, who was below the limit.
LEMMA CreationAddsOne ==
    ASSUME TypeInv, NEW c \in Connections, NEW id \in SessionIds, SessionCreated(c, id),
           NEW u \in Users
    PROVE  \/ SM!LiveSessions(u)' \subseteq SM!LiveSessions(u)
           \/ /\ SM!LiveSessions(u)' = SM!LiveSessions(u) \cup {id}
              /\ id \notin SM!LiveSessions(u)
              /\ ~(SM!Cardinality(SM!LiveSessions(u)) >= MaxSessionsPerUser)
<1> USE DEF TypeInv, TypeOK, SM!TypeOK, SM!LiveSessions, SM!Counts
<1> DEFINE s == [session_id |-> id, user_name |-> m_user[c].user_name,
                 expires_at |-> now + SessionTimeout, active |-> TRUE]
<1>1. m_sessions' = [m_sessions EXCEPT ![id] = s] /\ now' = now
  BY DEF SessionCreated, SM!CreateSession
<1>2. m_sessions[id] = NoSession
  BY DEF SessionCreated, SM!CreateSession, SM!FreshId, SM!Present
<1>3. s # NoSession /\ s.active /\ now <= s.expires_at
  <2>1. now + SessionTimeout \in Int /\ now <= now + SessionTimeout
    BY GatewayAssumption DEF GatewayAssumption
  <2>2. m_user[c].user_name \in Users
    BY CreatedTyped
  <2>3. s \in SM!Session
    BY <2>1, <2>2 DEF SM!Session
  <2> QED
    BY <2>1, <2>3, SessionAssumption DEF SessionAssumption
<1>4. s.user_name = m_user[c].user_name
  OBVIOUS
<1> HIDE DEF s
<1>5. m_sessions'[id] = s /\ \A i \in SessionIds \ {id} : m_sessions'[i] = m_sessions[i]
  BY <1>1
<1>6. CASE u # m_user[c].user_name
  BY <1>1, <1>4, <1>5, <1>6
<1>7. CASE u = m_user[c].user_name
  <2>1. ~(SM!Cardinality(SM!LiveSessions(u)) >= MaxSessionsPerUser)
    BY <1>7 DEF SessionCreated, SM!CreateSession, SM!IsUserAtSessionLimit
  <2>2. SM!LiveSessions(u)' = SM!LiveSessions(u) \cup {id}
    BY <1>1, <1>3, <1>4, <1>5, <1>7
  <2> QED
    BY <1>2, <2>1, <2>2
<1> QED
  BY <1>6, <1>7

\* However the handlers of a user's connections interleave between authorisation
\* and creation, the user never has more sessions than the limit.
THEOREM SessionLimitHolds == Spec => []SessionLimit
<1> DEFINE Limited == \A u \in Users :
                         Cardinality(SM!LiveSessions(u)) <= MaxSessionsPerUser
<1>1. Init => Limited
  <2> SUFFICES ASSUME Init, NEW u \in Users
               PROVE  Cardinality(SM!LiveSessions(u)) <= MaxSessionsPerUser
    OBVIOUS
  <2>1. SM!LiveSessions(u) = {}
    BY DEF Init, SM!LiveSessions, SM!Counts
  <2> QED
    BY <2>1, FS_EmptySet, GatewayAssumption DEF GatewayAssumption
<1>2. TypeInv /\ Limited /\ [Next]_vars => Limited'
  <2> SUFFICES ASSUME TypeInv, Limited, [Next]_vars, NEW u \in Users
               PROVE  Cardinality(SM!LiveSessions(u)') <= MaxSessionsPerUser
    OBVIOUS
  <2>1. /\ IsFiniteSet(SM!LiveSessions(u))
        /\ Cardinality(SM!LiveSessions(u)) \in Nat
        /\ Cardinality(SM!LiveSessions(u)) <= MaxSessionsPerUser
        /\ MaxSessionsPerUser \in Nat
    BY LiveFinite, GatewayAssumption DEF GatewayAssumption
  <2>2. CASE SM!LiveSessions(u)' \subseteq SM!LiveSessions(u)
    <3>1. /\ Cardinality(SM!LiveSessions(u)') <= Cardinality(SM!LiveSessions(u))
          /\ Cardinality(SM!LiveSessions(u)') \in Nat
      BY <2>1, <2>2, FS_Subset, FS_CardinalityType
    <3> QED
      BY <2>1, <3>1
  <2>3. ASSUME NEW id,
               SM!LiveSessions(u)' = SM!LiveSessions(u) \cup {id},
               id \notin SM!LiveSessions(u),
               ~(SM!Cardinality(SM!LiveSessions(u)) >= MaxSessionsPerUser)
        PROVE  Cardinality(SM!LiveSessions(u)') <= MaxSessionsPerUser
    <3>1. Cardinality(SM!LiveSessions(u)') = Cardinality(SM!LiveSessions(u)) + 1
      BY <2>1, <2>3, FS_AddElement
    <3>2. ~(Cardinality(SM!LiveSessions(u)) >= MaxSessionsPerUser)
      BY <2>3, CardinalityOfManager
    <3> QED
      BY <2>1, <3>1, <3>2
  <2>4. ASSUME NEW c \in Connections, NEW id \in SessionIds, SessionCreated(c, id)
        PROVE  Cardinality(SM!LiveSessions(u)') <= MaxSessionsPerUser
    BY <2>2, <2>3, <2>4, CreationAddsOne
  <2> QED
    BY <2>2, <2>4, OnlyCreationAdds
<1>3. Limited => SessionLimit
  BY CardinalityOfManager DEF SessionLimit, SM!SessionLimit
<1> QED
  BY <1>1, <1>2, <1>3, InitTyped, TypeStep, PTL DEF Spec

\* A session that counts did so before and belongs to the same user, unless it
\* was created just now.
LEMMA OnlyCreationBegins ==
    ASSUME TypeInv, [Next]_vars, NEW id \in SessionIds, SM!Counts(id)',
           \A c \in Connections, i \in SessionIds : ~SessionCreated(c, i)
    PROVE  /\ SM!Counts(id)
           /\ m_sessions'[id].user_name = m_sessions[id].user_name
<1> USE DEF TypeInv, TypeOK, SM!TypeOK, SM!Counts
<1>1. CASE UNCHANGED m_sessions /\ (now' = now \/ now' = now + 1)
  <2>1. m_sessions[id] # NoSession => m_sessions[id].expires_at \in Int
    BY DEF SM!Session
  <2> QED
    BY <1>1, <2>1
<1>2. ASSUME NEW c \in Connections, ProcessLogoutRequest(c)
      PROVE  /\ SM!Counts(id)
             /\ m_sessions'[id].user_name = m_sessions[id].user_name
  BY <1>2, LogoutErases DEF SM!Erased
<1> QED
  BY <1>1, <1>2, TableSteps

\* A creation begins one session, of the user of the connection, and leaves
\* the others as they were.
LEMMA CreationBeginsOne ==
    ASSUME TypeInv, NEW c \in Connections, NEW id \in SessionIds, SessionCreated(c, id)
    PROVE  /\ m_user[c].user_name \in Users
           /\ ~SM!Counts(id) /\ SM!Counts(id)'
           /\ m_sessions'[id].user_name = m_user[c].user_name
           /\ \A i \in SessionIds \ {id} : /\ SM!Counts(i)' <=> SM!Counts(i)
                                           /\ m_sessions'[i] = m_sessions[i]
<1> USE DEF TypeInv, TypeOK, SM!TypeOK, SM!Counts
<1> DEFINE s == [session_id |-> id, user_name |-> m_user[c].user_name,
                 expires_at |-> now + SessionTimeout, active |-> TRUE]
<1>1. m_sessions' = [m_sessions EXCEPT ![id] = s] /\ now' = now
  BY DEF SessionCreated, SM!CreateSession
<1>2. m_sessions[id] = NoSession
  BY DEF SessionCreated, SM!CreateSession, SM!FreshId, SM!Present
<1>3. m_user[c].user_name \in Users
  BY CreatedTyped
<1>4. s # NoSession /\ s.active /\ now <= s.expires_at
  <2>1. now + SessionTimeout \in Int /\ now <= now + SessionTimeout
    BY GatewayAssumption DEF GatewayAssumption
  <2>2. s \in SM!Session
    BY <1>3, <2>1 DEF SM!Session
  <2> QED
    BY <2>1, <2>2, SessionAssumption DEF SessionAssumption
<1>5. s.user_name = m_user[c].user_name
  OBVIOUS
<1> HIDE DEF s
<1> QED
  BY <1>1, <1>2, <1>3, <1>4, <1>5

\* The gateway as a whole keeps the promise of SessionQuota: through every
\* interleaving of handlers, an id is taken by a user below the limit, and the
\* only other thing that happens to ids is that they stop counting.
THEOREM ImplementsQuota == NoSession \notin Users => (Spec => SM!QuotaSpec)
<1> SUFFICES ASSUME NoSession \notin Users
             PROVE  Spec => SM!QuotaSpec
  OBVIOUS
<1> DEFINE h == [id \in SessionIds |-> IF SM!Counts(id) THEN m_sessions[id].user_name
                                                        ELSE SM!Nobody]
<1>1. Init => SM!Quota!Init
  BY DEF Init, SM!Quota!Init, SM!Counts
<1>2. TypeInv /\ [Next]_vars => [SM!Quota!Next]_h
  <2> SUFFICES ASSUME TypeInv, [Next]_vars
               PROVE  SM!Quota!Next
    OBVIOUS
  <2>1. ASSUME NEW c \in Connections, NEW id \in SessionIds, SessionCreated(c, id)
        PROVE  SM!Quota!Next
    <3> DEFINE u == m_user[c].user_name
    <3>1. u \in Users /\ h[id] = SM!Nobody
      BY <2>1, CreationBeginsOne
    <3>2. SM!Quota!Held(u) = SM!LiveSessions(u)
      BY <3>1 DEF SM!Quota!Held, SM!LiveSessions, SM!Nobody
    <3>3. Cardinality(SM!LiveSessions(u)) < MaxSessionsPerUser
      BY <2>1, LiveFinite, CardinalityOfManager, GatewayAssumption
         DEF GatewayAssumption, SessionCreated, SM!CreateSession, SM!IsUserAtSessionLimit
    <3>4. \A i \in SessionIds : h'[i] = IF i = id THEN u ELSE h[i]
      BY <2>1, CreationBeginsOne
    <3>5. h' = [h EXCEPT ![id] = u]
      BY <3>4
    <3>6. SM!Quota!Cardinality(SM!LiveSessions(u)) = Cardinality(SM!LiveSessions(u))
      BY DEF SM!Quota!Cardinality, Cardinality
    <3>7. SM!Quota!Admit(u, id)
      BY <3>1, <3>2, <3>3, <3>5, <3>6 DEF SM!Quota!Admit
    <3> QED
      BY <3>1, <3>7 DEF SM!Quota!Next
  <2>2. CASE \A c \in Connections, id \in SessionIds : ~SessionCreated(c, id)
    <3> DEFINE stopped == {id \in SessionIds : ~SM!Counts(id)'}
    <3>1. \A id \in SessionIds : h'[id] = IF id \in stopped THEN SM!Nobody ELSE h[id]
      BY <2>2, OnlyCreationBegins
    <3> HIDE DEF stopped
    <3>2. stopped \in SUBSET SessionIds
      BY DEF stopped
    <3>3. h' = [id \in SessionIds |-> IF id \in stopped THEN SM!Nobody ELSE h[id]]
      BY <3>1
    <3> QED
      BY <3>2, <3>3 DEF SM!Quota!Next, SM!Quota!Release
  <2> QED
    BY <2>1, <2>2
<1>3. Spec => []TypeInv
  BY InitTyped, TypeStep, PTL DEF Spec
<1> QED
  BY <1>1, <1>2, <1>3, PTL DEF Spec, SM!QuotaSpec, SM!Quota!Spec

-----------------------------------------------------------------------------
(* Logged out.                                                             *)

\* The session a connection has is in the table: it leaves it by a logout, which
\* makes that connection forget it, and no other connection has it.
HeldInv == TypeInv /\ SessionInv /\ EndedSessionIsForgotten

LEMMA HeldStep ==
    ASSUME HeldInv, [Next]_vars
    PROVE  HeldInv'
<1> USE GatewayAssumption, SessionAssumption
        DEF HeldInv, EndedSessionIsForgotten, SM!Present
<1>1. TypeInv' /\ SessionInv'
  BY TypeStep, SessionInvStep
<1>2. ASSUME NEW c \in Connections, NEW id \in SessionIds, SessionCreated(c, id)
      PROVE  EndedSessionIsForgotten'
  <2> DEFINE s == [session_id |-> id, user_name |-> m_user[c].user_name,
                   expires_at |-> now + SessionTimeout, active |-> TRUE]
  <2>1. /\ m_sessions' = [m_sessions EXCEPT ![id] = s]
        /\ m_session_id' = [m_session_id EXCEPT ![c] = id]
    BY <1>2 DEF SessionCreated, SM!CreateSession
  <2>2. s # NoSession
    <3>1. now + SessionTimeout \in Int /\ m_user[c].user_name \in Users
      BY <1>2, CreatedTyped DEF TypeInv, TypeOK, SM!TypeOK
    <3>2. s \in SM!Session
      BY <3>1 DEF SM!Session
    <3> QED
      BY <3>2
  <2> HIDE DEF s
  <2> QED
    BY <2>1, <2>2 DEF TypeInv, TypeOK, SM!TypeOK, SessionInv
<1>3. ASSUME NEW c \in Connections, ProcessLogoutRequest(c)
      PROVE  EndedSessionIsForgotten'
  <2>1. m_session_id' = [m_session_id EXCEPT ![c] = NoSession]
    BY <1>3 DEF ProcessLogoutRequest
  <2>2. \A d \in Connections \ {c} :
           m_session_id[d] # NoSession => m_session_id[d] # m_session_id[c]
    BY DEF SessionInv
  <2> QED
    BY <1>3, <2>1, <2>2, LogoutErases DEF SM!Erased, SessionInv
<1>4. CASE /\ UNCHANGED m_sessions
           /\ \A c \in Connections, id \in SessionIds : ~SessionCreated(c, id)
           /\ \A c \in Connections : ~ProcessLogoutRequest(c)
  <2>1. \/ UNCHANGED m_session_id
        \/ \E c \in Connections : m_session_id' = [m_session_id EXCEPT ![c] = NoSession]
    BY <1>4 DEF Next, Handle, Start, DoHandshake, Stop, DoWrite, HandleRequestError,
         LoginRefused, LoginVerified, LoginCompleted, SessionRefused, SessionAuthorised,
         SessionOverLimit, ProcessProxyRequest, LogoutRefused, Tick, Administer,
         AddUser, UpdateUser, DeleteUser, SetAccount, identityVars, vars
  <2> QED
    BY <1>1, <1>4, <2>1 DEF SessionInv
<1> QED
  BY <1>1, <1>2, <1>3, <1>4, TableSteps

\* After a logout, or whatever else ends a session, no connection has it any
\* longer.
THEOREM EndedSessionIsForgottenHolds == Spec => []EndedSessionIsForgotten
<1>1. Init => HeldInv
  BY InitTyped, GatewayAssumption
     DEF Init, HeldInv, SessionInv, EndedSessionIsForgotten, GatewayAssumption
<1>2. HeldInv => EndedSessionIsForgotten
  BY DEF HeldInv
<1> QED
  BY <1>1, <1>2, HeldStep, PTL DEF Spec
=============================================================================
