------------------------ MODULE SessionManagerProofs ------------------------
(***************************************************************************)
(* What SessionManager guarantees for any number of users, ids and callers *)
(* and any limit, timeout and bounds.                                      *)
(***************************************************************************)
EXTENDS SessionManager, FiniteSetTheorems, TLAPS

\* Every reachable state is well typed.  The ids in the map are drawn and not
\* terminated, whoever writes copies under whichever of them; a session is under
\* its own id as long as nobody calls update_session.
THEOREM TypeCorrect == Spec => []TypeOK
<1> USE SessionManagerAssumption
<1>1. Init => TypeOK
  BY DEF Init, TypeOK, Present
<1>2. TypeOK /\ [Next]_vars => TypeOK'
  <2> SUFFICES ASSUME TypeOK, [Next]_vars
               PROVE  TypeOK'
    OBVIOUS
  <2> USE DEF TypeOK, Present
  <2>1. CASE Tick
    BY <2>1 DEF Tick
  <2>2. CASE SetClockBack
    BY <2>2 DEF SetClockBack
  <2>3. ASSUME NEW u \in Users, NEW id \in SessionIds, CreateSession(u, id)
        PROVE  TypeOK'
    <3>1. now + SessionTimeout \in Int
      OBVIOUS
    <3>2. [session_id |-> id, user_name |-> u,
           expires_at |-> now + SessionTimeout, active |-> TRUE] \in Session
      BY <3>1 DEF Session
    <3>3. m_sessions' \in [SessionIds -> Session \cup {NoSession}]
      BY <2>3, <3>2 DEF CreateSession
    <3>4. Present' \subseteq issued' \ ended' /\ ended' \subseteq issued'
      BY <2>3 DEF CreateSession
    <3> QED
      BY <2>3, <3>3, <3>4 DEF CreateSession
  <2>4. ASSUME NEW id \in SessionIds, GetSession(id)
        PROVE  TypeOK'
    <3>1. CASE m_sessions' = Erased({id}) /\ UNCHANGED copies
      BY <2>4, <3>1 DEF GetSession, Erased
    <3>2. CASE UNCHANGED m_sessions /\ KeepCopy({m_sessions[id]})
      BY <2>4, <3>2 DEF GetSession, KeepCopy
    <3> QED
      BY <2>4, <3>1, <3>2 DEF GetSession
  <2>5. ASSUME NEW c \in Callers, NEW id \in SessionIds, NEW e \in 0..MaxExpiry,
               NEW a \in BOOLEAN, UpdateSession(c, id, e, a)
        PROVE  TypeOK'
    <3>1. copies[c] \in Session
      BY <2>5 DEF UpdateSession
    <3>2. e \in Int
      OBVIOUS
    <3>3. [copies[c] EXCEPT !.expires_at = e, !.active = a] \in Session
      BY <3>1, <3>2, Zenon DEF Session
    <3> QED
      BY <2>5, <3>1, <3>3 DEF UpdateSession
  <2>6. ASSUME NEW id \in SessionIds, TerminateSession(id)
        PROVE  TypeOK'
    BY <2>6 DEF TerminateSession, Erased
  <2>7. CASE GetActiveSessions
    BY <2>7 DEF GetActiveSessions, CleanupExpiredSessionsInternal, Erased, KeepCopy
  <2>8. ASSUME NEW u \in Users, GetSessionsByUser(u)
        PROVE  TypeOK'
    BY <2>8 DEF GetSessionsByUser, CleanupExpiredSessionsInternal, Erased, KeepCopy
  <2>9. CASE CleanupExpiredSessions
    BY <2>9 DEF CleanupExpiredSessions, CleanupExpiredSessionsInternal, Erased
  <2>10. ASSUME NEW id \in SessionIds, NEW d \in Extensions, ExtendSession(id, d)
         PROVE  TypeOK'
    <3>1. m_sessions[id] \in Session
      BY <2>10 DEF ExtendSession
    <3>2. [m_sessions[id] EXCEPT !.expires_at = @ + d] \in Session
      BY <3>1 DEF Session
    <3> QED
      BY <2>10, <3>1, <3>2 DEF ExtendSession
  <2>11. CASE UNCHANGED vars
    BY <2>11 DEF vars
  <2> QED
    BY <2>1, <2>2, <2>3, <2>4, <2>5, <2>6, <2>7, <2>8, <2>9, <2>10, <2>11 DEF Next
<1> QED
  BY <1>1, <1>2, PTL DEF Spec

-----------------------------------------------------------------------------
\* When nothing writes stale copies back and the clock only advances, a step
\* that is not a creation makes no session count that did not count before,
\* and moves no session to another user.
LEMMA OnlyCreationAdds ==
  ASSUME TypeOK, [Next]_vars, Callers = {}, ClockStepsBack = FALSE,
         \A u \in Users, id \in SessionIds : ~CreateSession(u, id),
         NEW id \in SessionIds, Counts(id)'
  PROVE  /\ Counts(id)
         /\ m_sessions'[id].user_name = m_sessions[id].user_name
<1> USE SessionManagerAssumption DEF TypeOK, Counts, Present
<1>1. CASE Tick
  <2>1. m_sessions[id] \in Session
    BY <1>1 DEF Tick
  <2> QED
    BY <1>1, <2>1 DEF Tick, Session
<1>2. ASSUME NEW i \in SessionIds, GetSession(i)
      PROVE  Counts(id) /\ m_sessions'[id].user_name = m_sessions[id].user_name
  <2>1. m_sessions' = Erased({i}) \/ UNCHANGED m_sessions
    BY <1>2 DEF GetSession
  <2>2. now' = now
    BY <1>2 DEF GetSession
  <2> QED
    BY <2>1, <2>2 DEF Erased
<1>3. ASSUME NEW i \in SessionIds, TerminateSession(i)
      PROVE  Counts(id) /\ m_sessions'[id].user_name = m_sessions[id].user_name
  BY <1>3 DEF TerminateSession, Erased
<1>4. CASE GetActiveSessions
  BY <1>4 DEF GetActiveSessions, CleanupExpiredSessionsInternal, Erased
<1>5. ASSUME NEW u \in Users, GetSessionsByUser(u)
      PROVE  Counts(id) /\ m_sessions'[id].user_name = m_sessions[id].user_name
  BY <1>5 DEF GetSessionsByUser, CleanupExpiredSessionsInternal, Erased
<1>6. CASE CleanupExpiredSessions
  BY <1>6 DEF CleanupExpiredSessions, CleanupExpiredSessionsInternal, Erased
<1>7. ASSUME NEW i \in SessionIds, NEW d \in Extensions, ExtendSession(i, d)
      PROVE  Counts(id) /\ m_sessions'[id].user_name = m_sessions[id].user_name
  <2>1. m_sessions[i] \in Session
    BY <1>7 DEF ExtendSession
  <2>2. m_sessions[i].expires_at \in Int
    BY <2>1 DEF Session
  <2>3. Counts(i)
    BY <1>7, <2>2 DEF ExtendSession, IsExpired
  <2>4. m_sessions'[i].user_name = m_sessions[i].user_name
    BY <1>7, <2>1 DEF ExtendSession, Session
  <2>5. CASE id = i
    BY <2>3, <2>4, <2>5
  <2>6. CASE id # i
    BY <1>7, <2>6 DEF ExtendSession
  <2> QED
    BY <2>5, <2>6
<1>8. CASE UNCHANGED vars
  BY <1>8 DEF vars
<1> QED
  BY <1>1, <1>2, <1>3, <1>4, <1>5, <1>6, <1>7, <1>8 DEF Next, SetClockBack

\* A creation gives its user one new session that counts and leaves every
\* other session as it was.
LEMMA CreationAddsOne ==
  ASSUME TypeOK, NEW u \in Users, NEW id \in SessionIds, CreateSession(u, id)
  PROVE  /\ ~Counts(id) /\ Counts(id)'
         /\ m_sessions'[id].user_name = u
         /\ \A i \in SessionIds \ {id} : /\ Counts(i)' <=> Counts(i)
                                         /\ m_sessions'[i] = m_sessions[i]
<1> USE SessionManagerAssumption DEF TypeOK, Counts
<1> DEFINE s == [session_id |-> id, user_name |-> u,
                 expires_at |-> now + SessionTimeout, active |-> TRUE]
<1>1. ~Counts(id)
  BY DEF CreateSession, FreshId, Present
<1>2. m_sessions'[id] = s /\ now' = now
  BY DEF CreateSession
<1>3. s.user_name = u /\ s.active /\ s.expires_at = now + SessionTimeout
  OBVIOUS
<1>4. s \in Session
  <2>1. now + SessionTimeout \in Int
    OBVIOUS
  <2> QED
    BY <2>1 DEF Session
<1>5. Counts(id)'
  <2> HIDE DEF s
  <2>1. m_sessions'[id] # NoSession
    BY <1>2, <1>4
  <2>2. m_sessions'[id].active
    BY <1>2, <1>3, Zenon
  <2>3. now' <= m_sessions'[id].expires_at
    BY <1>2, <1>3
  <2> QED
    BY <2>1, <2>2, <2>3
<1>6. \A i \in SessionIds \ {id} : m_sessions'[i] = m_sessions[i]
  BY DEF CreateSession
<1> QED
  BY <1>1, <1>2, <1>3, <1>5, <1>6

LEMMA LiveSessionsFinite ==
  ASSUME NEW u
  PROVE  /\ IsFiniteSet(LiveSessions(u))
         /\ Cardinality(LiveSessions(u)) \in Nat
<1>1. LiveSessions(u) \in SUBSET SessionIds
  BY DEF LiveSessions
<1> QED
  BY <1>1, FS_Subset, FS_CardinalityType, SessionManagerAssumption

-----------------------------------------------------------------------------
\* A session that has stopped counting does not count again: without copies
\* written back and with a clock that only advances, only a creation adds one.
THEOREM NoRevivalHolds ==
  Callers = {} /\ ClockStepsBack = FALSE => (Spec => NoRevival)
<1> SUFFICES ASSUME Callers = {}, ClockStepsBack = FALSE
             PROVE  Spec => NoRevival
  OBVIOUS
<1>1. TypeOK /\ [Next]_vars
        => [m_total_sessions' = m_total_sessions
            => \A id \in SessionIds : Counts(id)' => Counts(id)]_vars
  <2> SUFFICES ASSUME TypeOK, [Next]_vars, m_total_sessions' = m_total_sessions,
                      NEW id \in SessionIds, Counts(id)'
               PROVE  Counts(id)
    OBVIOUS
  <2>1. ASSUME NEW u \in Users, NEW i \in SessionIds
        PROVE  ~CreateSession(u, i)
    BY DEF TypeOK, CreateSession
  <2> QED
    BY <2>1, OnlyCreationAdds
<1> QED
  BY <1>1, TypeCorrect, PTL DEF Spec, NoRevival

-----------------------------------------------------------------------------
\* The per-user limit, as the gateway uses the manager: nothing calls
\* update_session, and the clock does not step back.  The hypothesis on copies
\* is needed: TLC violates the property without it.
THEOREM SessionLimitHolds ==
  Callers = {} /\ ClockStepsBack = FALSE => (Spec => []SessionLimit)
<1> SUFFICES ASSUME Callers = {}, ClockStepsBack = FALSE
             PROVE  Spec => []SessionLimit
  OBVIOUS
<1> USE SessionManagerAssumption
<1>1. Init => SessionLimit
  <2> SUFFICES ASSUME Init, NEW u \in Users
               PROVE  Cardinality(LiveSessions(u)) <= MaxSessionsPerUser
    BY DEF SessionLimit
  <2>1. LiveSessions(u) = {}
    BY DEF Init, LiveSessions, Counts
  <2> QED
    BY <2>1, FS_EmptySet
<1>2. TypeOK /\ SessionLimit /\ [Next]_vars => SessionLimit'
  <2> SUFFICES ASSUME TypeOK, SessionLimit, [Next]_vars, NEW u \in Users
               PROVE  Cardinality(LiveSessions(u)') <= MaxSessionsPerUser
    BY DEF SessionLimit
  <2>1. /\ IsFiniteSet(LiveSessions(u))
        /\ Cardinality(LiveSessions(u)) \in Nat
        /\ Cardinality(LiveSessions(u)) <= MaxSessionsPerUser
    BY LiveSessionsFinite DEF SessionLimit
  <2>2. CASE LiveSessions(u)' \subseteq LiveSessions(u)
    <3>1. Cardinality(LiveSessions(u)') <= Cardinality(LiveSessions(u))
      BY <2>1, <2>2, FS_Subset
    <3>2. Cardinality(LiveSessions(u)') \in Nat
      BY <2>1, <2>2, FS_Subset, FS_CardinalityType
    <3> QED
      BY <2>1, <3>1, <3>2
  <2>3. ASSUME NEW v \in Users, NEW id \in SessionIds, CreateSession(v, id)
        PROVE  Cardinality(LiveSessions(u)') <= MaxSessionsPerUser
    <3>1. CASE v # u
      <4>1. LiveSessions(u)' \subseteq LiveSessions(u)
        BY <2>3, <3>1, CreationAddsOne DEF LiveSessions
      <4> QED
        BY <2>2, <4>1
    <3>2. CASE v = u
      <4>1. LiveSessions(u)' = LiveSessions(u) \cup {id}
        BY <2>3, <3>2, CreationAddsOne DEF LiveSessions
      <4>2. id \notin LiveSessions(u)
        BY <2>3, CreationAddsOne DEF LiveSessions
      <4>3. Cardinality(LiveSessions(u)') = Cardinality(LiveSessions(u)) + 1
        BY <2>1, <4>1, <4>2, FS_AddElement
      <4>4. ~(Cardinality(LiveSessions(u)) >= MaxSessionsPerUser)
        BY <2>3, <3>2 DEF CreateSession, IsUserAtSessionLimit
      <4> QED
        BY <2>1, <4>3, <4>4
    <3> QED
      BY <3>1, <3>2
  <2>4. CASE \A v \in Users, id \in SessionIds : ~CreateSession(v, id)
    <3>1. LiveSessions(u)' \subseteq LiveSessions(u)
      BY <2>4, OnlyCreationAdds DEF LiveSessions
    <3> QED
      BY <2>2, <3>1
  <2> QED
    BY <2>3, <2>4
<1> QED
  BY <1>1, <1>2, TypeCorrect, PTL DEF Spec

-----------------------------------------------------------------------------
Counting == {id \in SessionIds : Counts(id)}

\* The manager implements the abstract quota: creation is Admit and every
\* other step, the passing of time included, is Release of the ids that stop
\* counting.
THEOREM ImplementsQuota ==
  /\ Callers = {} /\ ClockStepsBack = FALSE
  /\ NoSession \notin Users
  => (Spec => QuotaSpec)
<1> SUFFICES ASSUME Callers = {}, ClockStepsBack = FALSE, NoSession \notin Users
             PROVE  Spec => QuotaSpec
  OBVIOUS
<1> USE SessionManagerAssumption
<1> DEFINE h == [id \in SessionIds |-> IF Counts(id) THEN m_sessions[id].user_name
                                                    ELSE Nobody]
<1>1. Init => Quota!Init
  BY DEF Init, Quota!Init, Counts
<1>2. TypeOK /\ [Next]_vars => [Quota!Next]_h
  <2> SUFFICES ASSUME TypeOK, [Next]_vars
               PROVE  Quota!Next
    OBVIOUS
  <2>1. ASSUME NEW u \in Users, NEW id \in SessionIds, CreateSession(u, id)
        PROVE  Quota!Admit(u, id)
    <3>1. h[id] = Nobody
      BY <2>1, CreationAddsOne
    <3>2. Quota!Held(u) = LiveSessions(u)
      BY DEF Quota!Held, LiveSessions, Nobody
    <3>3. Cardinality(LiveSessions(u)) < MaxSessionsPerUser
      BY <2>1, LiveSessionsFinite DEF CreateSession, IsUserAtSessionLimit
    <3>4. \A i \in SessionIds : h'[i] = IF i = id THEN u ELSE h[i]
      BY <2>1, CreationAddsOne
    <3>5. h' = [h EXCEPT ![id] = u]
      BY <3>4
    <3>6. Quota!Cardinality(LiveSessions(u)) = Cardinality(LiveSessions(u))
      BY DEF Quota!Cardinality, Cardinality
    <3> QED
      BY <3>1, <3>2, <3>3, <3>5, <3>6 DEF Quota!Admit
  <2>2. CASE \A u \in Users, id \in SessionIds : ~CreateSession(u, id)
    <3> DEFINE stopped == SessionIds \ Counting'
    <3>1. ASSUME NEW id \in SessionIds
          PROVE  h'[id] = IF id \in stopped THEN Nobody ELSE h[id]
      <4>1. CASE Counts(id)'
        <5>1. id \notin stopped
          BY <4>1 DEF Counting
        <5>2. Counts(id) /\ m_sessions'[id].user_name = m_sessions[id].user_name
          BY <2>2, <4>1, OnlyCreationAdds
        <5> QED
          BY <4>1, <5>1, <5>2
      <4>2. CASE ~Counts(id)'
        BY <4>2 DEF Counting
      <4> QED
        BY <4>1, <4>2
    <3> HIDE DEF stopped
    <3>2. stopped \in SUBSET SessionIds
      BY DEF stopped
    <3>3. h' = [id \in SessionIds |-> IF id \in stopped THEN Nobody ELSE h[id]]
      BY <3>1
    <3> QED
      BY <3>2, <3>3 DEF Quota!Next, Quota!Release
  <2> QED
    BY <2>1, <2>2 DEF Quota!Next
<1> QED
  BY <1>1, <1>2, TypeCorrect, PTL DEF Spec, QuotaSpec, Quota!Spec

-----------------------------------------------------------------------------
\* A session that has been removed is never in the map again, whatever the
\* clock does and whatever copies are written back, if no id is drawn twice.
THEOREM TerminatedStaysGoneHolds ==
  IdsRecur = FALSE => (Spec => TerminatedStaysGone)
<1> SUFFICES ASSUME IdsRecur = FALSE
             PROVE  Spec => TerminatedStaysGone
  OBVIOUS
<1> USE SessionManagerAssumption
<1>1. TypeOK /\ [Next]_vars
        => [\A id \in issued :
              m_sessions[id] = NoSession => m_sessions'[id] = NoSession]_vars
  <2> SUFFICES ASSUME TypeOK, [Next]_vars, NEW id \in issued,
                      m_sessions[id] = NoSession
               PROVE  m_sessions'[id] = NoSession
    OBVIOUS
  <2> USE DEF TypeOK, Present, Erased
  <2>1. CASE Tick \/ SetClockBack \/ UNCHANGED vars
    BY <2>1 DEF Tick, SetClockBack, vars
  <2>2. ASSUME NEW u \in Users, NEW i \in SessionIds, CreateSession(u, i)
        PROVE  m_sessions'[id] = NoSession
    BY <2>2 DEF CreateSession, FreshId
  <2>3. ASSUME NEW i \in SessionIds, GetSession(i) \/ TerminateSession(i)
        PROVE  m_sessions'[id] = NoSession
    BY <2>3 DEF GetSession, TerminateSession
  <2>4. ASSUME NEW c \in Callers, NEW i \in SessionIds, NEW e \in 0..MaxExpiry,
               NEW a \in BOOLEAN, UpdateSession(c, i, e, a)
        PROVE  m_sessions'[id] = NoSession
    <3>1. i # id
      BY <2>4 DEF UpdateSession
    <3> QED
      BY <2>4, <3>1 DEF UpdateSession
  <2>5. CASE GetActiveSessions \/ CleanupExpiredSessions
    BY <2>5 DEF GetActiveSessions, CleanupExpiredSessions,
                CleanupExpiredSessionsInternal
  <2>6. ASSUME NEW u \in Users, GetSessionsByUser(u)
        PROVE  m_sessions'[id] = NoSession
    BY <2>6 DEF GetSessionsByUser, CleanupExpiredSessionsInternal
  <2>7. ASSUME NEW i \in SessionIds, NEW d \in Extensions, ExtendSession(i, d)
        PROVE  m_sessions'[id] = NoSession
    BY <2>7 DEF ExtendSession
  <2> QED
    BY <2>1, <2>2, <2>3, <2>4, <2>5, <2>6, <2>7 DEF Next
<1> QED
  BY <1>1, TypeCorrect, PTL DEF Spec, TerminatedStaysGone

-----------------------------------------------------------------------------
\* What a step writes into the map is a session: it removes none.
LEMMA WritingRemovesNone ==
  ASSUME TypeOK, TypeOK', NEW id \in SessionIds, id \in Present
  PROVE  /\ \A u \in Users, i \in SessionIds :
               CreateSession(u, i) => m_sessions'[id] # NoSession
         /\ \A c \in Callers, i \in SessionIds, e \in 0..MaxExpiry, a \in BOOLEAN :
               UpdateSession(c, i, e, a) => m_sessions'[id] # NoSession
         /\ \A i \in SessionIds, d \in Extensions :
               ExtendSession(i, d) => m_sessions'[id] # NoSession
<1> USE SessionManagerAssumption DEF TypeOK, Present
<1>1. ASSUME NEW u \in Users, NEW i \in SessionIds, CreateSession(u, i)
      PROVE  m_sessions'[id] # NoSession
  BY <1>1 DEF CreateSession, FreshId
<1>2. ASSUME NEW c \in Callers, NEW i \in SessionIds, NEW e \in 0..MaxExpiry,
             NEW a \in BOOLEAN, UpdateSession(c, i, e, a)
      PROVE  m_sessions'[id] # NoSession
  <2> DEFINE s == [copies[c] EXCEPT !.expires_at = e, !.active = a]
  <2>1. copies[c] \in Session /\ e \in Int
    BY <1>2 DEF UpdateSession
  <2>2. s \in Session
    BY <2>1, Zenon DEF Session
  <2>3. m_sessions' = [m_sessions EXCEPT ![i] = s]
    BY <1>2 DEF UpdateSession
  <2> HIDE DEF s
  <2> QED
    BY <2>2, <2>3
<1>3. ASSUME NEW i \in SessionIds, NEW d \in Extensions, ExtendSession(i, d)
      PROVE  m_sessions'[id] # NoSession
  <2>1. m_sessions[i] \in Session
    BY <1>3 DEF ExtendSession
  <2>2. [m_sessions[i] EXCEPT !.expires_at = @ + d] \in Session
    BY <2>1 DEF Session
  <2> QED
    BY <1>3, <2>2 DEF ExtendSession
<1> QED
  BY <1>1, <1>2, <1>3

\* A session that still counts leaves the map only in a call of
\* terminate_session with its id: the sweep of the listings and the lookup of
\* get_session remove none of them, whoever writes copies back and wherever the
\* clock is set.
THEOREM LiveLeavesByTerminationHolds == Spec => LiveLeavesByTermination
<1>1. TypeOK /\ TypeOK' /\ [Next]_vars
        => [\A id \in SessionIds :
              Counts(id) /\ m_sessions'[id] = NoSession => id \in ended' \ ended]_vars
  <2> SUFFICES ASSUME TypeOK, TypeOK', [Next]_vars, NEW id \in SessionIds,
                      Counts(id), m_sessions'[id] = NoSession
               PROVE  id \in ended' \ ended
    OBVIOUS
  <2>0. /\ id \in Present /\ m_sessions[id] # NoSession /\ id \notin ended
        /\ now \in Int /\ m_sessions[id].expires_at \in Int
        /\ now <= m_sessions[id].expires_at
    BY DEF Counts, Present, TypeOK, Session
  <2>1. ~IsExpired(m_sessions[id])
    BY <2>0 DEF IsExpired
  <2>2. CASE Tick \/ SetClockBack \/ UNCHANGED vars
    BY <2>0, <2>2 DEF Tick, SetClockBack, vars
  <2>3. ASSUME NEW i \in SessionIds, GetSession(i)
        PROVE  FALSE
    BY <2>0, <2>1, <2>3 DEF GetSession, Erased
  <2>4. ASSUME NEW i \in SessionIds, TerminateSession(i)
        PROVE  id \in ended' \ ended
    <3>1. i = id
      BY <2>0, <2>4 DEF TerminateSession, Erased
    <3> QED
      BY <2>0, <2>4, <3>1 DEF TerminateSession
  <2>5. CASE GetActiveSessions \/ CleanupExpiredSessions
    BY <2>0, <2>1, <2>5 DEF GetActiveSessions, CleanupExpiredSessions,
                            CleanupExpiredSessionsInternal, Erased
  <2>6. ASSUME NEW u \in Users, GetSessionsByUser(u)
        PROVE  FALSE
    BY <2>0, <2>1, <2>6 DEF GetSessionsByUser, CleanupExpiredSessionsInternal, Erased
  <2> QED
    BY <2>0, <2>2, <2>3, <2>4, <2>5, <2>6, WritingRemovesNone DEF Next
<1> QED
  BY <1>1, TypeCorrect, PTL DEF Spec, LiveLeavesByTermination
=============================================================================
