--------------------------- MODULE SessionManager ---------------------------
(***************************************************************************)
(* zerossg::SessionManager: the table of sessions, its per-user limit and  *)
(* its deadlines.                                                          *)
(*                                                                         *)
(* Every public operation runs from its first to its last line under       *)
(* m_sessions_mutex, so each is one action.  What interleaves is the       *)
(* operations of different threads, the wall clock, and the copies of      *)
(* Session objects that get_session and the listings hand out by value and *)
(* that a caller may pass to update_session much later.                    *)
(*                                                                         *)
(* A session keeps the fields on which an operation branches: its id, its  *)
(* user, its deadline and its active flag.  The role, the client address   *)
(* and the target service are stored and returned, never read.             *)
(***************************************************************************)
EXTENDS Integers, FiniteSets

CONSTANTS
    Users,               \* user names
    SessionIds,          \* the identifiers generate_session_id can draw
    NoSession,           \* the value of m_sessions at an absent key
    Callers,             \* code that edits a copy and calls update_session
    MaxSessionsPerUser,  \* MAX_SESSIONS_PER_USER
    SessionTimeout,      \* DEFAULT_SESSION_TIMEOUT
    Extensions,          \* values of additional_time
    IdsRecur,            \* may the generator draw an id it has drawn before?
    ClockStepsBack,      \* may system_clock be set back?
    MaxTime,             \* bound: the clock
    MaxExpiry,           \* bound: deadlines written by extend and update
    MaxCreated           \* bound: calls of create_session that succeed

Session ==
    [session_id : SessionIds, user_name : Users, expires_at : Int,
     active : BOOLEAN]

ASSUME SessionManagerAssumption ==
    /\ IsFiniteSet(SessionIds)
    /\ NoSession \notin Session
    /\ MaxSessionsPerUser \in Nat \ {0}
    /\ SessionTimeout \in Nat
    /\ Extensions \subseteq Int
    /\ IdsRecur \in BOOLEAN
    /\ ClockStepsBack \in BOOLEAN
    /\ MaxTime \in Nat
    /\ MaxExpiry \in Nat
    /\ MaxCreated \in Nat

VARIABLES
    m_sessions,        \* the map; NoSession at the keys it does not hold
    m_total_sessions,  \* sessions created since the start
    now,               \* system_clock::now()
    issued,            \* history: the ids drawn so far
    ended,             \* history: the ids that terminate_session removed,
                       \* and that were not drawn again since
    copies             \* copies[c]: the Session object caller c holds

vars == <<m_sessions, m_total_sessions, now, issued, ended, copies>>

-----------------------------------------------------------------------------
Present == {id \in SessionIds : m_sessions[id] # NoSession}

\* Session::is_expired
IsExpired(s) == now > s.expires_at

\* A session that counts against the limit: the test of the counting loop.
Counts(id) ==
    /\ m_sessions[id] # NoSession
    /\ m_sessions[id].active
    /\ now <= m_sessions[id].expires_at

LiveSessions(u) ==
    {id \in SessionIds : Counts(id) /\ m_sessions[id].user_name = u}

\* Faulty: > for >=.
IsUserAtSessionLimit_OffByOne(u) ==
    Cardinality(LiveSessions(u)) > MaxSessionsPerUser

IsUserAtSessionLimit(u) == Cardinality(LiveSessions(u)) >= MaxSessionsPerUser

\* Faulty: one draw, compared with nothing.
FreshId_NoLoop(id) == id \in SessionIds

\* The loop of create_session draws until the id is not in the map.  It does
\* not know the ids of sessions that are gone: only IdsRecur = FALSE, the
\* improbability of a second draw, keeps those apart.
FreshId(id) ==
    /\ id \notin Present
    /\ IdsRecur \/ id \notin issued

Erased(ids) ==
    [id \in SessionIds |-> IF id \in ids THEN NoSession ELSE m_sessions[id]]

\* Faulty: a session is swept in its last second, while it still counts.
CleanupExpiredSessionsInternal_Boundary ==
    Erased({id \in Present : now >= m_sessions[id].expires_at})

\* The map after the sweep that the listings start with.
CleanupExpiredSessionsInternal ==
    Erased({id \in Present : IsExpired(m_sessions[id])})

\* A caller keeps the copy of one of the sessions just returned to it, or
\* keeps none.
KeepCopy(returned) ==
    \/ UNCHANGED copies
    \/ \E c \in Callers, s \in returned : copies' = [copies EXCEPT ![c] = s]

-----------------------------------------------------------------------------
Init ==
    /\ m_sessions = [id \in SessionIds |-> NoSession]
    /\ m_total_sessions = 0
    /\ now = 0
    /\ issued = {}
    /\ ended = {}
    /\ copies = [c \in Callers |-> NoSession]

\* Time passes, up to the bound.
Tick ==
    /\ now < MaxTime
    /\ now' = now + 1
    /\ UNCHANGED <<m_sessions, m_total_sessions, issued, ended, copies>>

\* system_clock is the wall clock: an administrator or NTP may set it back.
SetClockBack ==
    /\ ClockStepsBack
    /\ now' \in 0..(now - 1)
    /\ UNCHANGED <<m_sessions, m_total_sessions, issued, ended, copies>>

\* Faulty: the Session is built with the first draw, before the collision loop.
CreateSession_BuiltEarly(u, id) ==
    /\ ~IsUserAtSessionLimit(u)
    /\ FreshId(id)
    /\ m_total_sessions < MaxCreated
    /\ \E first \in Present \cup {id} :
          m_sessions' = [m_sessions EXCEPT ![id] =
                            [session_id |-> first, user_name |-> u,
                             expires_at |-> now + SessionTimeout, active |-> TRUE]]
    /\ m_total_sessions' = m_total_sessions + 1
    /\ issued' = issued \cup {id}
    /\ ended' = ended \ {id}
    /\ UNCHANGED <<now, copies>>

CreateSession(u, id) ==
    /\ ~IsUserAtSessionLimit(u)
    /\ FreshId(id)
    /\ m_total_sessions < MaxCreated
    /\ m_sessions' = [m_sessions EXCEPT ![id] =
                        [session_id |-> id, user_name |-> u,
                         expires_at |-> now + SessionTimeout, active |-> TRUE]]
    /\ m_total_sessions' = m_total_sessions + 1
    /\ issued' = issued \cup {id}
    /\ ended' = ended \ {id}
    /\ UNCHANGED <<now, copies>>

\* get_session, and is_session_valid which calls it: the lookup of an expired
\* session removes it and fails; any other session is returned by value.
GetSession(id) ==
    /\ id \in Present
    /\ \/ /\ IsExpired(m_sessions[id])
          /\ m_sessions' = Erased({id})
          /\ UNCHANGED copies
       \/ /\ ~IsExpired(m_sessions[id])
          /\ KeepCopy({m_sessions[id]})
          /\ UNCHANGED m_sessions
    /\ UNCHANGED <<m_total_sessions, now, issued, ended>>

\* Faulty: the lookup is missing, and operator[] inserts.
UpdateSession_Upsert(c, id, expires_at, active) ==
    /\ copies[c] # NoSession
    /\ m_sessions' = [m_sessions EXCEPT ![id] = [copies[c] EXCEPT !.expires_at = expires_at,
                                                                !.active = active]]
    /\ UNCHANGED <<m_total_sessions, now, issued, ended, copies>>

\* The caller edits its copy with set_expires_at and set_active, and writes it
\* under a key it names: nothing compares the copy with that key, or with what
\* the map holds there by then.
UpdateSession(c, id, expires_at, active) ==
    /\ copies[c] # NoSession
    /\ id \in Present
    /\ m_sessions' = [m_sessions EXCEPT ![id] = [copies[c] EXCEPT !.expires_at = expires_at,
                                                                !.active = active]]
    /\ UNCHANGED <<m_total_sessions, now, issued, ended, copies>>

TerminateSession(id) ==
    /\ id \in Present
    /\ m_sessions' = Erased({id})
    /\ ended' = ended \cup {id}
    /\ UNCHANGED <<m_total_sessions, now, issued, copies>>

\* get_active_sessions
GetActiveSessions ==
    LET swept == CleanupExpiredSessionsInternal
        returned == {swept[id] : id \in {i \in SessionIds :
                        swept[i] # NoSession /\ swept[i].active}}
    IN  /\ m_sessions' = swept
        /\ KeepCopy(returned)
        /\ UNCHANGED <<m_total_sessions, now, issued, ended>>

\* get_sessions_by_user; the listings by service and by address differ only
\* in the field they compare, which is not modelled.
GetSessionsByUser(u) ==
    LET swept == CleanupExpiredSessionsInternal
        returned == {swept[id] : id \in {i \in SessionIds :
                        /\ swept[i] # NoSession
                        /\ swept[i].user_name = u
                        /\ swept[i].active}}
    IN  /\ m_sessions' = swept
        /\ KeepCopy(returned)
        /\ UNCHANGED <<m_total_sessions, now, issued, ended>>

CleanupExpiredSessions ==
    /\ m_sessions' = CleanupExpiredSessionsInternal
    /\ UNCHANGED <<m_total_sessions, now, issued, ended, copies>>

\* Faulty: is_expired is not asked.
ExtendSession_ExpiredToo(id, additional_time) ==
    /\ id \in Present
    /\ m_sessions[id].active
    /\ m_sessions[id].expires_at + additional_time \in 0..MaxExpiry
    /\ m_sessions' = [m_sessions EXCEPT ![id].expires_at = @ + additional_time]
    /\ UNCHANGED <<m_total_sessions, now, issued, ended, copies>>

ExtendSession(id, additional_time) ==
    /\ id \in Present
    /\ m_sessions[id].active
    /\ ~IsExpired(m_sessions[id])
    /\ m_sessions[id].expires_at + additional_time \in 0..MaxExpiry
    /\ m_sessions' = [m_sessions EXCEPT ![id].expires_at = @ + additional_time]
    /\ UNCHANGED <<m_total_sessions, now, issued, ended, copies>>

Next ==
    \/ Tick
    \/ SetClockBack
    \/ \E u \in Users, id \in SessionIds : CreateSession(u, id)
    \/ \E id \in SessionIds : GetSession(id)
    \/ \E c \in Callers, id \in SessionIds, e \in 0..MaxExpiry, a \in BOOLEAN :
          UpdateSession(c, id, e, a)
    \/ \E id \in SessionIds : TerminateSession(id)
    \/ GetActiveSessions
    \/ \E u \in Users : GetSessionsByUser(u)
    \/ CleanupExpiredSessions
    \/ \E id \in SessionIds, d \in Extensions : ExtendSession(id, d)

Spec == Init /\ [][Next]_vars

\* Time is the only thing that moves by itself: the class owns no thread and
\* no timer, so no operation is fair.
FairSpec == Spec /\ WF_vars(Tick)

-----------------------------------------------------------------------------
\* Types, and what the map keeps consistent: its keys have been drawn, and none
\* of them is still recorded as terminated.  As long as nobody calls
\* update_session, a session is stored under its own id.
TypeOK ==
    /\ m_sessions \in [SessionIds -> Session \cup {NoSession}]
    /\ m_total_sessions \in Nat
    /\ now \in Nat
    /\ issued \subseteq SessionIds
    /\ ended \subseteq issued
    /\ copies \in [Callers -> Session \cup {NoSession}]
    /\ Present \subseteq issued \ ended
    /\ Callers = {} => \A id \in Present : m_sessions[id].session_id = id

\* is_user_at_session_limit is consulted only by create_session, on a table
\* that still holds expired sessions.  No sequence of creations, extensions,
\* terminations, listings and expiries lets a user exceed the limit.
SessionLimit ==
    \A u \in Users : Cardinality(LiveSessions(u)) <= MaxSessionsPerUser

\* A session whose deadline has passed stays in the map until some operation
\* sweeps it, and extend_session can still reach it there: once a session has
\* stopped counting, its id counts again only if a creation draws it anew.
NoRevival ==
    [][m_total_sessions' = m_total_sessions
       => \A id \in SessionIds : Counts(id)' => Counts(id)]_vars

\* The sweeps and the lookups remove sessions as a side effect, and compare
\* with the deadline in their own ways.  A session that still counts leaves the
\* map in a call of terminate_session with its id and in no other step, whatever
\* was written into it before and wherever the clock has been set.
LiveLeavesByTermination ==
    [][\A id \in SessionIds :
          Counts(id) /\ m_sessions'[id] = NoSession => id \in ended' \ ended]_vars

\* A copy outlives its session.  Writing it back, under its own id or another's,
\* never puts an id into the map again that was terminated or swept.
TerminatedStaysGone ==
    [][\A id \in issued :
          m_sessions[id] = NoSession => m_sessions'[id] = NoSession]_vars

\* README.md:59: "Configurable session expiration with automatic cleanup".
\* An expired session is eventually removed from the map.
ExpiredIsRemoved ==
    \A id \in SessionIds :
        (id \in Present /\ IsExpired(m_sessions[id])) ~> id \notin Present

\* The manager implements SessionQuota: the holder of an id is the user whose
\* session counts.
Nobody == NoSession
Quota == INSTANCE SessionQuota
            WITH holder <- [id \in SessionIds |->
                              IF Counts(id) THEN m_sessions[id].user_name
                                            ELSE Nobody]
QuotaSpec == Quota!Spec
=============================================================================
