----------------------------- MODULE RateLimiter -----------------------------
(***************************************************************************)
(* The rate limiter of zerossg::SecurityManager: check_rate_limit, called  *)
(* by every login request, and cleanup_rate_limits, called again and again *)
(* by the cleanup thread.  Both hold m_rate_limits_mutex from their first  *)
(* to their last line, so each is one action; what interleaves is requests *)
(* of several clients, the sweeps and the clock.                           *)
(***************************************************************************)
EXTENDS Integers, Sequences, FiniteSets

CONSTANTS
    IPs,            \* client addresses
    NoInfo,         \* the value of m_rate_limits at an absent key
    MaxRequests,    \* m_rate_limit_max_requests
    Window,         \* m_rate_limit_window
    BlockDuration,  \* m_default_block_duration
    MaxTime         \* bound: the clock

\* block_until is an optional: it has a value exactly when blocked is set, and
\* is read only then.
RateLimitInfo ==
    [request_count : Nat, window_start : Nat, blocked : BOOLEAN,
     block_until : Nat]

\* The constants are fixed in the class: 100 requests, a window of 300 s and
\* blocks of 3600 s, which outlast the window in which they begin.
ASSUME RateLimiterAssumption ==
    /\ NoInfo \notin RateLimitInfo
    /\ MaxRequests \in Nat \ {0}
    /\ Window \in Nat \ {0}
    /\ BlockDuration \in Nat
    /\ BlockDuration >= Window
    /\ MaxTime \in Nat

VARIABLES
    m_rate_limits,  \* the map; NoInfo at the keys it does not hold
    now,            \* SystemClock::now()
    granted,        \* history: the times at which requests were let through
    refused         \* history: when ip last exceeded its limit, or -1

vars == <<m_rate_limits, now, granted, refused>>

-----------------------------------------------------------------------------
Present(ip) == m_rate_limits[ip] # NoInfo

FreshInfo == [request_count |-> 0, window_start |-> now,
              blocked |-> FALSE, block_until |-> 0]

\* m_rate_limits[client_ip] inserts an entry whose window starts now.
Looked(ip) == IF Present(ip) THEN m_rate_limits[ip] ELSE FreshInfo

IsBlocked(info) == info.blocked /\ now < info.block_until

\* Faulty: window_start is not moved.
Windowed_StartKept(info) ==
    IF now - info.window_start >= Window
    THEN [FreshInfo EXCEPT !.window_start = info.window_start] ELSE info

\* "Reset window if needed."
Windowed(info) ==
    IF now - info.window_start >= Window THEN FreshInfo ELSE info

Init ==
    /\ m_rate_limits = [ip \in IPs |-> NoInfo]
    /\ now = 0
    /\ granted = [ip \in IPs |-> << >>]
    /\ refused = [ip \in IPs |-> -1]

Tick ==
    /\ now < MaxTime
    /\ now' = now + 1
    /\ UNCHANGED <<m_rate_limits, granted, refused>>

\* check_rate_limit of a blocked client: an error and nothing else.
CheckBlocked(ip) ==
    /\ IsBlocked(Looked(ip))
    /\ UNCHANGED vars

\* check_rate_limit at the limit: the block begins.
CheckExceeded(ip) ==
    LET info == Windowed(Looked(ip))
    IN  /\ ~IsBlocked(Looked(ip))
        /\ info.request_count >= MaxRequests
        /\ m_rate_limits' = [m_rate_limits EXCEPT ![ip] =
              [info EXCEPT !.blocked = TRUE, !.block_until = now + BlockDuration]]
        /\ refused' = [refused EXCEPT ![ip] = now]
        /\ UNCHANGED <<now, granted>>

\* Faulty: <= for <.
CheckGranted_OneMore(ip) ==
    LET info == Windowed(Looked(ip))
    IN  /\ ~IsBlocked(Looked(ip))
        /\ info.request_count <= MaxRequests
        /\ m_rate_limits' = [m_rate_limits EXCEPT ![ip] =
              [info EXCEPT !.request_count = @ + 1]]
        /\ granted' = [granted EXCEPT ![ip] = Append(@, now)]
        /\ UNCHANGED <<now, refused>>

\* check_rate_limit below the limit: the request is counted and let through.
CheckGranted(ip) ==
    LET info == Windowed(Looked(ip))
    IN  /\ ~IsBlocked(Looked(ip))
        /\ info.request_count < MaxRequests
        /\ m_rate_limits' = [m_rate_limits EXCEPT ![ip] =
              [info EXCEPT !.request_count = @ + 1]]
        /\ granted' = [granted EXCEPT ![ip] = Append(@, now)]
        /\ UNCHANGED <<now, refused>>

\* "Remove expired blocks", done to one entry.
Unblocked(info) ==
    IF info.blocked /\ now >= info.block_until THEN FreshInfo ELSE info

\* Faulty: an entry is erased by its age alone.
Swept_ByAge(info) == now - info.window_start > 2 * Window

\* "Remove entries that haven't been used recently": the test of one entry.
Swept(info) ==
    /\ now - info.window_start > 2 * Window
    /\ info.request_count = 0

\* Faulty: the blocks are left for check_rate_limit to remove.
CleanupRateLimits_NoUnblock ==
    /\ m_rate_limits' = [ip \in IPs |->
          IF Present(ip) /\ Swept(m_rate_limits[ip])
          THEN NoInfo ELSE m_rate_limits[ip]]
    /\ UNCHANGED <<now, granted, refused>>

CleanupRateLimits ==
    /\ m_rate_limits' = [ip \in IPs |->
          IF Present(ip) /\ ~Swept(Unblocked(m_rate_limits[ip]))
          THEN Unblocked(m_rate_limits[ip]) ELSE NoInfo]
    /\ UNCHANGED <<now, granted, refused>>

Next ==
    \/ Tick
    \/ \E ip \in IPs : CheckBlocked(ip) \/ CheckExceeded(ip) \/ CheckGranted(ip)
    \/ CleanupRateLimits

Spec == Init /\ [][Next]_vars

\* The cleanup thread sweeps again and again while the manager exists.
FairSpec == Spec /\ WF_vars(Tick) /\ WF_vars(CleanupRateLimits)

-----------------------------------------------------------------------------
TypeOK ==
    /\ m_rate_limits \in [IPs -> RateLimitInfo \cup {NoInfo}]
    /\ now \in 0..MaxTime
    /\ granted \in [IPs -> Seq(0..MaxTime)]
    /\ refused \in [IPs -> -1..MaxTime]
    /\ \A ip \in IPs : Present(ip) =>
          /\ m_rate_limits[ip].request_count <= MaxRequests
          /\ m_rate_limits[ip].window_start <= now

\* The requests of ip let through from time t on, for one window.
GrantedFrom(ip, t) ==
    {i \in DOMAIN granted[ip] : t <= granted[ip][i] /\ granted[ip][i] < t + Window}

\* Windows start where the client, the end of a block or a sweep puts them.
\* However they fall, and however often an entry is erased and created again,
\* no stretch of time as long as a window sees more than two windows' worth of
\* requests let through.
SlidingWindow ==
    \A ip \in IPs, t \in 0..MaxTime : Cardinality(GrantedFrom(ip, t)) <= 2 * MaxRequests

\* A client that exceeded its limit is refused for the whole of the block
\* duration: no sweep and no new window lets one of its requests through.
BlockLasts ==
    [][\A ip \in IPs :
          refused[ip] # -1 /\ now < refused[ip] + BlockDuration
          => granted'[ip] = granted[ip]]_vars

\* A block ends without the client's help: a client that has gone away does
\* not leave its block behind.
BlockEnds ==
    \A ip \in IPs :
        /\ Present(ip)
        /\ m_rate_limits[ip].blocked
        /\ m_rate_limits[ip].block_until <= MaxTime
        ~> ~(Present(ip) /\ m_rate_limits[ip].blocked)
=============================================================================
