--------------------------- MODULE BruteForceGuard ---------------------------
(***************************************************************************)
(* The brute force detector of zerossg::SecurityManager, the blocks it     *)
(* causes, and the cleanup thread that sweeps both maps until the          *)
(* destructor stops it.                                                    *)
(*                                                                         *)
(* The two maps have a mutex each.  detect_brute_force holds               *)
(* m_brute_force_mutex while it takes m_blocked_ips_mutex inside block_ip: *)
(* it is two actions, and between them the blocks may be read, written and *)
(* swept by others.  Every other operation holds one mutex for its whole   *)
(* length.  What the thread does to the rate limits is in RateLimiter.     *)
(***************************************************************************)
EXTENDS Integers, Sequences, FiniteSets

CONSTANTS
    IPs,            \* client addresses
    NoInfo,         \* the value of both maps at an absent key
    NoIP,           \* no client
    Threshold,      \* m_brute_force_threshold
    Window,         \* m_brute_force_window
    BlockDuration,  \* m_default_block_duration
    Durations,      \* durations of the blocks that others ask for
    MaxFailures,    \* bound: failures at one instant
    MaxTime         \* bound: the clock

BruteForceInfo ==
    [failed_attempts : Nat, first_attempt : Nat, last_attempt : Nat,
     detection_time : Nat, detected : BOOLEAN]

ASSUME BruteForceAssumption ==
    /\ NoInfo \notin BruteForceInfo \cup Int
    /\ NoIP \notin IPs
    /\ Threshold \in Nat \ {0}
    /\ Window \in Nat \ {0}
    /\ BlockDuration \in Nat
    /\ Durations \subseteq Int
    /\ MaxFailures \in Nat
    /\ MaxTime \in Nat

VARIABLES
    m_brute_force_data,  \* the map; NoInfo at the keys it does not hold
    m_blocked_ips,       \* the map from clients to ends of blocks
    m_running,
    worker,              \* where the cleanup thread is
    blocking,            \* the client detect_brute_force is about to block;
                         \* meanwhile m_brute_force_mutex is held
    now,                 \* SystemClock::now()
    failures,            \* history: the times of those recorded and not
                         \* followed by a successful login
    asked                \* history: the end of the block that others asked for
                         \* since the last automatic one, NoInfo if none did

bruteVars == <<m_brute_force_data, failures>>
vars == <<m_brute_force_data, m_blocked_ips, m_running, worker, blocking, now,
          failures, asked>>

-----------------------------------------------------------------------------
Present(ip) == m_brute_force_data[ip] # NoInfo

FreshInfo == [failed_attempts |-> 0, first_attempt |-> now,
              last_attempt |-> now, detection_time |-> 0, detected |-> FALSE]

\* m_brute_force_data[client_ip]
Looked(ip) == IF Present(ip) THEN m_brute_force_data[ip] ELSE FreshInfo

BruteForceMutexFree == blocking = NoIP

\* The failures of ip from time t on.
FailuresSince(ip, t) == {i \in DOMAIN failures[ip] : failures[ip][i] >= t}

\* "Clean old attempts outside the window."
Windowed_KeepCount(info) ==
    IF now - info.first_attempt > Window
    THEN [info EXCEPT !.first_attempt = now] ELSE info

Windowed(info) ==
    IF now - info.first_attempt > Window
    THEN [info EXCEPT !.failed_attempts = 0, !.first_attempt = now] ELSE info

Init ==
    /\ m_brute_force_data = [ip \in IPs |-> NoInfo]
    /\ m_blocked_ips = [ip \in IPs |-> NoInfo]
    /\ m_running = TRUE
    /\ worker = "test"
    /\ blocking = NoIP
    /\ now = 0
    /\ failures = [ip \in IPs |-> << >>]
    /\ asked = [ip \in IPs |-> NoInfo]

Tick ==
    /\ now < MaxTime
    /\ now' = now + 1
    /\ UNCHANGED <<bruteVars, m_blocked_ips, m_running, worker, blocking, asked>>

-----------------------------------------------------------------------------
\* Nobody calls a manager that is being destroyed.
Callable == m_running

\* detect_brute_force finds no attack, or one it has already dealt with.
DetectQuiet(ip) ==
    LET info == IF Looked(ip).detected THEN Looked(ip) ELSE Windowed(Looked(ip))
    IN  /\ Callable
        /\ BruteForceMutexFree
        /\ info.detected \/ info.failed_attempts < Threshold
        /\ m_brute_force_data' = [m_brute_force_data EXCEPT ![ip] = info]
        /\ UNCHANGED <<m_blocked_ips, m_running, worker, blocking, now, failures, asked>>

\* detect_brute_force finds an attack and marks it; block_ip is next.
DetectAttack(ip) ==
    LET info == Windowed(Looked(ip))
    IN  /\ Callable
        /\ BruteForceMutexFree
        /\ ~Looked(ip).detected
        /\ info.failed_attempts >= Threshold
        /\ m_brute_force_data' = [m_brute_force_data EXCEPT ![ip] =
              [info EXCEPT !.detected = TRUE, !.detection_time = now]]
        /\ blocking' = ip
        /\ UNCHANGED <<m_blocked_ips, m_running, worker, now, failures, asked>>

\* Faulty: an address that has a block keeps the one it has.
AutoBlock_KeepsOld(ip) ==
    /\ blocking = ip
    /\ m_blocked_ips' = [m_blocked_ips EXCEPT ![ip] =
                            IF @ = NoInfo THEN now + BlockDuration ELSE @]
    /\ blocking' = NoIP
    /\ asked' = [asked EXCEPT ![ip] = NoInfo]
    /\ UNCHANGED <<bruteVars, m_running, worker, now>>

\* block_ip as detect_brute_force calls it, then the return.
AutoBlock(ip) ==
    /\ blocking = ip
    /\ m_blocked_ips' = [m_blocked_ips EXCEPT ![ip] = now + BlockDuration]
    /\ blocking' = NoIP
    /\ asked' = [asked EXCEPT ![ip] = NoInfo]
    /\ UNCHANGED <<bruteVars, m_running, worker, now>>

\* record_failed_attempt
RecordFailedAttempt(ip) ==
    LET info == Looked(ip)
    IN  /\ Callable
        /\ BruteForceMutexFree
        /\ Cardinality(FailuresSince(ip, now)) < MaxFailures
        /\ m_brute_force_data' = [m_brute_force_data EXCEPT ![ip] =
              [info EXCEPT
                 !.failed_attempts = @ + 1,
                 !.first_attempt = IF info.failed_attempts = 0 THEN now ELSE @,
                 !.last_attempt = now]]
        /\ failures' = [failures EXCEPT ![ip] = Append(@, now)]
        /\ UNCHANGED <<m_blocked_ips, m_running, worker, blocking, now, asked>>

\* Faulty: a success takes back one failure.
RecordSuccessfulLogin_TakesBackOne(ip) ==
    /\ Callable
    /\ BruteForceMutexFree
    /\ m_brute_force_data' = [m_brute_force_data EXCEPT ![ip] =
          IF Present(ip)
          THEN [@ EXCEPT !.failed_attempts = @ - 1, !.detected = FALSE] ELSE @]
    /\ failures' = [failures EXCEPT ![ip] = << >>]
    /\ UNCHANGED <<m_blocked_ips, m_running, worker, blocking, now, asked>>

\* record_successful_login
RecordSuccessfulLogin(ip) ==
    /\ Callable
    /\ BruteForceMutexFree
    /\ m_brute_force_data' = [m_brute_force_data EXCEPT ![ip] =
          IF Present(ip) THEN [@ EXCEPT !.failed_attempts = 0, !.detected = FALSE]
          ELSE @]
    /\ failures' = [failures EXCEPT ![ip] = << >>]
    /\ UNCHANGED <<m_blocked_ips, m_running, worker, blocking, now, asked>>

\* block_ip as the interface offers it.
BlockIp(ip, duration) ==
    /\ Callable
    /\ m_blocked_ips' = [m_blocked_ips EXCEPT ![ip] = now + duration]
    /\ asked' = [asked EXCEPT ![ip] = now + duration]
    /\ UNCHANGED <<bruteVars, m_running, worker, blocking, now>>

\* The test by which is_ip_blocked and the sweep drop a block.
BlockExpired(ip) == m_blocked_ips[ip] # NoInfo /\ now > m_blocked_ips[ip]

\* is_ip_blocked removes the block it finds expired.
IsIpBlocked(ip) ==
    /\ Callable
    /\ m_blocked_ips' = [m_blocked_ips EXCEPT ![ip] =
                            IF BlockExpired(ip) THEN NoInfo ELSE @]
    /\ UNCHANGED <<bruteVars, m_running, worker, blocking, now, asked>>

-----------------------------------------------------------------------------
\* Faulty: the loop does not look at m_running.
WorkerTest_Forever ==
    /\ worker = "test"
    /\ worker' = "sleep"
    /\ UNCHANGED <<bruteVars, m_blocked_ips, m_running, blocking, now, asked>>

\* cleanup_worker: the loop condition.
WorkerTest ==
    /\ worker = "test"
    /\ worker' = IF m_running THEN "sleep" ELSE "exited"
    /\ UNCHANGED <<bruteVars, m_blocked_ips, m_running, blocking, now, asked>>

\* The five minutes of sleep_for are over; no stop wakes the thread earlier.
WorkerWakes ==
    /\ worker = "sleep"
    /\ worker' = "brute_force_data"
    /\ UNCHANGED <<bruteVars, m_blocked_ips, m_running, blocking, now, asked>>

CleanupBruteForceData ==
    /\ worker = "brute_force_data"
    /\ BruteForceMutexFree
    /\ m_brute_force_data' = [ip \in IPs |->
          IF Present(ip) /\ now - m_brute_force_data[ip].last_attempt > 2 * Window
          THEN NoInfo ELSE m_brute_force_data[ip]]
    /\ worker' = "blocked_ips"
    /\ UNCHANGED <<m_blocked_ips, m_running, blocking, now, failures, asked>>

\* Faulty: the blocks are left for is_ip_blocked to remove.
CleanupBlockedIps_Skipped ==
    /\ worker = "blocked_ips"
    /\ worker' = "test"
    /\ UNCHANGED <<bruteVars, m_blocked_ips, m_running, blocking, now, asked>>

CleanupBlockedIps ==
    /\ worker = "blocked_ips"
    /\ m_blocked_ips' = [ip \in IPs |->
          IF BlockExpired(ip) THEN NoInfo ELSE m_blocked_ips[ip]]
    /\ worker' = "test"
    /\ UNCHANGED <<bruteVars, m_running, blocking, now, asked>>

\* The destructor: m_running is cleared, and the thread joined.  No call is
\* in progress when it begins.
Destroy ==
    /\ m_running
    /\ BruteForceMutexFree
    /\ m_running' = FALSE
    /\ UNCHANGED <<bruteVars, m_blocked_ips, worker, blocking, now, asked>>

Worker == WorkerTest \/ WorkerWakes \/ CleanupBruteForceData \/ CleanupBlockedIps

Next ==
    \/ Tick
    \/ \E ip \in IPs :
          \/ DetectQuiet(ip) \/ DetectAttack(ip) \/ AutoBlock(ip)
          \/ RecordFailedAttempt(ip) \/ RecordSuccessfulLogin(ip)
          \/ \E d \in Durations : BlockIp(ip, d)
          \/ IsIpBlocked(ip)
    \/ Worker
    \/ Destroy

Spec == Init /\ [][Next]_vars

\* The clock advances, a detection that holds the mutex goes on to its end,
\* and the scheduler runs the cleanup thread.
FairSpec ==
    /\ Spec
    /\ WF_vars(Tick)
    /\ \A ip \in IPs : WF_vars(AutoBlock(ip))
    /\ WF_vars(Worker)

-----------------------------------------------------------------------------
TypeOK ==
    /\ m_brute_force_data \in [IPs -> BruteForceInfo \cup {NoInfo}]
    /\ m_blocked_ips \in [IPs -> Int \cup {NoInfo}]
    /\ m_running \in BOOLEAN
    /\ worker \in {"test", "sleep", "brute_force_data", "blocked_ips", "exited"}
    /\ blocking \in IPs \cup {NoIP}
    /\ now \in 0..MaxTime
    /\ failures \in [IPs -> Seq(0..MaxTime)]
    /\ asked \in [IPs -> Int \cup {NoInfo}]
    /\ blocking # NoIP => m_running

\* Counts are reset by windows, by logins and by sweeps, each by its own
\* rule.  Whatever the order in which they come, an attack is reported only
\* after as many failures as the threshold, since the last successful login
\* and within one window.
NoFalseAlarm ==
    [][\A ip \in IPs :
          blocking # ip /\ blocking' = ip =>
             Cardinality(FailuresSince(ip, now - Window)) >= Threshold]_vars

\* The end of the block owed to a client that was found attacking: the
\* automatic one, or what others have asked for since.  block_ip replaces the
\* entry by any duration, a shorter one as well.
BlockedUntil(ip) ==
    IF asked[ip] = NoInfo THEN m_brute_force_data[ip].detection_time + BlockDuration
    ELSE asked[ip]

\* A client found attacking is blocked, once detect_brute_force has returned:
\* for the whole block duration, or to the end that the last call of block_ip
\* since then has set instead.  No call that came between the mark and the
\* block, no lookup and no sweep ends the block earlier.
DetectedIsBlocked ==
    \A ip \in IPs :
        /\ Present(ip)
        /\ m_brute_force_data[ip].detected
        /\ blocking # ip
        /\ now <= BlockedUntil(ip)
        => m_blocked_ips[ip] # NoInfo /\ m_blocked_ips[ip] >= BlockedUntil(ip)

\* The destructor returns: the thread it joins always comes round to the loop
\* condition, and no sweep waits for ever for a mutex.
DestructorReturns == ~m_running ~> worker = "exited"

\* The block of a client that does not come back is removed when it is over,
\* unless the manager is destroyed first.
BlockIsRemoved ==
    \A ip \in IPs : BlockExpired(ip) ~> ~BlockExpired(ip) \/ ~m_running

\* README.md:55: "Automatic detection and blocking of brute force attacks".
\* While the detector answers that a client is attacking, and the client goes
\* on failing, the client is blocked.
ReportedIsBlocked ==
    \A ip \in IPs :
        /\ Present(ip)
        /\ m_brute_force_data[ip].detected
        /\ blocking # ip
        /\ m_brute_force_data[ip].last_attempt = now
        => m_blocked_ips[ip] # NoInfo /\ ~BlockExpired(ip)
=============================================================================
