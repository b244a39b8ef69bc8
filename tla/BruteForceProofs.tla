--------------------------- MODULE BruteForceProofs ---------------------------
(***************************************************************************)
(* Type correctness of BruteForceGuard, that an attack it has found is     *)
(* blocked, and that the attack has happened, for every threshold, window  *)
(* and block duration.                                                     *)
(***************************************************************************)
EXTENDS BruteForceGuard, FiniteSetTheorems, TLAPS

USE BruteForceAssumption DEF BruteForceAssumption

\* The entry of an address, present or just inserted, is well typed, and so is
\* what the window makes of it; neither changes whether an attack was found.
LEMMA EntryTyped ==
    ASSUME TypeOK, NEW ip \in IPs
    PROVE  /\ Looked(ip) \in BruteForceInfo
           /\ Windowed(Looked(ip)) \in BruteForceInfo
           /\ Windowed(Looked(ip)).detected = Looked(ip).detected
           /\ Windowed(Looked(ip)).detection_time = Looked(ip).detection_time
<1>1. FreshInfo \in BruteForceInfo
  BY DEF TypeOK, FreshInfo, BruteForceInfo
<1>2. Looked(ip) \in BruteForceInfo
  BY <1>1 DEF TypeOK, Looked, Present
<1>3. now \in Nat
  BY DEF TypeOK
<1>4. CASE now - Looked(ip).first_attempt > Window
  <2> DEFINE info == Looked(ip)
             reset == [info EXCEPT !.failed_attempts = 0, !.first_attempt = now]
  <2>1. Windowed(info) = reset
    BY <1>4 DEF Windowed
  <2>2. info \in BruteForceInfo /\ 0 \in Nat
    BY <1>2
  <2> HIDE DEF info
  <2>3. /\ reset \in BruteForceInfo
        /\ reset.detected = info.detected
        /\ reset.detection_time = info.detection_time
    BY <1>3, <2>2, Zenon DEF BruteForceInfo
  <2> QED
    BY <2>1, <2>2, <2>3 DEF info
<1>5. CASE ~(now - Looked(ip).first_attempt > Window)
  BY <1>2, <1>5 DEF Windowed
<1> QED
  BY <1>2, <1>4, <1>5

\* What each operation writes into the map of the detector is an entry.
LEMMA DataTyped ==
    ASSUME TypeOK, [Next]_vars
    PROVE  m_brute_force_data' \in [IPs -> BruteForceInfo \cup {NoInfo}]
<1>1. ASSUME NEW ip \in IPs, DetectQuiet(ip)
      PROVE  m_brute_force_data' \in [IPs -> BruteForceInfo \cup {NoInfo}]
  BY <1>1, EntryTyped DEF DetectQuiet, TypeOK
<1>2. ASSUME NEW ip \in IPs, DetectAttack(ip)
      PROVE  m_brute_force_data' \in [IPs -> BruteForceInfo \cup {NoInfo}]
  <2> DEFINE info == Windowed(Looked(ip))
  <2>1. info \in BruteForceInfo /\ now \in Nat
    BY EntryTyped DEF TypeOK
  <2> HIDE DEF info
  <2>2. [info EXCEPT !.detected = TRUE, !.detection_time = now] \in BruteForceInfo
    BY <2>1, Zenon DEF BruteForceInfo
  <2> QED
    BY <1>2, <2>2 DEF DetectAttack, TypeOK, info
<1>3. ASSUME NEW ip \in IPs, RecordFailedAttempt(ip)
      PROVE  m_brute_force_data' \in [IPs -> BruteForceInfo \cup {NoInfo}]
  <2> DEFINE info == Looked(ip)
  <2>1. info \in BruteForceInfo /\ now \in Nat
    BY EntryTyped DEF TypeOK
  <2> HIDE DEF info
  <2>2. /\ info.failed_attempts + 1 \in Nat
        /\ (IF info.failed_attempts = 0 THEN now ELSE info.first_attempt) \in Nat
    BY <2>1 DEF BruteForceInfo
  <2>3. [info EXCEPT
           !.failed_attempts = @ + 1,
           !.first_attempt = IF info.failed_attempts = 0 THEN now ELSE @,
           !.last_attempt = now] \in BruteForceInfo
    BY <2>1, <2>2, Zenon DEF BruteForceInfo
  <2> QED
    BY <1>3, <2>3 DEF RecordFailedAttempt, TypeOK, info
<1>4. ASSUME NEW ip \in IPs, RecordSuccessfulLogin(ip)
      PROVE  m_brute_force_data' \in [IPs -> BruteForceInfo \cup {NoInfo}]
  <2> DEFINE info == m_brute_force_data[ip]
  <2>1. CASE Present(ip)
    <3>1. info \in BruteForceInfo
      BY <2>1 DEF TypeOK, Present
    <3> HIDE DEF info
    <3>2. [info EXCEPT !.failed_attempts = 0, !.detected = FALSE] \in BruteForceInfo
      BY <3>1, Zenon DEF BruteForceInfo
    <3> QED
      BY <1>4, <2>1, <3>2 DEF RecordSuccessfulLogin, TypeOK, info
  <2>2. CASE ~Present(ip)
    BY <1>4, <2>2 DEF RecordSuccessfulLogin, TypeOK
  <2> QED
    BY <2>1, <2>2
<1>5. CASE CleanupBruteForceData
  BY <1>5 DEF CleanupBruteForceData, TypeOK
<1>6. CASE UNCHANGED m_brute_force_data
  BY <1>6 DEF TypeOK
<1> QED
  BY <1>1, <1>2, <1>3, <1>4, <1>5, <1>6
     DEF Next, Tick, AutoBlock, BlockIp, IsIpBlocked, Worker, WorkerTest,
         WorkerWakes, CleanupBlockedIps, Destroy, bruteVars, vars

\* Every step keeps the whole state well typed; a detection in progress keeps
\* the manager from being destroyed.
LEMMA TypeStep ==
    ASSUME TypeOK, [Next]_vars
    PROVE  TypeOK'
<1>1. m_brute_force_data' \in [IPs -> BruteForceInfo \cup {NoInfo}]
  BY DataTyped
<1>2. \A d \in Durations \cup {BlockDuration} : now + d \in Int
  BY DEF TypeOK
<1>3. ASSUME NEW ip \in IPs,
             DetectQuiet(ip) \/ DetectAttack(ip)
      PROVE  TypeOK'
  BY <1>1, <1>3 DEF TypeOK, DetectQuiet, DetectAttack, Callable
<1>4. ASSUME NEW ip \in IPs, AutoBlock(ip)
      PROVE  TypeOK'
  BY <1>1, <1>2, <1>4 DEF TypeOK, AutoBlock, bruteVars
<1>5. ASSUME NEW ip \in IPs, RecordFailedAttempt(ip)
      PROVE  TypeOK'
  <2>1. failures' = [failures EXCEPT ![ip] = Append(@, now)]
    BY <1>5 DEF RecordFailedAttempt
  <2>2. failures' \in [IPs -> Seq(0..MaxTime)]
    BY <2>1 DEF TypeOK
  <2>3. UNCHANGED <<m_blocked_ips, m_running, worker, blocking, now, asked>>
    BY <1>5 DEF RecordFailedAttempt
  <2> QED
    BY <1>1, <2>2, <2>3 DEF TypeOK
<1>6. ASSUME NEW ip \in IPs, RecordSuccessfulLogin(ip)
      PROVE  TypeOK'
  <2>1. /\ failures' = [failures EXCEPT ![ip] = << >>]
        /\ UNCHANGED <<m_blocked_ips, m_running, worker, blocking, now, asked>>
    BY <1>6 DEF RecordSuccessfulLogin
  <2>2. failures' \in [IPs -> Seq(0..MaxTime)]
    BY <2>1 DEF TypeOK
  <2> QED
    BY <1>1, <2>1, <2>2 DEF TypeOK
<1>7. ASSUME NEW ip \in IPs, NEW d \in Durations, BlockIp(ip, d)
      PROVE  TypeOK'
  BY <1>1, <1>2, <1>7 DEF TypeOK, BlockIp, bruteVars
<1>8. ASSUME NEW ip \in IPs, IsIpBlocked(ip)
      PROVE  TypeOK'
  BY <1>1, <1>8 DEF TypeOK, IsIpBlocked, bruteVars
<1>9. CASE Worker
  <2>1. CASE CleanupBlockedIps
    BY <1>1, <2>1 DEF TypeOK, CleanupBlockedIps, bruteVars
  <2>2. CASE CleanupBruteForceData
    BY <1>1, <2>2 DEF TypeOK, CleanupBruteForceData
  <2>3. CASE WorkerTest \/ WorkerWakes
    BY <1>1, <2>3 DEF TypeOK, WorkerTest, WorkerWakes, bruteVars
  <2> QED
    BY <1>9, <2>1, <2>2, <2>3 DEF Worker
<1>10. CASE Tick
  BY <1>1, <1>10 DEF TypeOK, Tick, bruteVars
<1>11. CASE Destroy
  BY <1>1, <1>11 DEF TypeOK, Destroy, BruteForceMutexFree, bruteVars
<1>12. CASE UNCHANGED vars
  BY <1>1, <1>12 DEF TypeOK, vars
<1> QED
  BY <1>3, <1>4, <1>5, <1>6, <1>7, <1>8, <1>9, <1>10, <1>11, <1>12 DEF Next

\* The detector, the blocks and the cleanup thread are well typed in every
\* reachable state, whatever the constants.
THEOREM TypeCorrect == Spec => []TypeOK
<1>1. Init => TypeOK
  BY DEF Init, TypeOK
<1> QED
  BY <1>1, TypeStep, PTL DEF Spec

-----------------------------------------------------------------------------
\* An attack was not found in the future.
FoundBefore ==
    \A ip \in IPs : Present(ip) => m_brute_force_data[ip].detection_time <= now

Inv == TypeOK /\ FoundBefore /\ DetectedIsBlocked

\* An entry after a step is marked only if it was marked before, with the
\* same time of detection, or if the step is the detection.
LEMMA MarksKept ==
    ASSUME TypeOK, [Next]_vars, NEW ip \in IPs, Present(ip)', ~DetectAttack(ip)
    PROVE  /\ \/ /\ Present(ip)
                 /\ m_brute_force_data'[ip].detection_time =
                       m_brute_force_data[ip].detection_time
              \/ m_brute_force_data'[ip].detection_time = 0
           /\ m_brute_force_data'[ip].detected =>
                 /\ Present(ip)
                 /\ m_brute_force_data[ip].detected
                 /\ m_brute_force_data'[ip].detection_time =
                       m_brute_force_data[ip].detection_time
<1> DEFINE Goal ==
      /\ \/ /\ Present(ip)
            /\ m_brute_force_data'[ip].detection_time =
                  m_brute_force_data[ip].detection_time
         \/ m_brute_force_data'[ip].detection_time = 0
      /\ m_brute_force_data'[ip].detected =>
            /\ Present(ip)
            /\ m_brute_force_data[ip].detected
            /\ m_brute_force_data'[ip].detection_time =
                  m_brute_force_data[ip].detection_time
<1>1. /\ Looked(ip).detected => Present(ip)
      /\ Present(ip) => Looked(ip) = m_brute_force_data[ip]
      /\ ~Present(ip) => Looked(ip).detection_time = 0
  BY DEF Looked, FreshInfo
<1>2. Looked(ip) \in BruteForceInfo
  BY EntryTyped
<1>3. CASE DetectQuiet(ip)
  <2>1. m_brute_force_data'[ip] \in {Looked(ip), Windowed(Looked(ip))}
    BY <1>3 DEF DetectQuiet, TypeOK
  <2>2. /\ m_brute_force_data'[ip].detected = Looked(ip).detected
        /\ m_brute_force_data'[ip].detection_time = Looked(ip).detection_time
    BY <2>1, EntryTyped
  <2> QED
    BY <1>1, <2>2
<1>4. CASE RecordFailedAttempt(ip)
  <2>1. m_brute_force_data'[ip] =
          [Looked(ip) EXCEPT
             !.failed_attempts = @ + 1,
             !.first_attempt = IF Looked(ip).failed_attempts = 0 THEN now ELSE @,
             !.last_attempt = now]
    BY <1>4 DEF RecordFailedAttempt, TypeOK
  <2>2. /\ m_brute_force_data'[ip].detected = Looked(ip).detected
        /\ m_brute_force_data'[ip].detection_time = Looked(ip).detection_time
    BY <1>2, <2>1, Zenon DEF BruteForceInfo
  <2> QED
    BY <1>1, <2>2
<1>5. CASE RecordSuccessfulLogin(ip)
  <2>1. Present(ip)
    BY <1>5 DEF RecordSuccessfulLogin, Present, TypeOK
  <2>2. m_brute_force_data[ip] \in BruteForceInfo
    BY <2>1 DEF Present, TypeOK
  <2>3. m_brute_force_data'[ip] =
          [m_brute_force_data[ip] EXCEPT !.failed_attempts = 0, !.detected = FALSE]
    BY <1>5, <2>1 DEF RecordSuccessfulLogin, TypeOK
  <2>4. /\ ~m_brute_force_data'[ip].detected
        /\ m_brute_force_data'[ip].detection_time =
              m_brute_force_data[ip].detection_time
    BY <2>2, <2>3, Zenon DEF BruteForceInfo
  <2> QED
    BY <2>1, <2>4
<1>6. CASE m_brute_force_data'[ip] = m_brute_force_data[ip]
  BY <1>6 DEF Present
<1>7. CASE CleanupBruteForceData
  <2>1. m_brute_force_data'[ip] \in {NoInfo, m_brute_force_data[ip]}
    BY <1>7 DEF CleanupBruteForceData
  <2> QED
    BY <1>6, <2>1 DEF Present
<1>8. \/ DetectQuiet(ip) \/ RecordFailedAttempt(ip) \/ RecordSuccessfulLogin(ip)
      \/ CleanupBruteForceData
      \/ m_brute_force_data'[ip] = m_brute_force_data[ip]
  <2>1. ASSUME NEW other \in IPs \ {ip},
               \/ DetectQuiet(other) \/ DetectAttack(other)
               \/ RecordFailedAttempt(other) \/ RecordSuccessfulLogin(other)
        PROVE  m_brute_force_data'[ip] = m_brute_force_data[ip]
    BY <2>1 DEF DetectQuiet, DetectAttack, RecordFailedAttempt,
                RecordSuccessfulLogin, TypeOK
  <2> QED
    BY <2>1 DEF Next, Tick, AutoBlock, BlockIp, IsIpBlocked, Worker, WorkerTest,
                WorkerWakes, CleanupBlockedIps, Destroy, bruteVars, vars
<1> QED
  BY <1>3, <1>4, <1>5, <1>6, <1>7, <1>8

\* The inductive step: no order of marking, blocking, reading and sweeping
\* leaves a found attack without its block.
LEMMA InvStep ==
    ASSUME Inv, [Next]_vars
    PROVE  FoundBefore' /\ DetectedIsBlocked'
<1> USE DEF Inv
<1>1. ASSUME NEW ip \in IPs, DetectAttack(ip)
      PROVE  /\ m_brute_force_data'[ip].detection_time = now
             /\ blocking' = ip
             /\ UNCHANGED <<now, m_blocked_ips>>
  <2> DEFINE info == Windowed(Looked(ip))
  <2>1. info \in BruteForceInfo
    BY EntryTyped
  <2> HIDE DEF info
  <2>2. [info EXCEPT !.detected = TRUE, !.detection_time = now].detection_time = now
    BY <2>1, Zenon DEF BruteForceInfo
  <2> QED
    BY <1>1, <2>2 DEF DetectAttack, TypeOK, info
<1>2. now' >= now /\ now \in Nat /\ now' \in Nat
  <2>1. now' = now + 1 \/ now' = now
    BY DEF Next, Tick, DetectQuiet, DetectAttack, AutoBlock,
       RecordFailedAttempt, RecordSuccessfulLogin, BlockIp, IsIpBlocked, Worker,
       WorkerTest, WorkerWakes, CleanupBruteForceData, CleanupBlockedIps,
       Destroy, vars
  <2>2. now \in Nat
    BY DEF TypeOK
  <2> QED
    BY <2>1, <2>2
<1>3. FoundBefore'
  <2> SUFFICES ASSUME NEW ip \in IPs, Present(ip)'
               PROVE  m_brute_force_data'[ip].detection_time <= now'
    BY DEF FoundBefore
  <2>1. CASE DetectAttack(ip)
    BY <1>1, <2>1, <1>2
  <2>2. CASE ~DetectAttack(ip)
    <3>1. Present(ip) => m_brute_force_data[ip].detection_time \in Nat
      BY DEF TypeOK, Present, BruteForceInfo
    <3> QED
      BY <2>2, <3>1, <1>2, MarksKept DEF FoundBefore
  <2> QED
    BY <2>1, <2>2
<1>4. DetectedIsBlocked'
  <2> SUFFICES ASSUME NEW ip \in IPs, Present(ip)',
                      m_brute_force_data'[ip].detected, blocking' # ip,
                      now' <= BlockedUntil(ip)'
               PROVE  m_blocked_ips'[ip] # NoInfo /\ m_blocked_ips'[ip] >= BlockedUntil(ip)'
    BY DEF DetectedIsBlocked
  <2> DEFINE found == m_brute_force_data[ip].detection_time
  <2>1. ~DetectAttack(ip)
    BY <1>1
  <2>2. /\ Present(ip)
        /\ m_brute_force_data[ip].detected
        /\ m_brute_force_data'[ip].detection_time = found
    BY <2>1, MarksKept
  <2>3. found \in Nat /\ found <= now
    BY <2>2 DEF FoundBefore, TypeOK, Present, BruteForceInfo
  <2>4. CASE blocking = ip
    <3>1. AutoBlock(ip)
      BY <2>4 DEF TypeOK, Next, Tick, DetectQuiet, DetectAttack, AutoBlock,
         BruteForceMutexFree, RecordFailedAttempt, RecordSuccessfulLogin,
         BlockIp, IsIpBlocked, Worker, WorkerTest, WorkerWakes,
         CleanupBruteForceData, CleanupBlockedIps, Destroy, vars
    <3>2. m_blocked_ips'[ip] = now + BlockDuration /\ asked'[ip] = NoInfo
      BY <3>1 DEF AutoBlock, TypeOK
    <3>3. now + BlockDuration \in Int
      BY <1>2
    <3>4. BlockedUntil(ip)' = found + BlockDuration
      BY <2>2, <3>2 DEF BlockedUntil
    <3> QED
      BY <2>3, <3>2, <3>3, <3>4, <1>2
  <2>5. CASE blocking # ip
    <3>1. ASSUME NEW d \in Durations, BlockIp(ip, d)
          PROVE  m_blocked_ips'[ip] # NoInfo /\ m_blocked_ips'[ip] >= BlockedUntil(ip)'
      <4>1. /\ m_blocked_ips'[ip] = now + d /\ asked'[ip] = now + d
            /\ now + d \in Int
        BY <3>1, <1>2 DEF BlockIp, TypeOK
      <4>2. BlockedUntil(ip)' = now + d
        BY <4>1 DEF BlockedUntil
      <4> QED
        BY <4>1, <4>2
    <3>2. CASE asked'[ip] = asked[ip] /\ ~\E d \in Durations : BlockIp(ip, d)
      <4>1. BlockedUntil(ip)' = BlockedUntil(ip) /\ BlockedUntil(ip) \in Int
        BY <2>2, <2>3, <3>2 DEF BlockedUntil, TypeOK
      <4>2. m_blocked_ips[ip] # NoInfo /\ m_blocked_ips[ip] >= BlockedUntil(ip)
        BY <2>2, <2>5, <4>1, <1>2 DEF DetectedIsBlocked
      <4>3. m_blocked_ips[ip] \in Int /\ ~BlockExpired(ip)
        BY <4>1, <4>2, <1>2 DEF TypeOK, BlockExpired
      <4>4. m_blocked_ips'[ip] = m_blocked_ips[ip]
        <5>1. ASSUME NEW other \in IPs, AutoBlock(other)
              PROVE  m_blocked_ips'[ip] = m_blocked_ips[ip]
          BY <5>1, <2>5 DEF AutoBlock, TypeOK
        <5>2. ASSUME NEW other \in IPs, NEW d \in Durations, BlockIp(other, d),
                     other # ip
              PROVE  m_blocked_ips'[ip] = m_blocked_ips[ip]
          BY <5>2 DEF BlockIp, TypeOK
        <5>3. ASSUME NEW other \in IPs, IsIpBlocked(other)
              PROVE  m_blocked_ips'[ip] = m_blocked_ips[ip]
          BY <5>3, <4>3 DEF IsIpBlocked, TypeOK
        <5>4. CASE CleanupBlockedIps
          BY <5>4, <4>3 DEF CleanupBlockedIps
        <5> QED
          BY <3>2, <5>1, <5>2, <5>3, <5>4
             DEF Next, Tick, DetectQuiet, DetectAttack, RecordFailedAttempt,
                 RecordSuccessfulLogin, Worker, WorkerTest, WorkerWakes,
                 CleanupBruteForceData, Destroy, vars
      <4> QED
        BY <4>1, <4>2, <4>4
    <3>3. asked'[ip] = asked[ip] \/ \E d \in Durations : BlockIp(ip, d)
      <4>1. ASSUME NEW other \in IPs, AutoBlock(other)
            PROVE  asked'[ip] = asked[ip]
        BY <4>1, <2>5 DEF AutoBlock, TypeOK
      <4>2. ASSUME NEW other \in IPs, NEW d \in Durations, BlockIp(other, d),
                   other # ip
            PROVE  asked'[ip] = asked[ip]
        BY <4>2 DEF BlockIp, TypeOK
      <4> QED
        BY <4>1, <4>2
           DEF Next, Tick, DetectQuiet, DetectAttack, RecordFailedAttempt,
               RecordSuccessfulLogin, IsIpBlocked, Worker, WorkerTest, WorkerWakes,
               CleanupBruteForceData, CleanupBlockedIps, Destroy, vars
    <3> QED
      BY <3>1, <3>2, <3>3
  <2> QED
    BY <2>4, <2>5
<1> QED
  BY <1>3, <1>4

\* Once detect_brute_force has reported an attack and returned, the client is
\* blocked until the block duration has passed since the detection, or until the
\* end that others have set since by a block of any duration, shorter ones too.
THEOREM DetectedIsBlockedHolds == Spec => []DetectedIsBlocked
<1>1. Init => FoundBefore /\ DetectedIsBlocked
  BY DEF Init, FoundBefore, DetectedIsBlocked, Present
<1>2. TypeOK /\ FoundBefore /\ DetectedIsBlocked /\ [Next]_vars
      => FoundBefore' /\ DetectedIsBlocked'
  BY InvStep DEF Inv
<1> QED
  BY <1>1, <1>2, TypeCorrect, PTL DEF Spec

-----------------------------------------------------------------------------
\* The failures an entry counts are the last of the log, and none lies before
\* the first attempt.
Counts(info, log) ==
    /\ info.failed_attempts <= Len(log)
    /\ info.first_attempt <= now
    /\ \A i \in 1..Len(log) :
          i > Len(log) - info.failed_attempts => log[i] >= info.first_attempt

CountsInv == \A ip \in IPs : Present(ip) => Counts(m_brute_force_data[ip], failures[ip])

\* An entry that counts nothing counts nothing wrong.
LEMMA NothingCounted ==
    ASSUME NEW info, NEW log \in Seq(0..MaxTime),
           info.failed_attempts = 0, info.first_attempt <= now
    PROVE  Counts(info, log)
<1>1. Len(log) \in Nat
  OBVIOUS
<1> QED
  BY <1>1 DEF Counts

\* The entry an operation looks up, and what the window makes of it, count
\* what has happened; the latter only what happened in the last window.
LEMMA LookedCounts ==
    ASSUME TypeOK, CountsInv, NEW ip \in IPs
    PROVE  /\ Counts(Looked(ip), failures[ip])
           /\ Counts(Windowed(Looked(ip)), failures[ip])
           /\ Windowed(Looked(ip)).first_attempt >= now - Window
<1> DEFINE info == Looked(ip)
<1>0. now \in Nat /\ failures[ip] \in Seq(0..MaxTime)
  BY DEF TypeOK
<1>1. info \in BruteForceInfo
  BY EntryTyped
<1>2. Counts(info, failures[ip])
  <2>1. FreshInfo.failed_attempts = 0 /\ FreshInfo.first_attempt = now
    BY DEF FreshInfo
  <2>2. Counts(FreshInfo, failures[ip])
    BY <1>0, <2>1, NothingCounted
  <2> QED
    BY <2>2 DEF Looked, CountsInv
<1>3. CASE now - info.first_attempt > Window
  <2> DEFINE reset == [info EXCEPT !.failed_attempts = 0, !.first_attempt = now]
  <2>1. Windowed(info) = reset
    BY <1>3 DEF Windowed
  <2> HIDE DEF info
  <2>2. reset.failed_attempts = 0 /\ reset.first_attempt = now
    BY <1>1 DEF BruteForceInfo
  <2> HIDE DEF reset
  <2>3. Counts(reset, failures[ip])
    BY <1>0, <2>2, NothingCounted
  <2> QED
    BY <1>0, <1>2, <2>1, <2>2, <2>3 DEF info
<1>4. CASE ~(now - info.first_attempt > Window)
  <2>1. info.first_attempt \in Nat
    BY <1>1 DEF BruteForceInfo
  <2>2. info.first_attempt >= now - Window
    BY <1>0, <1>4, <2>1
  <2> QED
    BY <1>2, <1>4, <2>2 DEF Windowed
<1> QED
  BY <1>3, <1>4

\* A failure that is recorded is counted, by an entry that begins with it if it
\* counted none before.
LEMMA RecordCounts ==
    ASSUME TypeOK, NEW info \in BruteForceInfo, NEW log \in Seq(0..MaxTime),
           Counts(info, log), NEW next \in BruteForceInfo,
           next.failed_attempts = info.failed_attempts + 1,
           next.first_attempt = IF info.failed_attempts = 0 THEN now ELSE info.first_attempt
    PROVE  Counts(next, Append(log, now))
<1> DEFINE n == Len(log)
           f == info.failed_attempts
           a == next.first_attempt
           new == Append(log, now)
<1>1. /\ n \in Nat /\ f \in Nat /\ a \in Nat /\ now \in Nat /\ info.first_attempt \in Nat
      /\ \A i \in 1..n : log[i] \in Nat
  BY DEF BruteForceInfo, TypeOK
<1>2. Len(new) = n + 1 /\ (\A i \in 1..n : new[i] = log[i]) /\ new[n + 1] = now
  BY DEF TypeOK
<1>3. /\ f <= n /\ info.first_attempt <= now
      /\ \A i \in 1..n : i > n - f => log[i] >= info.first_attempt
  BY DEF Counts
<1>4. next.failed_attempts = f + 1 /\ a = IF f = 0 THEN now ELSE info.first_attempt
  OBVIOUS
<1> HIDE DEF n, f, a, new
<1>5. a <= now /\ f + 1 <= n + 1 /\ (n + 1) - (f + 1) = n - f
  BY <1>1, <1>3, <1>4
<1>6. ASSUME NEW i \in 1..(n + 1), i > n - f
      PROVE  new[i] >= a
  <2>1. CASE i = n + 1
    BY <1>1, <1>2, <1>5, <2>1
  <2>2. CASE i # n + 1
    <3>1. i \in 1..n /\ f # 0
      BY <1>1, <1>6, <2>2
    <3>2. log[i] >= info.first_attempt
      BY <1>3, <1>6, <3>1
    <3> QED
      BY <1>2, <1>4, <3>1, <3>2
  <2> QED
    BY <2>1, <2>2
<1>7. next.first_attempt = a
  BY DEF a
<1> QED
  BY <1>2, <1>4, <1>5, <1>6, <1>7 DEF Counts, new

\* Detections, failures, successes, sweeps and the clock keep the counts.
LEMMA CountsStep ==
    ASSUME TypeOK, CountsInv, [Next]_vars
    PROVE  CountsInv'
<1> SUFFICES ASSUME NEW ip \in IPs, Present(ip)'
             PROVE  Counts(m_brute_force_data[ip], failures[ip])'
  BY DEF CountsInv
<1>0. now \in Nat /\ failures[ip] \in Seq(0..MaxTime) /\ DOMAIN failures = IPs
      /\ DOMAIN m_brute_force_data = IPs
  BY DEF TypeOK
<1>1. ASSUME m_brute_force_data'[ip] = m_brute_force_data[ip],
             failures'[ip] = failures[ip], now' \in Nat, now <= now'
      PROVE  Counts(m_brute_force_data[ip], failures[ip])'
  <2>1. Counts(m_brute_force_data[ip], failures[ip]) /\ m_brute_force_data[ip] \in BruteForceInfo
    BY <1>1 DEF CountsInv, Present, TypeOK
  <2>2. m_brute_force_data[ip].first_attempt <= now'
    BY <1>0, <1>1, <2>1 DEF Counts, BruteForceInfo
  <2> QED
    BY <1>1, <2>1, <2>2 DEF Counts
<1>2. ASSUME NEW info, NEW log, Counts(info, log), m_brute_force_data'[ip] = info,
             failures'[ip] = log, now' = now
      PROVE  Counts(m_brute_force_data[ip], failures[ip])'
  BY <1>2 DEF Counts
<1>3. CASE Tick
  BY <1>0, <1>1, <1>3 DEF Tick, bruteVars
<1>4. ASSUME NEW other \in IPs, other # ip,
             \/ DetectQuiet(other) \/ DetectAttack(other)
             \/ RecordFailedAttempt(other) \/ RecordSuccessfulLogin(other)
      PROVE  Counts(m_brute_force_data[ip], failures[ip])'
  BY <1>0, <1>1, <1>4
     DEF DetectQuiet, DetectAttack, RecordFailedAttempt, RecordSuccessfulLogin
<1>5. CASE DetectQuiet(ip)
  <2>1. /\ m_brute_force_data'[ip] = IF Looked(ip).detected THEN Looked(ip)
                                     ELSE Windowed(Looked(ip))
        /\ failures' = failures /\ now' = now
    BY <1>0, <1>5 DEF DetectQuiet
  <2> QED
    BY <1>2, <2>1, LookedCounts
<1>6. CASE DetectAttack(ip)
  <2> DEFINE info == Windowed(Looked(ip))
             found == [info EXCEPT !.detected = TRUE, !.detection_time = now]
  <2>1. m_brute_force_data'[ip] = found /\ failures' = failures /\ now' = now
    BY <1>0, <1>6 DEF DetectAttack
  <2>2. info \in BruteForceInfo /\ Counts(info, failures[ip])
    BY EntryTyped, LookedCounts
  <2> HIDE DEF info
  <2>3. /\ found.failed_attempts = info.failed_attempts
        /\ found.first_attempt = info.first_attempt
    BY <2>2 DEF BruteForceInfo
  <2> HIDE DEF found
  <2>4. Counts(found, failures[ip])
    BY <2>2, <2>3 DEF Counts
  <2> QED
    BY <1>2, <2>1, <2>4
<1>7. CASE RecordFailedAttempt(ip)
  <2> DEFINE info == Looked(ip)
             next == [info EXCEPT
                        !.failed_attempts = @ + 1,
                        !.first_attempt = IF info.failed_attempts = 0 THEN now ELSE @,
                        !.last_attempt = now]
  <2>1. /\ m_brute_force_data'[ip] = next
        /\ failures'[ip] = Append(failures[ip], now) /\ now' = now
    BY <1>0, <1>7 DEF RecordFailedAttempt
  <2>2. info \in BruteForceInfo /\ Counts(info, failures[ip])
    BY EntryTyped, LookedCounts
  <2>3. next \in BruteForceInfo
    <3>1. m_brute_force_data'[ip] \in BruteForceInfo \cup {NoInfo}
      BY DataTyped
    <3>2. m_brute_force_data'[ip] # NoInfo
      BY DEF Present
    <3> QED
      BY <2>1, <3>1, <3>2
  <2> HIDE DEF info
  <2>4. /\ next.failed_attempts = info.failed_attempts + 1
        /\ next.first_attempt = IF info.failed_attempts = 0 THEN now ELSE info.first_attempt
    BY <2>2 DEF BruteForceInfo
  <2> HIDE DEF next
  <2>5. Counts(next, Append(failures[ip], now))
    BY <1>0, <2>2, <2>3, <2>4, RecordCounts
  <2> QED
    BY <2>1, <2>5 DEF Counts
<1>8. CASE RecordSuccessfulLogin(ip)
  <2> DEFINE info == m_brute_force_data[ip]
             next == [info EXCEPT !.failed_attempts = 0, !.detected = FALSE]
  <2>1. /\ m_brute_force_data'[ip] = IF Present(ip) THEN next ELSE info
        /\ failures'[ip] = << >> /\ now' = now
    BY <1>0, <1>8 DEF RecordSuccessfulLogin
  <2>2. Present(ip)
    BY <2>1 DEF Present
  <2>3. info \in BruteForceInfo /\ info.first_attempt <= now
    BY <2>2 DEF CountsInv, Counts, Present, TypeOK
  <2> HIDE DEF info
  <2>4. next.failed_attempts = 0 /\ next.first_attempt = info.first_attempt
    BY <2>3 DEF BruteForceInfo
  <2> HIDE DEF next
  <2>5. << >> \in Seq(0..MaxTime)
    OBVIOUS
  <2>6. Counts(next, << >>)
    BY <2>3, <2>4, <2>5, NothingCounted
  <2> QED
    BY <1>2, <2>1, <2>2, <2>6
<1>9. CASE CleanupBruteForceData
  <2>1. /\ failures' = failures /\ now' = now
        /\ m_brute_force_data'[ip] = m_brute_force_data[ip] \/ m_brute_force_data'[ip] = NoInfo
    BY <1>9 DEF CleanupBruteForceData
  <2> QED
    BY <1>0, <1>1, <2>1 DEF Present
<1>10. CASE UNCHANGED <<bruteVars, now>>
  BY <1>0, <1>1, <1>10 DEF bruteVars
<1> QED
  BY <1>3, <1>4, <1>5, <1>6, <1>7, <1>8, <1>9, <1>10
     DEF Next, AutoBlock, BlockIp, IsIpBlocked, Worker, WorkerTest, WorkerWakes,
         CleanupBlockedIps, Destroy, bruteVars, vars

\* A count that reaches the threshold stands for as many failures since the
\* first attempt.
LEMMA CountedAreRecent ==
    ASSUME TypeOK, NEW ip \in IPs, NEW info \in BruteForceInfo,
           Counts(info, failures[ip]), info.failed_attempts >= Threshold,
           NEW t \in Int, info.first_attempt >= t
    PROVE  Cardinality(FailuresSince(ip, t)) >= Threshold
<1> DEFINE log == failures[ip]
           n == Len(log)
           f == info.failed_attempts
           a == n - f + 1
<1>1. /\ n \in Nat /\ f \in Nat /\ DOMAIN log = 1..n /\ \A i \in 1..n : log[i] \in Nat
      /\ info.first_attempt \in Nat
  BY DEF TypeOK, BruteForceInfo
<1>2. f <= n /\ \A i \in 1..n : i > n - f => log[i] >= info.first_attempt
  BY DEF Counts
<1>3. f >= Threshold
  OBVIOUS
<1>4. FailuresSince(ip, t) = {i \in 1..n : log[i] >= t}
  BY <1>1 DEF FailuresSince
<1> HIDE DEF log, n, f
<1>5. a..n \subseteq FailuresSince(ip, t)
  <2> SUFFICES ASSUME NEW i \in a..n
               PROVE  i \in 1..n /\ log[i] >= t
    BY <1>4
  <2>1. i \in 1..n /\ i > n - f
    BY <1>1, <1>2
  <2>2. log[i] >= info.first_attempt /\ log[i] \in Nat
    BY <1>1, <1>2, <2>1
  <2> QED
    BY <1>1, <2>1, <2>2
<1>6. IsFiniteSet(FailuresSince(ip, t)) /\ Cardinality(FailuresSince(ip, t)) \in Nat
  <2>1. IsFiniteSet(1..n)
    BY <1>1, FS_Interval
  <2>2. FailuresSince(ip, t) \subseteq 1..n
    BY <1>4
  <2> QED
    BY <2>1, <2>2, FS_Subset, FS_CardinalityType
<1>7. Cardinality(a..n) <= Cardinality(FailuresSince(ip, t))
  BY <1>5, <1>6, FS_Subset
<1>8. a \in Int /\ n \in Int /\ a <= n /\ n - a + 1 = f
  BY <1>1, <1>2, <1>3
<1>9. Cardinality(a..n) = f
  BY <1>8, FS_Interval
<1> QED
  BY <1>1, <1>3, <1>6, <1>7, <1>9

\* An attack is reported only after as many failures as the threshold since the
\* last success, none of them older than the window, whatever restarted the
\* count in between.
THEOREM NoFalseAlarmHolds == Spec => NoFalseAlarm
<1>1. Init => CountsInv
  BY DEF Init, CountsInv, Present
<1>2. TypeOK /\ CountsInv /\ [Next]_vars =>
        [\A ip \in IPs :
            blocking # ip /\ blocking' = ip =>
               Cardinality(FailuresSince(ip, now - Window)) >= Threshold]_vars
  <2> SUFFICES ASSUME TypeOK, CountsInv, Next, NEW ip \in IPs,
                      blocking # ip, blocking' = ip
               PROVE  Cardinality(FailuresSince(ip, now - Window)) >= Threshold
    OBVIOUS
  <2>1. DetectAttack(ip)
    <3>1. ASSUME NEW other \in IPs, DetectAttack(other)
          PROVE  DetectAttack(ip)
      <4>1. other = ip
        BY <3>1 DEF DetectAttack
      <4> QED
        BY <3>1, <4>1
    <3>2. ASSUME NEW other \in IPs, AutoBlock(other)
          PROVE  FALSE
      BY <3>2 DEF AutoBlock
    <3> QED
      BY <3>1, <3>2
         DEF Next, Tick, DetectQuiet, RecordFailedAttempt, RecordSuccessfulLogin, BlockIp,
             IsIpBlocked, Worker, WorkerTest, WorkerWakes, CleanupBruteForceData,
             CleanupBlockedIps, Destroy
  <2>2. /\ Windowed(Looked(ip)) \in BruteForceInfo
        /\ Windowed(Looked(ip)).failed_attempts >= Threshold
    BY <2>1, EntryTyped DEF DetectAttack
  <2>3. now - Window \in Int
    BY DEF TypeOK
  <2> QED
    BY <2>2, <2>3, LookedCounts, CountedAreRecent
<1> QED
  BY <1>1, <1>2, CountsStep, TypeCorrect, PTL DEF Spec, NoFalseAlarm
=============================================================================
