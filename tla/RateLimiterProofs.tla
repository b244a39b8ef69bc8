-------------------------- MODULE RateLimiterProofs --------------------------
(***************************************************************************)
(* Type correctness of RateLimiter, that a block lasts, and how many       *)
(* requests any stretch of time can see, for every number of clients,      *)
(* every limit and every pair of durations.                                *)
(***************************************************************************)
EXTENDS RateLimiter, FiniteSetTheorems, WellFoundedInduction, TLAPS

USE RateLimiterAssumption DEF RateLimiterAssumption

\* Every operation leaves the map, the clock and the histories well typed; the
\* guard of CheckGranted keeps the counts within the limit.
LEMMA TypeStep ==
    ASSUME TypeOK, [Next]_vars
    PROVE  TypeOK'
<1>1. CASE Tick
  BY <1>1 DEF TypeOK, Tick, Present, RateLimitInfo
<1> DEFINE Entry(info) == /\ info \in RateLimitInfo
                          /\ info.request_count <= MaxRequests
                          /\ info.window_start <= now
<1>2. Entry(FreshInfo)
  BY DEF TypeOK, FreshInfo, RateLimitInfo
<1>3. \A ip \in IPs : Present(ip) => Entry(m_rate_limits[ip])
  BY DEF TypeOK, Present
<1>4. \A ip \in IPs : Entry(Looked(ip))
  BY <1>2, <1>3 DEF Looked
<1>5. \A ip \in IPs : Entry(Windowed(Looked(ip)))
  BY <1>2, <1>4 DEF Windowed
<1>6. ASSUME NEW ip \in IPs, CheckExceeded(ip)
      PROVE  TypeOK'
  <2> DEFINE info == Windowed(Looked(ip))
  <2> DEFINE held == [info EXCEPT !.blocked = TRUE,
                                  !.block_until = now + BlockDuration]
  <2>1. /\ m_rate_limits' = [m_rate_limits EXCEPT ![ip] = held]
        /\ refused' = [refused EXCEPT ![ip] = now]
        /\ UNCHANGED <<now, granted>>
    BY <1>6 DEF CheckExceeded
  <2>2. Entry(info)
    BY <1>5
  <2>3. now + BlockDuration \in Nat
    BY DEF TypeOK
  <2>4. Entry(held)
    BY <2>2, <2>3, Zenon DEF RateLimitInfo
  <2> HIDE DEF held
  <2> QED
    BY <2>1, <2>4 DEF TypeOK, Present
<1>7. ASSUME NEW ip \in IPs, CheckGranted(ip)
      PROVE  TypeOK'
  <2> DEFINE info == Windowed(Looked(ip))
  <2> DEFINE counted == [info EXCEPT !.request_count = @ + 1]
  <2>1. /\ m_rate_limits' = [m_rate_limits EXCEPT ![ip] = counted]
        /\ granted' = [granted EXCEPT ![ip] = Append(@, now)]
        /\ UNCHANGED <<now, refused>>
        /\ info.request_count < MaxRequests
    BY <1>7 DEF CheckGranted
  <2>2. Entry(info)
    BY <1>5
  <2>3. Entry(counted)
    BY <2>1, <2>2 DEF RateLimitInfo
  <2> HIDE DEF counted, info
  <2>4. granted' \in [IPs -> Seq(0..MaxTime)]
    BY <2>1 DEF TypeOK
  <2> QED
    BY <2>1, <2>3, <2>4 DEF TypeOK, Present
<1>8. CASE CleanupRateLimits
  <2>1. \A ip \in IPs : Present(ip) => Entry(Unblocked(m_rate_limits[ip]))
    BY <1>2, <1>3 DEF Unblocked
  <2> HIDE DEF Entry
  <2>2. \A ip \in IPs : m_rate_limits'[ip] = NoInfo \/ Entry(m_rate_limits'[ip])
    BY <1>8, <2>1 DEF CleanupRateLimits
  <2>3. m_rate_limits' \in [IPs -> RateLimitInfo \cup {NoInfo}]
    BY <1>8, <2>1 DEF CleanupRateLimits, Entry
  <2> QED
    BY <1>8, <2>2, <2>3 DEF TypeOK, Present, CleanupRateLimits, Entry
<1>9. CASE UNCHANGED vars
  BY <1>9 DEF TypeOK, Present, vars
<1> QED
  BY <1>1, <1>6, <1>7, <1>8, <1>9 DEF Next, CheckBlocked

\* The state of the limiter is well typed, whatever the clients, the limit and
\* the durations: in particular no entry ever counts past the limit.
THEOREM TypeCorrect == Spec => []TypeOK
<1>1. Init => TypeOK
  BY DEF Init, TypeOK, Present
<1> QED
  BY <1>1, TypeStep, PTL DEF Spec

-----------------------------------------------------------------------------
\* While a block should last its entry is in the map, still blocked and with
\* the deadline it was given.  The count is part of it: it is what keeps the
\* sweep from erasing the entry.
BlockHeld ==
    \A ip \in IPs :
        refused[ip] # -1 /\ now < refused[ip] + BlockDuration =>
            /\ Present(ip)
            /\ m_rate_limits[ip].blocked
            /\ m_rate_limits[ip].block_until = refused[ip] + BlockDuration
            /\ m_rate_limits[ip].request_count > 0

\* A step of any client, of the sweep or of the clock leaves the running
\* blocks of all clients in place.
LEMMA BlockHeldStep ==
    ASSUME TypeOK, BlockHeld, [Next]_vars
    PROVE  BlockHeld'
<1>1. CASE Tick
  BY <1>1 DEF BlockHeld, Tick, TypeOK, Present
<1>2. ASSUME NEW ip \in IPs, CheckExceeded(ip)
      PROVE  BlockHeld'
  <2> DEFINE info == Windowed(Looked(ip))
  <2>1. info \in RateLimitInfo
    BY DEF TypeOK, Windowed, Looked, FreshInfo, RateLimitInfo, Present
  <2>2. /\ m_rate_limits' = [m_rate_limits EXCEPT ![ip] =
              [info EXCEPT !.blocked = TRUE, !.block_until = now + BlockDuration]]
        /\ refused' = [refused EXCEPT ![ip] = now]
        /\ UNCHANGED now
        /\ info.request_count >= MaxRequests
    BY <1>2 DEF CheckExceeded
  <2> HIDE DEF info
  <2>3. m_rate_limits'[ip] \in RateLimitInfo
    <3>1. now + BlockDuration \in Nat
      BY DEF TypeOK
    <3> QED
      BY <2>1, <2>2, <3>1, Zenon DEF TypeOK, RateLimitInfo
  <2>4. m_rate_limits'[ip].blocked
    BY <2>1, <2>2, Zenon DEF TypeOK, RateLimitInfo
  <2>5. /\ m_rate_limits'[ip].block_until = refused'[ip] + BlockDuration
        /\ m_rate_limits'[ip].request_count > 0
    BY <2>1, <2>2 DEF TypeOK, RateLimitInfo
  <2>6. \A other \in IPs \ {ip} : /\ m_rate_limits'[other] = m_rate_limits[other]
                                  /\ refused'[other] = refused[other]
    BY <2>2 DEF TypeOK
  <2> QED
    BY <2>2, <2>3, <2>4, <2>5, <2>6 DEF BlockHeld, Present
<1>3. ASSUME NEW ip \in IPs, CheckGranted(ip)
      PROVE  BlockHeld'
  <2>1. ~(refused[ip] # -1 /\ now < refused[ip] + BlockDuration)
    BY <1>3 DEF CheckGranted, IsBlocked, Looked, BlockHeld
  <2>2. \A other \in IPs \ {ip} : m_rate_limits'[other] = m_rate_limits[other]
    BY <1>3 DEF CheckGranted, TypeOK
  <2>3. UNCHANGED <<now, refused>>
    BY <1>3 DEF CheckGranted
  <2> QED
    BY <2>1, <2>2, <2>3 DEF BlockHeld, Present
<1>4. CASE CleanupRateLimits
  <2> SUFFICES ASSUME NEW ip \in IPs,
                      refused[ip] # -1, now < refused[ip] + BlockDuration
               PROVE  m_rate_limits'[ip] = m_rate_limits[ip]
    BY <1>4 DEF BlockHeld, CleanupRateLimits, Present
  <2>1. Unblocked(m_rate_limits[ip]) = m_rate_limits[ip]
    BY DEF Unblocked, BlockHeld, TypeOK, RateLimitInfo, Present
  <2>2. ~Swept(m_rate_limits[ip])
    BY DEF Swept, BlockHeld
  <2> QED
    BY <1>4, <2>1, <2>2 DEF CleanupRateLimits, BlockHeld
<1>5. CASE UNCHANGED vars
  BY <1>5 DEF BlockHeld, vars, Present
<1> QED
  BY <1>1, <1>2, <1>3, <1>4, <1>5 DEF Next, CheckBlocked

\* A client that exceeded its limit has no request let through before the
\* block duration is over.
THEOREM BlockLastsHolds == Spec => BlockLasts
<1>1. Init => BlockHeld
  BY DEF Init, BlockHeld
<1>2. TypeOK /\ BlockHeld /\ [Next]_vars =>
        [\A ip \in IPs : refused[ip] # -1 /\ now < refused[ip] + BlockDuration
                         => granted'[ip] = granted[ip]]_vars
  <2> SUFFICES ASSUME TypeOK, BlockHeld, Next, NEW ip \in IPs,
                      refused[ip] # -1, now < refused[ip] + BlockDuration
               PROVE  granted'[ip] = granted[ip]
    BY DEF vars
  <2>1. IsBlocked(Looked(ip))
    BY DEF IsBlocked, Looked, BlockHeld
  <2>2. ASSUME NEW other \in IPs, CheckGranted(other)
        PROVE  granted'[ip] = granted[ip]
    BY <2>1, <2>2 DEF CheckGranted, TypeOK
  <2> QED
    BY <2>2 DEF Next, Tick, CheckBlocked, CheckExceeded, CleanupRateLimits, vars
<1> QED
  BY <1>1, <1>2, BlockHeldStep, TypeCorrect, PTL DEF Spec, BlockLasts

-----------------------------------------------------------------------------
(* The sliding window.                                                     *)

\* An entry and the log of what was let through: the last requests of the log
\* are those the window counts, and the older ones lie before its start, all
\* but the last MaxRequests of them by a window or more.
Windows(info, log) ==
    LET older == Len(log) - info.request_count
    IN  /\ info.request_count <= Len(log)
        /\ \A i \in 1..Len(log) : i <= older => log[i] <= info.window_start
        /\ \A i \in 1..Len(log) : i > older => log[i] >= info.window_start
        /\ \A i \in 1..Len(log) : i + MaxRequests <= older =>
              log[i] + Window <= info.window_start
        /\ info.blocked => info.block_until >= info.window_start + Window

\* A log grows with the clock, and a request is let through a window or more
\* after the one that lies two limits before it.
Spaced(log) ==
    /\ \A i \in 1..Len(log) : log[i] <= now
    /\ \A i, j \in 1..Len(log) : i <= j => log[i] <= log[j]
    /\ \A i, j \in 1..Len(log) : j = i + 2 * MaxRequests => log[j] >= log[i] + Window

WindowInv == \A ip \in IPs : Windows(Looked(ip), granted[ip]) /\ Spaced(granted[ip])

\* What TypeOK says of one entry, and of the entry a request looks up.
Entry(info) ==
    /\ info \in RateLimitInfo
    /\ info.request_count <= MaxRequests
    /\ info.window_start <= now

LEMMA LookedIsEntry ==
    ASSUME TypeOK, NEW ip \in IPs
    PROVE  Entry(Looked(ip)) /\ Entry(FreshInfo)
BY DEF Entry, TypeOK, Looked, FreshInfo, RateLimitInfo, Present

\* A window may be restarted when it is over, or when nothing was counted in it
\* since: the requests of the log are then older.
LEMMA Restarted ==
    ASSUME NEW info \in RateLimitInfo, NEW log \in Seq(0..MaxTime), NEW t \in Nat,
           NEW fresh \in RateLimitInfo,
           fresh.request_count = 0, fresh.window_start = t, ~fresh.blocked,
           info.request_count <= MaxRequests, info.window_start <= t,
           \A i \in 1..Len(log) : log[i] <= t,
           Windows(info, log),
           info.request_count = 0 \/ t >= info.window_start + Window
    PROVE  Windows(fresh, log)
<1> DEFINE n == Len(log)
           c == info.request_count
           w == info.window_start
<1>1. n \in Nat /\ c \in Nat /\ w \in Nat /\ \A i \in 1..n : log[i] \in Nat
  BY DEF RateLimitInfo
<1>2. /\ c <= n
      /\ \A i \in 1..n : i <= n - c => log[i] <= w
      /\ \A i \in 1..n : i + MaxRequests <= n - c => log[i] + Window <= w
  BY DEF Windows
<1>3. c <= MaxRequests /\ w <= t /\ (c = 0 \/ t >= w + Window)
  OBVIOUS
<1> HIDE DEF n, c, w
<1>4. \A i \in 1..n : i + MaxRequests <= n => log[i] + Window <= t
  BY <1>1, <1>2, <1>3
<1>5. \A i \in 1..n : i <= n
  OBVIOUS
<1> QED
  BY <1>1, <1>4, <1>5 DEF Windows, n

\* A request that is counted is let through a window or more after the one two
\* limits before it.
LEMMA Counted ==
    ASSUME TypeOK, NEW info \in RateLimitInfo, NEW log \in Seq(0..MaxTime),
           info.request_count < MaxRequests, info.window_start <= now,
           Windows(info, log), Spaced(log),
           NEW next \in RateLimitInfo,
           next.request_count = info.request_count + 1,
           next.window_start = info.window_start,
           next.blocked = info.blocked, next.block_until = info.block_until
    PROVE  Windows(next, Append(log, now)) /\ Spaced(Append(log, now))
<1> DEFINE n == Len(log)
           c == info.request_count
           w == info.window_start
           new == Append(log, now)
<1>1. /\ n \in Nat /\ c \in Nat /\ w \in Nat /\ now \in Nat
      /\ \A i \in 1..n : log[i] \in Nat
  BY DEF RateLimitInfo, TypeOK
<1>2. /\ Len(new) = n + 1
      /\ \A i \in 1..n : new[i] = log[i]
      /\ new[n + 1] = now
  BY DEF TypeOK
<1>3. /\ c <= n
      /\ \A i \in 1..n : i <= n - c => log[i] <= w
      /\ \A i \in 1..n : i > n - c => log[i] >= w
      /\ \A i \in 1..n : i + MaxRequests <= n - c => log[i] + Window <= w
  BY DEF Windows
<1>4. /\ \A i \in 1..n : log[i] <= now
      /\ \A i, j \in 1..n : i <= j => log[i] <= log[j]
      /\ \A i, j \in 1..n : j = i + 2 * MaxRequests => log[j] >= log[i] + Window
  BY DEF Spaced
<1>5. c < MaxRequests /\ w <= now
  OBVIOUS
<1>6. info.blocked => next.block_until >= w + Window
  BY DEF Windows
<1>7. next.request_count = c + 1 /\ next.window_start = w /\ next.blocked = info.blocked
  OBVIOUS
<1> HIDE DEF n, c, w, new
<1>8. Windows(next, new)
  <2>1. (n + 1) - (c + 1) = n - c
    BY <1>1
  <2>2. \A i \in 1..(n + 1) : i = n + 1 \/ i \in 1..n
    BY <1>1
  <2>3. \A i \in 1..(n + 1) : i <= n - c => new[i] <= w
    BY <1>1, <1>2, <1>3, <2>2
  <2>4. \A i \in 1..(n + 1) : i > n - c => new[i] >= w
    BY <1>1, <1>2, <1>3, <1>5, <2>2
  <2>5. ASSUME NEW i \in 1..(n + 1), i + MaxRequests <= n - c
        PROVE  new[i] + Window <= w
    <3>1. i \in 1..n
      BY <1>1, <2>5
    <3>2. log[i] + Window <= w
      BY <1>3, <2>5, <3>1
    <3> QED
      BY <1>2, <3>1, <3>2
  <2>6. c + 1 <= n + 1
    BY <1>1, <1>3
  <2> QED
    BY <1>2, <1>6, <1>7, <2>1, <2>3, <2>4, <2>5, <2>6 DEF Windows
<1>9. Spaced(new)
  <2>1. \A i \in 1..(n + 1) : i = n + 1 \/ i \in 1..n
    BY <1>1
  <2>2. \A i \in 1..(n + 1) : new[i] <= now
    BY <1>1, <1>2, <1>4, <2>1
  <2>3. \A i, j \in 1..(n + 1) : i <= j => new[i] <= new[j]
    BY <1>1, <1>2, <1>4, <2>1
  <2>4. \A i, j \in 1..(n + 1) : j = i + 2 * MaxRequests => new[j] >= new[i] + Window
    <3> SUFFICES ASSUME NEW i \in 1..(n + 1), NEW j \in 1..(n + 1),
                        j = i + 2 * MaxRequests
                 PROVE  new[j] >= new[i] + Window
      OBVIOUS
    <3>1. CASE j \in 1..n
      <4>1. i \in 1..n
        BY <1>1, <3>1
      <4>2. log[j] >= log[i] + Window
        BY <1>4, <3>1, <4>1
      <4> QED
        BY <1>2, <3>1, <4>1, <4>2
    <3>2. CASE j = n + 1
      <4>1. i \in 1..n /\ i + MaxRequests <= n - c
        BY <1>1, <1>5, <3>2
      <4>2. log[i] + Window <= w
        BY <1>3, <4>1
      <4>3. new[i] = log[i] /\ new[j] = now /\ log[i] \in Nat
        BY <1>1, <1>2, <3>2, <4>1
      <4> QED
        BY <1>1, <1>5, <4>2, <4>3
    <3> QED
      BY <2>1, <3>1, <3>2
  <2> QED
    BY <1>2, <2>2, <2>3, <2>4 DEF Spaced
<1> QED
  BY <1>8, <1>9 DEF new

\* The clock, a request of any client and the sweep leave the windows and the
\* logs in order.
LEMMA WindowStep ==
    ASSUME TypeOK, TypeOK', WindowInv, [Next]_vars
    PROVE  WindowInv'
<1> SUFFICES ASSUME NEW ip \in IPs
             PROVE  Windows(Looked(ip)', granted'[ip]) /\ Spaced(granted[ip])'
  BY DEF WindowInv
<1> DEFINE info == Looked(ip)
           log == granted[ip]
<1>0. /\ Windows(info, log) /\ Spaced(log)
      /\ Entry(info) /\ Entry(FreshInfo)
      /\ log \in Seq(0..MaxTime) /\ now \in Nat
  BY LookedIsEntry DEF WindowInv, TypeOK
<1>1. ASSUME granted'[ip] = granted[ip], now' \in Nat, now <= now',
             \/ Looked(ip)' = info
             \/ /\ Looked(ip)' = FreshInfo'
                /\ info.request_count = 0 \/ now' >= info.window_start + Window
      PROVE  Windows(Looked(ip)', granted'[ip]) /\ Spaced(granted[ip])'
  <2>1. ASSUME NEW i \in 1..Len(log)
        PROVE  log[i] <= now'
    <3>1. log[i] <= now /\ log[i] \in Nat
      BY <1>0 DEF Spaced
    <3> QED
      BY <1>0, <1>1, <3>1
  <2>2. Spaced(granted[ip])'
    <3>1. /\ \A i, j \in 1..Len(log) : i <= j => log[i] <= log[j]
          /\ \A i, j \in 1..Len(log) : j = i + 2 * MaxRequests => log[j] >= log[i] + Window
      BY <1>0 DEF Spaced
    <3> QED
      BY <1>1, <2>1, <3>1, Zenon DEF Spaced
  <2>3. CASE Looked(ip)' = info
    BY <1>0, <1>1, <2>2, <2>3
  <2>4. CASE Looked(ip)' = FreshInfo' /\ (info.request_count = 0 \/ now' >= info.window_start + Window)
    <3>1. /\ FreshInfo' \in RateLimitInfo
          /\ FreshInfo'.request_count = 0 /\ FreshInfo'.window_start = now'
          /\ ~FreshInfo'.blocked
      BY <1>1 DEF FreshInfo, RateLimitInfo
    <3>2. info \in RateLimitInfo /\ info.request_count <= MaxRequests
      BY <1>0 DEF Entry
    <3>3. info.window_start <= now'
      BY <1>0, <1>1 DEF Entry, RateLimitInfo
    <3> HIDE DEF info, log
    <3>4. Windows(FreshInfo', log)
      BY <1>0, <1>1, <2>1, <2>4, <3>1, <3>2, <3>3, Restarted
    <3> QED
      BY <1>1, <2>2, <2>4, <3>4 DEF log
  <2> QED
    BY <1>1, <2>3, <2>4
<1>2. CASE Tick
  <2>1. /\ now' \in Nat /\ now <= now' /\ granted' = granted
        /\ m_rate_limits' = m_rate_limits
    BY <1>0, <1>2 DEF Tick
  <2>2. CASE Present(ip)
    BY <1>1, <2>1, <2>2 DEF Looked, Present
  <2>3. CASE ~Present(ip)
    BY <1>1, <2>1, <2>3 DEF Looked, Present, FreshInfo
  <2> QED
    BY <2>2, <2>3
<1>3. ASSUME NEW other \in IPs, other # ip,
             CheckExceeded(other) \/ CheckGranted(other)
      PROVE  Windows(Looked(ip)', granted'[ip]) /\ Spaced(granted[ip])'
  <2>1. /\ m_rate_limits'[ip] = m_rate_limits[ip] /\ granted'[ip] = granted[ip]
        /\ now' = now
    BY <1>3 DEF CheckExceeded, CheckGranted, TypeOK
  <2>2. Looked(ip)' = info
    BY <2>1 DEF Looked, Present, FreshInfo
  <2> QED
    BY <1>0, <1>1, <2>1, <2>2
\* The entry a request goes on with.
<1> DEFINE current == Windowed(info)
<1>4. Entry(current) /\ Windows(current, log)
  <2>1. CASE now - info.window_start >= Window
    <3>1. FreshInfo.request_count = 0 /\ FreshInfo.window_start = now /\ ~FreshInfo.blocked
      BY DEF FreshInfo
    <3>2. info \in RateLimitInfo /\ FreshInfo \in RateLimitInfo
          /\ info.request_count <= MaxRequests /\ info.window_start <= now
      BY <1>0 DEF Entry
    <3>3. now >= info.window_start + Window
      BY <1>0, <2>1, <3>2 DEF RateLimitInfo
    <3>4. \A i \in 1..Len(log) : log[i] <= now
      BY <1>0 DEF Spaced
    <3> HIDE DEF info, log
    <3>5. Windows(FreshInfo, log)
      BY <1>0, <3>1, <3>2, <3>3, <3>4, Restarted
    <3> QED
      BY <1>0, <2>1, <3>5 DEF Windowed
  <2>2. CASE ~(now - info.window_start >= Window)
    BY <1>0, <2>2 DEF Windowed
  <2> QED
    BY <2>1, <2>2
<1>5. CASE CheckExceeded(ip)
  <2> DEFINE held == [current EXCEPT !.blocked = TRUE, !.block_until = now + BlockDuration]
  <2>1. /\ m_rate_limits'[ip] = held /\ granted' = granted /\ now' = now
    BY <1>5 DEF CheckExceeded, TypeOK
  <2>2. current \in RateLimitInfo /\ current.window_start <= now
    BY <1>4 DEF Entry
  <2>3. now + BlockDuration \in Nat
    BY <1>0
  <2> HIDE DEF current
  <2>4. held \in RateLimitInfo
    BY <2>2, <2>3, Zenon DEF RateLimitInfo
  <2>5. /\ held.request_count = current.request_count
        /\ held.window_start = current.window_start
        /\ held.block_until = now + BlockDuration
    BY <2>2 DEF RateLimitInfo
  <2> HIDE DEF held
  <2>6. now + BlockDuration >= current.window_start + Window
    BY <1>0, <2>2 DEF RateLimitInfo
  <2>7. Windows(held, log)
    BY <1>4, <2>5, <2>6 DEF Windows
  <2>8. Looked(ip)' = held
    BY <2>1, <2>4 DEF Looked, Present
  <2>9. Spaced(granted[ip])'
    BY <1>0, <2>1 DEF Spaced
  <2> QED
    BY <2>1, <2>7, <2>8, <2>9
<1>6. CASE CheckGranted(ip)
  <2> DEFINE counted == [current EXCEPT !.request_count = @ + 1]
  <2>1. /\ m_rate_limits'[ip] = counted /\ granted'[ip] = Append(log, now) /\ now' = now
        /\ current.request_count < MaxRequests
    BY <1>6 DEF CheckGranted, TypeOK
  <2>2. current \in RateLimitInfo /\ current.window_start <= now
    BY <1>4 DEF Entry
  <2> HIDE DEF current
  <2>3. /\ counted \in RateLimitInfo
        /\ counted.request_count = current.request_count + 1
        /\ counted.window_start = current.window_start
        /\ counted.block_until = current.block_until
    BY <2>2 DEF RateLimitInfo
  <2>4. counted.blocked = current.blocked
    BY <2>2, Zenon DEF RateLimitInfo
  <2> HIDE DEF counted, log
  <2>5. Windows(counted, Append(log, now)) /\ Spaced(Append(log, now))
    BY <1>0, <1>4, <2>1, <2>2, <2>3, <2>4, Counted
  <2>6. Looked(ip)' = counted
    BY <2>1, <2>3 DEF Looked, Present
  <2>7. Spaced(granted[ip])'
    BY <2>1, <2>5 DEF Spaced
  <2> QED
    BY <2>1, <2>5, <2>6, <2>7
<1>7. CASE CleanupRateLimits
  <2>1. /\ now' = now /\ granted' = granted
        /\ m_rate_limits'[ip] = IF Present(ip) /\ ~Swept(Unblocked(m_rate_limits[ip]))
                                THEN Unblocked(m_rate_limits[ip]) ELSE NoInfo
    BY <1>7 DEF CleanupRateLimits
  <2>2. FreshInfo' = FreshInfo
    BY <2>1 DEF FreshInfo
  <2>3. CASE ~Present(ip)
    <3>1. Looked(ip)' = info
      BY <2>1, <2>2, <2>3 DEF Looked, Present
    <3> QED
      BY <1>0, <1>1, <2>1, <3>1
  <2>4. CASE Present(ip) /\ info.blocked /\ now >= info.block_until
    <3>1. now >= info.window_start + Window
      BY <1>0, <2>4 DEF Windows, Entry, RateLimitInfo
    <3>2. Unblocked(m_rate_limits[ip]) = FreshInfo
      BY <2>4 DEF Unblocked, Looked
    <3>3. ~Swept(FreshInfo)
      BY <1>0 DEF Swept, FreshInfo
    <3>4. Looked(ip)' = FreshInfo'
      BY <1>0, <2>1, <2>2, <2>4, <3>2, <3>3 DEF Looked, Present, Entry
    <3> QED
      BY <1>0, <1>1, <2>1, <3>1, <3>4
  <2>5. CASE Present(ip) /\ ~(info.blocked /\ now >= info.block_until)
    <3>1. Unblocked(m_rate_limits[ip]) = info /\ m_rate_limits[ip] = info
      BY <2>5 DEF Unblocked, Looked
    <3>2. CASE Swept(info)
      <4>1. Looked(ip)' = FreshInfo' /\ info.request_count = 0
        BY <2>1, <3>1, <3>2 DEF Looked, Present, Swept
      <4> QED
        BY <1>0, <1>1, <2>1, <4>1
    <3>3. CASE ~Swept(info)
      <4>1. Looked(ip)' = info
        BY <2>1, <2>5, <3>1, <3>3 DEF Looked, Present
      <4> QED
        BY <1>0, <1>1, <2>1, <4>1
    <3> QED
      BY <3>2, <3>3
  <2> QED
    BY <2>3, <2>4, <2>5
<1>8. CASE UNCHANGED vars
  <2>1. Looked(ip)' = info /\ granted' = granted /\ now' = now
    BY <1>8 DEF vars, Looked, Present, FreshInfo
  <2> QED
    BY <1>0, <1>1, <2>1
<1> QED
  BY <1>2, <1>3, <1>5, <1>6, <1>7, <1>8 DEF Next, CheckBlocked

\* Nothing was let through at first.
LEMMA InitWindowInv == Init => WindowInv
BY DEF Init, WindowInv, Windows, Spaced, Looked, Present, FreshInfo

\* A set of natural numbers that is not empty has a least one.
LEMMA Least ==
    ASSUME NEW T, T \subseteq Nat, T # {}
    PROVE  \E n \in T : \A m \in T : n <= m
<1>1. PICK x \in T : \A y \in T : ~(<<y, x>> \in OpToRel(<, Nat))
  BY WFMin, NatLessThanWellFounded
<1>2. \A y \in T : ~(y < x)
  BY <1>1 DEF OpToRel
<1> QED
  BY <1>2

\* In a log that is spaced, those of one window lie within two limits of each
\* other.
LEMMA SpacedIsSliding ==
    ASSUME TypeOK, NEW ip \in IPs, Spaced(granted[ip]), NEW t \in 0..MaxTime
    PROVE  Cardinality(GrantedFrom(ip, t)) <= 2 * MaxRequests
<1> DEFINE log == granted[ip]
           S == GrantedFrom(ip, t)
<1>1. log \in Seq(0..MaxTime) /\ DOMAIN log = 1..Len(log) /\ Len(log) \in Nat
  BY DEF TypeOK
<1>2. S \subseteq 1..Len(log)
  BY <1>1 DEF GrantedFrom
<1>3. CASE S = {}
  BY <1>3, FS_EmptySet
<1>4. CASE S # {}
  <2>0. S \subseteq Nat
    BY <1>1, <1>2
  <2>1. PICK a \in S : \A i \in S : a <= i
    <3> HIDE DEF S
    <3> QED
      BY <1>4, <2>0, Least
  <2>2. ASSUME NEW i \in S
        PROVE  i \in a..(a + 2 * MaxRequests - 1)
    <3>0. i \in 1..Len(log) /\ a \in 1..Len(log) /\ a <= i
      BY <1>2, <2>1
    <3>1. /\ i \in 1..Len(log) /\ a \in 1..Len(log) /\ a <= i
          /\ t <= log[a] /\ log[i] < t + Window
          /\ log[i] \in Nat /\ log[a] \in Nat
      BY <1>1, <2>1, <3>0 DEF GrantedFrom
    <3>2. ASSUME i >= a + 2 * MaxRequests
          PROVE  FALSE
      <4> DEFINE b == a + 2 * MaxRequests
      <4>1. b \in 1..Len(log) /\ b <= i
        BY <1>1, <3>1, <3>2
      <4>2. log[b] \in Nat
        BY <1>1, <4>1
      <4>3. log[b] <= log[i]
        BY <3>1, <4>1 DEF Spaced
      <4>4. log[b] >= log[a] + Window
        <5>1. \A k, j \in 1..Len(log) : j = k + 2 * MaxRequests => log[j] >= log[k] + Window
          BY DEF Spaced
        <5>2. b = a + 2 * MaxRequests
          OBVIOUS
        <5> HIDE DEF b
        <5> QED
          BY <3>1, <4>1, <5>1, <5>2
      <4>5. t \in Nat /\ Window \in Nat
        OBVIOUS
      <4> HIDE DEF b, log
      <4> QED
        BY <3>1, <4>2, <4>3, <4>4, <4>5
    <3> QED
      BY <1>1, <3>1, <3>2
  <2> DEFINE b == a + 2 * MaxRequests - 1
  <2>3. a \in Int /\ b \in Int /\ a <= b /\ b - a + 1 = 2 * MaxRequests
    BY <1>1, <1>2, <2>1
  <2>4. S \subseteq a..b
    BY <2>2
  <2>5. IsFiniteSet(a..b) /\ Cardinality(a..b) = b - a + 1
    BY <2>3, FS_Interval
  <2>6. Cardinality(S) <= Cardinality(a..b)
    BY <2>4, <2>5, FS_Subset
  <2> QED
    BY <2>3, <2>5, <2>6
<1> QED
  BY <1>3, <1>4

\* However the windows of a client fall, and whatever restarts them, no stretch
\* of time as long as a window sees more than two windows' worth of its
\* requests let through.
THEOREM SlidingWindowHolds == Spec => []SlidingWindow
<1>1. TypeOK /\ WindowInv => SlidingWindow
  BY SpacedIsSliding DEF WindowInv, SlidingWindow
<1> QED
  BY <1>1, InitWindowInv, WindowStep, TypeCorrect, PTL DEF Spec
=============================================================================
