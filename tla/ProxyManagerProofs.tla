------------------------- MODULE ProxyManagerProofs -------------------------
(***************************************************************************)
(* What holds of the proxies for any number of sessions and connections,   *)
(* any size of a read and any traffic: types, that each direction of a     *)
(* connection is a relay, that an active connection is mapped and served,  *)
(* and that nothing is counted twice.                                      *)
(***************************************************************************)
EXTENDS ProxyManager, FiniteSetTheorems, WellFoundedInduction, TLAPS

-----------------------------------------------------------------------------
(* Sums over finite sets.                                                  *)

\* A set of natural numbers that is not empty has a least one.
LEMMA Least ==
    ASSUME NEW T, T \subseteq Nat, T # {}
    PROVE  \E n \in T : \A m \in T : n <= m
<1>1. PICK x \in T : \A y \in T : ~(<<y, x>> \in OpToRel(<, Nat))
  BY WFMin, NatLessThanWellFounded
<1>2. \A y \in T : ~(y < x)
  BY <1>1 DEF OpToRel
<1> QED
  BY <1>2

Any(s) == CHOOSE x \in s : TRUE

\* g gives every set of C the sum of f over it.
IsSum(g, f, C) ==
    g = [s \in SUBSET C |-> IF s = {} THEN 0 ELSE f[Any(s)] + g[s \ {Any(s)}]]

\* An element is taken out of a set, and one fewer is left.
LEMMA AnyRemoved ==
    ASSUME NEW C, IsFiniteSet(C), NEW s \in SUBSET C, s # {}
    PROVE  /\ Any(s) \in s /\ Any(s) \in C
           /\ s \ {Any(s)} \in SUBSET C
           /\ Cardinality(s) \in Nat
           /\ Cardinality(s \ {Any(s)}) = Cardinality(s) - 1
<1>1. Any(s) \in s
  BY DEF Any
<1>2. IsFiniteSet(s)
  BY FS_Subset
<1> QED
  BY <1>1, <1>2, FS_RemoveElement, FS_CardinalityType

\* The sum over the subsets of a finite set is defined: the equation is met by
\* a function for the sets of up to n elements, for every n.
LEMMA SumExists ==
    ASSUME NEW C, IsFiniteSet(C), NEW f \in [C -> Nat]
    PROVE  \E g \in [SUBSET C -> Nat] : IsSum(g, f, C)
<1> DEFINE Sums(g, s) == IF s = {} THEN 0 ELSE f[Any(s)] + g[s \ {Any(s)}]
           UpTo(g, n) == \A s \in SUBSET C : Cardinality(s) <= n => g[s] = Sums(g, s)
           Bad == {n \in Nat : ~ \E g \in [SUBSET C -> Nat] : UpTo(g, n)}
<1>1. \A g \in [SUBSET C -> Nat] : \A s \in SUBSET C : Sums(g, s) \in Nat
  <2> SUFFICES ASSUME NEW g \in [SUBSET C -> Nat], NEW s \in SUBSET C, s # {}
               PROVE  f[Any(s)] + g[s \ {Any(s)}] \in Nat
    OBVIOUS
  <2>1. f[Any(s)] \in Nat /\ g[s \ {Any(s)}] \in Nat
    BY AnyRemoved
  <2> QED
    BY <2>1
<1>2. \A s \in SUBSET C : IsFiniteSet(s) /\ Cardinality(s) \in Nat
                          /\ Cardinality(s) <= Cardinality(C)
  BY FS_Subset, FS_CardinalityType
<1>3. Bad = {}
  <2> SUFFICES ASSUME Bad # {} PROVE FALSE
    OBVIOUS
  <2>1. PICK n \in Bad : \A m \in Bad : n <= m
    <3> HIDE DEF UpTo
    <3> QED
      BY Least
  <2>2. CASE n = 0
    <3> DEFINE g == [s \in SUBSET C |-> 0]
    <3>1. g \in [SUBSET C -> Nat]
      OBVIOUS
    <3>2. UpTo(g, 0)
      BY <1>2, FS_EmptySet
    <3> QED
      BY <2>2, <3>1, <3>2
  <2>3. CASE n # 0
    <3>1. n - 1 \in Nat /\ n - 1 \notin Bad
      <4> HIDE DEF UpTo
      <4>1. n \in Nat
        OBVIOUS
      <4>2. n - 1 \in Nat /\ ~(n <= n - 1)
        BY <2>3, <4>1
      <4> QED
        BY <2>1, <4>2
    <3>2. PICK g \in [SUBSET C -> Nat] : UpTo(g, n - 1)
      BY <3>1
    <3> DEFINE h == [s \in SUBSET C |-> Sums(g, s)]
    <3>3. h \in [SUBSET C -> Nat]
      BY <1>1
    <3>4. ASSUME NEW s \in SUBSET C, Cardinality(s) <= n
          PROVE  h[s] = Sums(h, s)
      <4>1. CASE s = {}
        BY <4>1
      <4>2. CASE s # {}
        <5> DEFINE r == s \ {Any(s)}
        <5>1. r \in SUBSET C /\ Cardinality(r) <= n - 1
          BY <3>4, <4>2, AnyRemoved
        <5>2. g[r] = Sums(g, r)
          BY <3>2, <5>1
        <5>3. h[r] = g[r]
          BY <5>1, <5>2
        <5> QED
          BY <4>2, <5>3
      <4> QED
        BY <4>1, <4>2
    <3> QED
      BY <3>3, <3>4
  <2> QED
    BY <2>2, <2>3
<1>4. Cardinality(C) \in Nat
  BY FS_CardinalityType
<1>5. PICK g \in [SUBSET C -> Nat] : UpTo(g, Cardinality(C))
  BY <1>3, <1>4
<1>6. \A s \in SUBSET C : g[s] = Sums(g, s)
  BY <1>2, <1>5
<1>7. g = [s \in SUBSET C |-> Sums(g, s)]
  BY <1>6
<1> QED
  BY <1>7 DEF IsSum

\* A sum grows by at least what one of its terms grows, when no other shrinks.
LEMMA SumGrows ==
    ASSUME NEW C, IsFiniteSet(C), NEW f \in [C -> Nat], NEW f2 \in [C -> Nat],
           NEW g \in [SUBSET C -> Nat], IsSum(g, f, C),
           NEW g2 \in [SUBSET C -> Nat], IsSum(g2, f2, C),
           NEW c, NEW k \in Nat, c \in C \/ k = 0, c \in C => f[c] + k <= f2[c],
           \A x \in C : f[x] <= f2[x]
    PROVE  g[C] + k <= g2[C]
<1> DEFINE Good(s) == g[s] + (IF c \in s THEN k ELSE 0) <= g2[s]
           Bad == {n \in Nat : \E s \in SUBSET C : Cardinality(s) = n /\ ~Good(s)}
<1>1. Bad = {}
  <2> SUFFICES ASSUME Bad # {} PROVE FALSE
    OBVIOUS
  <2>1. PICK n \in Bad : \A m \in Bad : n <= m
    <3> HIDE DEF Good
    <3> QED
      BY Least
  <2>2. PICK s \in SUBSET C : Cardinality(s) = n /\ ~Good(s)
    OBVIOUS
  <2>3. CASE s = {}
    <3>1. g[s] = 0 /\ g2[s] = 0
      BY <2>3 DEF IsSum
    <3> QED
      BY <2>2, <2>3, <3>1
  <2>4. CASE s # {}
    <3> DEFINE x == Any(s)
               r == s \ {x}
    <3>1. /\ x \in s /\ x \in C /\ r \in SUBSET C
          /\ n \in Nat /\ Cardinality(r) = n - 1
      BY <2>2, <2>4, AnyRemoved
    <3>2. n - 1 \in Nat
      <4>1. IsFiniteSet(r)
        BY <3>1, FS_Subset
      <4> QED
        BY <3>1, <4>1, FS_CardinalityType
    <3>3. Good(r)
      <4>1. n - 1 \notin Bad
        BY <2>1, <3>1, <3>2
      <4> QED
        BY <3>1, <3>2, <4>1
    <3>4. g[s] = f[x] + g[r] /\ g2[s] = f2[x] + g2[r]
      BY <2>4 DEF IsSum
    <3>5. c \in r <=> c \in s /\ c # x
      OBVIOUS
    <3>6. /\ f[x] \in Nat /\ f2[x] \in Nat /\ f[x] <= f2[x]
          /\ g[r] \in Nat /\ g2[r] \in Nat
          /\ c = x => f[x] + k <= f2[x]
      BY <3>1
    <3> HIDE DEF x, r
    <3>7. Good(s)
      BY <3>1, <3>3, <3>4, <3>5, <3>6
    <3> QED
      BY <2>2, <3>7
  <2> QED
    BY <2>3, <2>4
<1>2. Good(C)
  BY <1>1, FS_CardinalityType
<1> QED
  BY <1>2

\* There is one such function only.
LEMMA SumUnique ==
    ASSUME NEW C, IsFiniteSet(C), NEW f, NEW g, IsSum(g, f, C), NEW h, IsSum(h, f, C)
    PROVE  g[C] = h[C]
<1> DEFINE Bad == {n \in Nat : \E s \in SUBSET C : Cardinality(s) = n /\ g[s] # h[s]}
<1>1. Bad = {}
  <2> SUFFICES ASSUME Bad # {} PROVE FALSE
    OBVIOUS
  <2>1. PICK n \in Bad : \A m \in Bad : n <= m
    BY Least
  <2>2. PICK s \in SUBSET C : Cardinality(s) = n /\ g[s] # h[s]
    OBVIOUS
  <2>3. s # {}
    BY <2>2 DEF IsSum
  <2> DEFINE r == s \ {Any(s)}
  <2>4. g[r] # h[r]
    <3>1. g[s] = f[Any(s)] + g[r]
      BY <2>3 DEF IsSum
    <3>2. h[s] = f[Any(s)] + h[r]
      BY <2>3 DEF IsSum
    <3> QED
      BY <2>2, <3>1, <3>2
  <2>5. r \in SUBSET C /\ n \in Nat /\ Cardinality(r) = n - 1
    BY <2>2, <2>3, AnyRemoved
  <2>6. n - 1 \in Nat
    <3>1. IsFiniteSet(r)
      BY <2>5, FS_Subset
    <3> QED
      BY <2>5, <3>1, FS_CardinalityType
  <2>7. n - 1 \in Bad
    BY <2>4, <2>5, <2>6
  <2> QED
    BY <2>1, <2>5, <2>7
<1> QED
  BY <1>1, FS_CardinalityType

-----------------------------------------------------------------------------
(* Types, lives and pumps.                                                 *)

USE ProxyAssumption DEF ProxyAssumption

\* The k units that follow the first n.
Following(n, k) == [i \in 1..k |-> n + i]

\* The pump of a direction: what it has read and not written is nothing when
\* it reads, at most one read's worth when it does not, and exactly the
\* contents of the buffer when it writes.  A pump that has not begun holds
\* nothing, and so begins as a relay does.
Pump(c, d) ==
    LET n == Len(delivered[c][d])
    IN  /\ n <= taken[c][d]
        /\ ~Started(c) \/ pc[c]["connect"] = "connecting" \/ pc[c][d] = "reading" =>
              n = taken[c][d] /\ buffer[c][d] = << >>
        /\ pc[c][d] = "received" =>
              taken[c][d] - n \in 1..Chunk /\ buffer[c][d] = << >>
        /\ pc[c][d] = "writing" =>
              /\ taken[c][d] - n \in 1..Chunk
              /\ buffer[c][d] = Following(n, taken[c][d] - n)

\* A connection that was never started has no handler and is not active, and
\* one that a handler has stopped is not active any more.
Life(c) ==
    /\ ~Started(c) => ~m_active[c] /\ \A h \in Handlers : pc[c][h] = "idle"
    /\ \A h \in Handlers : pc[c][h] \in {"counting", "removing"} => ~m_active[c]

PumpInv == \A c \in Connections, d \in Directions : Pump(c, d)
LifeInv == \A c \in Connections : Life(c)

\* The connect is no pump; the pumps are handlers.
LEMMA HandlersDistinct ==
    /\ "connect" \in Handlers
    /\ "connect" \notin Directions
    /\ Directions \subseteq Handlers
BY DEF Handlers, Directions

\* Every step keeps the lives of the connections as they should be.
LEMMA LifeStep ==
    ASSUME TypeOK, LifeInv, [Next]_vars
    PROVE  LifeInv'
<1> USE HandlersDistinct DEF LifeInv, Life, Started, TypeOK
<1>1. ASSUME NEW s \in Sessions, NEW c \in Connections, StartProxy(s, c)
      PROVE  LifeInv'
  BY <1>1 DEF StartProxy, Goto
<1>2. ASSUME NEW s \in Sessions, NEW c \in Connections, StartProxyBadAddress(s, c)
      PROVE  LifeInv'
  BY <1>2 DEF StartProxyBadAddress
<1>3. ASSUME NEW s \in Sessions, StopProxyActive(s)
      PROVE  LifeInv'
  BY <1>3 DEF StopProxyActive
<1>4. ASSUME NEW s \in Sessions, StopProxyInactive(s)
      PROVE  LifeInv'
  BY <1>4 DEF StopProxyInactive
<1>5. CASE CleanupInactiveProxies
  BY <1>5 DEF CleanupInactiveProxies
<1>6. ASSUME NEW c \in Connections, HandleTargetConnect(c)
      PROVE  LifeInv'
  BY <1>6 DEF HandleTargetConnect
<1>7. ASSUME NEW c \in Connections, NEW d \in Directions, NEW n \in 1..Chunk,
             HandleRead(c, d, n)
      PROVE  LifeInv'
  BY <1>7 DEF HandleRead, Goto
<1>8. ASSUME NEW c \in Connections, NEW d \in Directions, CommitRead(c, d)
      PROVE  LifeInv'
  BY <1>8 DEF CommitRead, Goto
<1>9. ASSUME NEW c \in Connections, NEW d \in Directions, HandleWrite(c, d)
      PROVE  LifeInv'
  BY <1>9 DEF HandleWrite, Goto
<1>10. ASSUME NEW c \in Connections, NEW h \in Handlers, HandleError(c, h)
       PROVE  LifeInv'
  BY <1>10 DEF HandleError, Goto, InFlight
<1>11. ASSUME NEW c \in Connections, NEW h \in Handlers, StopBegin(c, h)
       PROVE  LifeInv'
  BY <1>11 DEF StopBegin, Goto
<1>12. ASSUME NEW c \in Connections, NEW h \in Handlers, UpdateStatistics(c, h)
       PROVE  LifeInv'
  BY <1>12 DEF UpdateStatistics, Goto
<1>13. ASSUME NEW c \in Connections, NEW h \in Handlers, RemoveProxy(c, h)
       PROVE  LifeInv'
  BY <1>13 DEF RemoveProxy, Goto
<1>14. CASE UNCHANGED vars
  BY <1>14 DEF vars
<1> QED
  BY <1>1, <1>2, <1>3, <1>4, <1>5, <1>6, <1>7, <1>8, <1>9, <1>10, <1>11, <1>12, <1>13,
     <1>14 DEF Next, Running, Completes

\* The units of a read are a sequence of that length.
LEMMA FollowingTyped ==
    ASSUME NEW n \in Nat, NEW k \in Nat
    PROVE  /\ Following(n, k) \in Seq(Nat)
           /\ Len(Following(n, k)) = k
BY DEF Following

\* What is written of a buffer, all of it or a part, is appended.
LEMMA Appended ==
    ASSUME NEW s \in Seq(Nat), NEW t \in Seq(Nat)
    PROVE  /\ s \o t \in Seq(Nat)
           /\ Len(s \o t) = Len(s) + Len(t)
OBVIOUS

\* Writing nothing of a buffer appends nothing.
LEMMA NoPart ==
    ASSUME NEW s \in Seq(Nat)
    PROVE  SubSeq(s, 1, 0) = << >>
OBVIOUS

\* What a failed write delivers is shorter than its buffer.
LEMMA Part ==
    ASSUME NEW s \in Seq(Nat), NEW k \in 0..(Len(s) - 1)
    PROVE  /\ SubSeq(s, 1, k) \in Seq(Nat)
           /\ k \in Nat
           /\ k < Len(s)
           /\ Len(SubSeq(s, 1, k)) = k
OBVIOUS

\* Every step gives every variable a value of its type.
LEMMA TypeStep ==
    ASSUME TypeOK, LifeInv, PumpInv, [Next]_vars
    PROVE  TypeOK'
<1> USE HandlersDistinct DEF LifeInv, Life, Started, TypeOK, Steps
<1>1. ASSUME NEW s \in Sessions, NEW c \in Connections, StartProxy(s, c)
      PROVE  TypeOK'
  BY <1>1 DEF StartProxy, Goto, InFlight, dataVars
<1>2. ASSUME NEW s \in Sessions, NEW c \in Connections, StartProxyBadAddress(s, c)
      PROVE  TypeOK'
  BY <1>2 DEF StartProxyBadAddress, dataVars
<1>3. ASSUME NEW s \in Sessions, StopProxyActive(s)
      PROVE  TypeOK'
  BY <1>3 DEF StopProxyActive, dataVars
<1>4. ASSUME NEW s \in Sessions, StopProxyInactive(s)
      PROVE  TypeOK'
  BY <1>4 DEF StopProxyInactive, dataVars
<1>5. CASE CleanupInactiveProxies
  BY <1>5 DEF CleanupInactiveProxies, dataVars
<1>6. ASSUME NEW c \in Connections, HandleTargetConnect(c)
      PROVE  TypeOK'
  BY <1>6 DEF HandleTargetConnect, InFlight, managerVars, dataVars
<1>7. ASSUME NEW c \in Connections, NEW d \in Directions, NEW n \in 1..Chunk,
             HandleRead(c, d, n)
      PROVE  TypeOK'
  <2>1. n \in Nat /\ taken[c][d] + n \in Nat
    OBVIOUS
  <2>2. /\ taken' = [taken EXCEPT ![c][d] = @ + n]
        /\ loaded' = [loaded EXCEPT ![c][d] = m_bytes_received[c]]
        /\ Goto(c, d, "received")
        /\ pc[c][d] = "reading"
        /\ UNCHANGED <<managerVars, m_bytes_sent, m_bytes_received, buffer, delivered,
                       m_session_id, m_active>>
    BY <1>7 DEF HandleRead
  <2>3. taken' \in [Connections -> [Directions -> Nat]]
    BY <2>1, <2>2
  <2>4. loaded' \in [Connections -> [Directions -> Nat]]
    BY <2>2
  <2> QED
    BY <2>2, <2>3, <2>4 DEF Goto, InFlight, managerVars
<1>8. ASSUME NEW c \in Connections, NEW d \in Directions, CommitRead(c, d)
      PROVE  TypeOK'
  <2> DEFINE n == Len(delivered[c][d])
             units == Following(n, taken[c][d] - n)
  <2>1. n \in Nat /\ taken[c][d] - n \in Nat
    <3>1. Pump(c, d)
      BY DEF PumpInv
    <3>2. delivered[c][d] \in Seq(Nat) /\ taken[c][d] \in Nat
      OBVIOUS
    <3> QED
      BY <3>1, <3>2 DEF Pump
  <2>2. units \in Seq(Nat) /\ Len(units) \in Nat
    BY <2>1, FollowingTyped
  <2>3. buffer[c][d] \o units \in Seq(Nat)
    BY <2>2
  <2>4. /\ buffer' = [buffer EXCEPT ![c][d] = @ \o units]
        /\ m_bytes_received' = [m_bytes_received EXCEPT ![c] = loaded[c][d] + Len(units)]
        /\ loaded' = [loaded EXCEPT ![c][d] = 0]
        /\ Goto(c, d, IF m_active[c] THEN "writing" ELSE "idle")
        /\ pc[c][d] = "received"
        /\ UNCHANGED <<managerVars, m_bytes_sent, taken, delivered, m_session_id, m_active>>
    BY <1>8 DEF CommitRead, Following
  <2> HIDE DEF units
  <2>5. buffer' \in [Connections -> [Directions -> Seq(Nat)]]
    BY <2>3, <2>4
  <2>6. /\ m_bytes_received' \in [Connections -> Nat]
        /\ loaded' \in [Connections -> [Directions -> Nat]]
    BY <2>2, <2>4
  <2> QED
    BY <2>4, <2>5, <2>6 DEF Goto, InFlight, managerVars
<1>9. ASSUME NEW c \in Connections, NEW d \in Directions, HandleWrite(c, d)
      PROVE  TypeOK'
  <2>1. delivered[c][d] \o buffer[c][d] \in Seq(Nat) /\ Len(buffer[c][d]) \in Nat
    OBVIOUS
  <2>2. delivered' \in [Connections -> [Directions -> Seq(Nat)]]
    BY <1>9, <2>1 DEF HandleWrite
  <2>3. buffer' \in [Connections -> [Directions -> Seq(Nat)]]
    BY <1>9 DEF HandleWrite
  <2>4. m_bytes_sent' \in [Connections -> Nat]
    BY <1>9, <2>1 DEF HandleWrite
  <2> QED
    BY <1>9, <2>2, <2>3, <2>4 DEF HandleWrite, Goto, InFlight, managerVars
<1>10. ASSUME NEW c \in Connections, NEW h \in Handlers, HandleError(c, h)
       PROVE  TypeOK'
  <2>1. delivered' \in [Connections -> [Directions -> Seq(Nat)]]
    <3>1. CASE pc[c][h] = "writing"
      <4>1. h \in Directions
        BY <3>1 DEF Handlers
      <4>2. PICK k \in 0..(Len(buffer[c][h]) - 1) :
               delivered' = [delivered EXCEPT ![c][h] = @ \o SubSeq(buffer[c][h], 1, k)]
        BY <1>10, <3>1 DEF HandleError
      <4>3. SubSeq(buffer[c][h], 1, k) \in Seq(Nat)
        BY <4>1
      <4>4. delivered[c][h] \o SubSeq(buffer[c][h], 1, k) \in Seq(Nat)
        BY <4>1, <4>3
      <4> QED
        BY <4>1, <4>2, <4>4
    <3>2. CASE pc[c][h] # "writing"
      BY <1>10, <3>2 DEF HandleError
    <3> QED
      BY <3>1, <3>2
  <2> QED
    BY <1>10, <2>1 DEF HandleError, Goto, InFlight, managerVars
<1>11. ASSUME NEW c \in Connections, NEW h \in Handlers, StopBegin(c, h)
       PROVE  TypeOK'
  BY <1>11 DEF StopBegin, Goto, InFlight, managerVars, dataVars
<1>12. ASSUME NEW c \in Connections, NEW h \in Handlers, UpdateStatistics(c, h)
       PROVE  TypeOK'
  BY <1>12 DEF UpdateStatistics, Goto, InFlight, dataVars
<1>13. ASSUME NEW c \in Connections, NEW h \in Handlers, RemoveProxy(c, h)
       PROVE  TypeOK'
  BY <1>13 DEF RemoveProxy, Goto, InFlight, dataVars
<1>14. CASE UNCHANGED vars
  BY <1>14 DEF vars, managerVars, dataVars
<1> QED
  BY <1>1, <1>2, <1>3, <1>4, <1>5, <1>6, <1>7, <1>8, <1>9, <1>10, <1>11, <1>12, <1>13,
     <1>14 DEF Next, Running, Completes

\* What a writing pump has read and not written is what its buffer holds.
LEMMA WritingBuffer ==
    ASSUME TypeOK, NEW c \in Connections, NEW d \in Directions, Pump(c, d),
           pc[c][d] = "writing"
    PROVE  /\ buffer[c][d] \in Seq(Nat) /\ delivered[c][d] \in Seq(Nat)
           /\ taken[c][d] \in Nat
           /\ Len(buffer[c][d]) = taken[c][d] - Len(delivered[c][d])
           /\ Len(delivered[c][d] \o buffer[c][d]) = taken[c][d]
           /\ Len(buffer[c][d]) \in 1..Chunk
           /\ buffer[c][d] = Following(Len(delivered[c][d]), Len(buffer[c][d]))
<1> DEFINE n == Len(delivered[c][d])
           k == taken[c][d] - n
<1>1. /\ buffer[c][d] \in Seq(Nat) /\ delivered[c][d] \in Seq(Nat)
      /\ taken[c][d] \in Nat
  BY DEF TypeOK
<1>2. k \in 1..Chunk /\ buffer[c][d] = Following(n, k)
  BY DEF Pump
<1>3. n \in Nat /\ k \in Nat /\ n + k = taken[c][d]
  BY <1>1, <1>2
<1>4. Len(delivered[c][d]) = n /\ taken[c][d] - Len(delivered[c][d]) = k
  OBVIOUS
<1> HIDE DEF n, k
<1>5. Len(buffer[c][d]) = k
  BY <1>2, <1>3, FollowingTyped
<1>6. Len(delivered[c][d] \o buffer[c][d]) = n + k
  BY <1>1, <1>4, <1>5, Appended
<1> QED
  BY <1>1, <1>2, <1>3, <1>4, <1>5, <1>6

\* A pump that a step leaves alone, or ends, stays as it should be.
LEMMA PumpFrame ==
    ASSUME TypeOK, NEW c \in Connections, NEW d \in Directions, Pump(c, d),
           UNCHANGED <<taken[c][d], delivered[c][d], buffer[c][d]>>,
           m_session_id[c] # NoProxy => m_session_id'[c] # NoProxy,
           pc'[c]["connect"] = "connecting" =>
               m_session_id[c] = NoProxy \/ pc[c]["connect"] = "connecting",
           \/ pc'[c][d] = pc[c][d]
           \/ pc'[c][d] \notin {"reading", "received", "writing"}
    PROVE  Pump(c, d)'
BY DEF Pump, Started

\* Every step keeps every pump as it should be.
LEMMA PumpStep ==
    ASSUME TypeOK, LifeInv, PumpInv, [Next]_vars
    PROVE  PumpInv'
<1> SUFFICES ASSUME NEW e \in Connections, NEW b \in Directions
             PROVE  Pump(e, b)'
  BY DEF PumpInv
<1>0. Pump(e, b) /\ Life(e)
  BY DEF PumpInv, LifeInv
<1> USE HandlersDistinct DEF TypeOK
<1>1. ASSUME NEW s \in Sessions, NEW c \in Connections, StartProxy(s, c)
      PROVE  Pump(e, b)'
  BY <1>1, <1>0, PumpFrame DEF StartProxy, Goto, dataVars, Life, Started
<1>2. ASSUME NEW s \in Sessions, NEW c \in Connections, StartProxyBadAddress(s, c)
      PROVE  Pump(e, b)'
  BY <1>2, <1>0, PumpFrame DEF StartProxyBadAddress, dataVars
<1>3. ASSUME NEW s \in Sessions, StopProxyActive(s)
      PROVE  Pump(e, b)'
  BY <1>3, <1>0, PumpFrame DEF StopProxyActive, dataVars
<1>4. ASSUME NEW s \in Sessions, StopProxyInactive(s)
      PROVE  Pump(e, b)'
  BY <1>4, <1>0, PumpFrame DEF StopProxyInactive, dataVars
<1>5. CASE CleanupInactiveProxies
  BY <1>5, <1>0, PumpFrame DEF CleanupInactiveProxies, dataVars
<1>6. ASSUME NEW c \in Connections, HandleTargetConnect(c)
      PROVE  Pump(e, b)'
  BY <1>0, <1>6 DEF HandleTargetConnect, dataVars, Pump, Started
<1>7. ASSUME NEW c \in Connections, NEW d \in Directions, NEW n \in 1..Chunk,
             HandleRead(c, d, n)
      PROVE  Pump(e, b)'
  <2>1. /\ pc[c][d] = "reading"
        /\ taken' = [taken EXCEPT ![c][d] = @ + n]
        /\ pc' = [pc EXCEPT ![c][d] = "received"]
        /\ UNCHANGED <<buffer, delivered, m_session_id>>
    BY <1>7 DEF HandleRead, Goto
  <2>0. Pump(c, d) /\ Started(c)
    BY <2>1 DEF PumpInv, LifeInv, Life
  <2>2. CASE e = c /\ b = d
    <3>1. delivered[c][d] \in Seq(Nat) /\ Len(delivered[c][d]) = taken[c][d]
             /\ buffer[c][d] = << >>
      BY <2>0, <2>1 DEF Pump
    <3>2. taken'[c][d] = taken[c][d] + n /\ pc'[c][d] = "received"
             /\ pc'[c]["connect"] = "idle"
      BY <2>1
    <3>3. Started(c)'
      BY <2>0, <2>1 DEF Started
    <3> QED
      BY <2>1, <2>2, <3>1, <3>2, <3>3 DEF Pump
  <2>3. CASE e # c \/ b # d
    BY <2>1, <2>3, <1>0, PumpFrame DEF Started
  <2> QED
    BY <2>2, <2>3
<1>8. ASSUME NEW c \in Connections, NEW d \in Directions, CommitRead(c, d)
      PROVE  Pump(e, b)'
  <2> DEFINE n == Len(delivered[c][d])
             k == taken[c][d] - n
             units == Following(n, k)
  <2>1. /\ pc[c][d] = "received"
        /\ buffer' = [buffer EXCEPT ![c][d] = @ \o units]
        /\ pc' = [pc EXCEPT ![c][d] = IF m_active[c] THEN "writing" ELSE "idle"]
        /\ UNCHANGED <<taken, delivered, m_session_id>>
    BY <1>8 DEF CommitRead, Goto, Following
  <2>0. Pump(c, d) /\ Started(c)
    BY <2>1 DEF PumpInv, LifeInv, Life
  <2>2. n \in Nat /\ k \in 1..Chunk /\ buffer[c][d] = << >>
    BY <2>0, <2>1 DEF Pump
  <2>3. CASE e = c /\ b = d
    <3>1. buffer'[c][d] = units
      <4>1. units \in Seq(Nat)
        BY <2>2, FollowingTyped
      <4> HIDE DEF units
      <4> QED
        BY <2>1, <2>2, <4>1
    <3>2. pc'[c][d] \in {"writing", "idle"} /\ pc'[c]["connect"] = "idle"
      BY <2>1
    <3>3. Started(c)'
      BY <2>0, <2>1 DEF Started
    <3> QED
      BY <2>1, <2>2, <2>3, <3>1, <3>2, <3>3 DEF Pump
  <2>4. CASE e # c \/ b # d
    <3> HIDE DEF units
    <3> QED
      BY <2>1, <2>4, <1>0, PumpFrame DEF Started
  <2> QED
    BY <2>3, <2>4
<1>9. ASSUME NEW c \in Connections, NEW d \in Directions, HandleWrite(c, d)
      PROVE  Pump(e, b)'
  <2>1. /\ pc[c][d] = "writing"
        /\ delivered' = [delivered EXCEPT ![c][d] = @ \o buffer[c][d]]
        /\ buffer' = [buffer EXCEPT ![c][d] = << >>]
        /\ pc' = [pc EXCEPT ![c][d] = IF m_active[c] THEN "reading" ELSE "idle"]
        /\ UNCHANGED <<taken, m_session_id>>
    BY <1>9 DEF HandleWrite, Goto
  <2>0. Pump(c, d) /\ Started(c)
    BY <2>1 DEF PumpInv, LifeInv, Life
  <2>2. Len(delivered[c][d] \o buffer[c][d]) = taken[c][d]
    BY <2>0, <2>1, WritingBuffer
  <2>3. CASE e = c /\ b = d
    <3>1. delivered'[c][d] = delivered[c][d] \o buffer[c][d] /\ buffer'[c][d] = << >>
      BY <2>1
    <3>2. pc'[c][d] \in {"reading", "idle"} /\ pc'[c]["connect"] = "idle"
      BY <2>1
    <3>3. Started(c)'
      BY <2>0, <2>1 DEF Started
    <3>4. Len(delivered'[c][d]) = taken'[c][d] /\ taken'[c][d] \in Nat
      <4>1. taken'[c][d] = taken[c][d] /\ taken[c][d] \in Nat
        BY <2>1
      <4> QED
        BY <2>2, <3>1, <4>1
    <3> QED
      BY <2>3, <3>1, <3>2, <3>3, <3>4 DEF Pump
  <2>4. CASE e # c \/ b # d
    BY <2>1, <2>4, <1>0, PumpFrame DEF Started
  <2> QED
    BY <2>3, <2>4
<1>10. ASSUME NEW c \in Connections, NEW h \in Handlers, HandleError(c, h)
       PROVE  Pump(e, b)'
  <2>1. /\ pc[c][h] \in InFlight
        /\ pc' = [pc EXCEPT ![c][h] = IF m_active[c] THEN "failing" ELSE "idle"]
        /\ UNCHANGED <<taken, buffer, m_session_id>>
    BY <1>10 DEF HandleError, Goto
  <2>2. CASE e # c \/ b # h
    <3>1. delivered'[e][b] = delivered[e][b]
      <4>1. CASE pc[c][h] = "writing"
        <5>1. h \in Directions
          BY <4>1 DEF Handlers
        <5>2. PICK k \in 0..(Len(buffer[c][h]) - 1) :
                 delivered' = [delivered EXCEPT ![c][h] = @ \o SubSeq(buffer[c][h], 1, k)]
          BY <1>10, <4>1 DEF HandleError
        <5> QED
          BY <2>2, <5>1, <5>2
      <4>2. CASE pc[c][h] # "writing"
        BY <1>10, <4>2 DEF HandleError
      <4> QED
        BY <4>1, <4>2
    <3> QED
      BY <2>1, <2>2, <3>1, <1>0, PumpFrame DEF Started
  <2>4. CASE e = c /\ b = h
    <3>1. pc'[c][h] \in {"failing", "idle"} /\ pc'[c]["connect"] = "idle" /\ Started(c)'
      <4>1. Started(c)
        BY <2>1, <2>4, <1>0 DEF Life, InFlight
      <4> QED
        BY <2>1, <2>4, <4>1 DEF Started, InFlight
    <3>2. CASE pc[c][h] # "writing"
      <4>1. UNCHANGED delivered
        BY <1>10, <3>2 DEF HandleError
      <4> QED
        BY <2>1, <2>4, <3>1, <4>1, <1>0, PumpFrame DEF Started
    <3>3. CASE pc[c][h] = "writing"
      <4>1. PICK k \in 0..(Len(buffer[c][h]) - 1) :
               delivered' = [delivered EXCEPT ![c][h] = @ \o SubSeq(buffer[c][h], 1, k)]
        BY <1>10, <3>3 DEF HandleError
      <4>2. Len(buffer[c][h]) = taken[c][h] - Len(delivered[c][h])
        BY <1>0, <2>4, <3>3, WritingBuffer
      <4>3. buffer[c][h] \in Seq(Nat) /\ delivered[c][h] \in Seq(Nat)
        BY <2>4
      <4>4. /\ k \in Nat /\ k < Len(buffer[c][h])
            /\ Len(SubSeq(buffer[c][h], 1, k)) = k
            /\ SubSeq(buffer[c][h], 1, k) \in Seq(Nat)
        BY <4>3, Part
      <4>5. Len(delivered'[c][h]) = Len(delivered[c][h]) + k
        <5>1. delivered'[c][h] = delivered[c][h] \o SubSeq(buffer[c][h], 1, k)
          BY <2>4, <4>1
        <5> QED
          BY <4>3, <4>4, <5>1, Appended
      <4>6. Len(delivered'[c][h]) <= taken'[c][h]
        BY <2>1, <2>4, <4>2, <4>3, <4>4, <4>5
      <4> QED
        BY <2>4, <3>1, <4>6 DEF Pump
    <3> QED
      BY <3>2, <3>3
  <2> QED
    BY <2>2, <2>4
<1>11. ASSUME NEW c \in Connections, NEW h \in Handlers, StopBegin(c, h)
       PROVE  Pump(e, b)'
  BY <1>11, <1>0, PumpFrame DEF StopBegin, Goto, dataVars
<1>12. ASSUME NEW c \in Connections, NEW h \in Handlers, UpdateStatistics(c, h)
       PROVE  Pump(e, b)'
  BY <1>12, <1>0, PumpFrame DEF UpdateStatistics, Goto, dataVars
<1>13. ASSUME NEW c \in Connections, NEW h \in Handlers, RemoveProxy(c, h)
       PROVE  Pump(e, b)'
  BY <1>13, <1>0, PumpFrame DEF RemoveProxy, Goto, dataVars
<1>14. CASE UNCHANGED vars
  BY <1>0, <1>14, PumpFrame DEF vars, dataVars
<1> QED
  BY <1>1, <1>2, <1>3, <1>4, <1>5, <1>6, <1>7, <1>8, <1>9, <1>10, <1>11, <1>12, <1>13,
     <1>14 DEF Next, Running, Completes

IInv == TypeOK /\ LifeInv /\ PumpInv

\* Nothing is connected at first.
LEMMA InitIInv == Init => IInv
<1> SUFFICES ASSUME Init PROVE IInv
  OBVIOUS
<1> USE HandlersDistinct DEF Init
<1>1. TypeOK
  BY DEF TypeOK, Steps
<1>2. LifeInv
  BY DEF LifeInv, Life
<1>3. PumpInv
  BY DEF PumpInv, Pump
<1> QED
  BY <1>1, <1>2, <1>3 DEF IInv

\* Types, the lives of the connections and the state of the pumps are kept by
\* every step.
LEMMA IInvHolds == Spec => []IInv
<1>1. IInv /\ [Next]_vars => IInv'
  BY TypeStep, LifeStep, PumpStep DEF IInv
<1> QED
  BY <1>1, InitIInv, PTL DEF Spec

\* The state of the manager, the connections and the handlers is well typed,
\* whatever the number of sessions and connections.
THEOREM TypeCorrect == Spec => []TypeOK
BY IInvHolds, PTL DEF IInv

-----------------------------------------------------------------------------
(* Each direction is a relay.                                              *)

\* Writing the first k units of the buffer delivers those that are next.
LEMMA WrittenIsDelivered ==
    ASSUME TypeOK, NEW e \in Connections, NEW b \in Directions, Pump(e, b),
           pc[e][b] = "writing", NEW k \in 0..Len(buffer[e][b]),
           delivered'[e][b] = delivered[e][b] \o SubSeq(buffer[e][b], 1, k),
           taken'[e][b] = taken[e][b]
    PROVE  Channel(e, b)!Next \/ UNCHANGED <<taken[e][b], delivered[e][b]>>
<1> DEFINE n == Len(delivered[e][b])
           m == Len(buffer[e][b])
<1>1. /\ delivered[e][b] \in Seq(Nat) /\ buffer[e][b] \in Seq(Nat)
      /\ taken[e][b] \in Nat /\ m = taken[e][b] - n /\ m \in 1..Chunk
      /\ buffer[e][b] = Following(n, m)
  BY WritingBuffer
<1>2. n \in Nat /\ m \in Nat /\ k \in Nat /\ k <= m
  BY <1>1
<1>3. SubSeq(buffer[e][b], 1, k) = [i \in 1..k |-> n + i]
  <2> HIDE DEF n, m
  <2> QED
    BY <1>1, <1>2 DEF Following
<1>4. CASE k = 0
  <2>1. SubSeq(buffer[e][b], 1, k) = << >>
    BY <1>1, <1>4, NoPart
  <2>2. delivered[e][b] \o << >> = delivered[e][b]
    BY <1>1
  <2> QED
    BY <2>1, <2>2
<1>5. CASE k # 0
  <2>1. n + k <= taken[e][b]
    BY <1>1, <1>2
  <2>2. Channel(e, b)!Deliver(k)
    BY <1>3, <2>1 DEF Channel!Deliver
  <2>3. k \in 1..Chunk
    BY <1>1, <1>2, <1>5
  <2> QED
    BY <2>2, <2>3 DEF Channel!Next
<1> QED
  BY <1>4, <1>5

\* A step of one pump, of the other, of another connection or of the manager
\* takes or delivers as a relay does, in each direction, or does neither.
LEMMA RelayStep ==
    ASSUME IInv, [Next]_vars, NEW e \in Connections, NEW b \in Directions
    PROVE  Channel(e, b)!Next \/ UNCHANGED <<taken[e][b], delivered[e][b]>>
<1> USE HandlersDistinct DEF IInv
<1>0. Pump(e, b)
  BY DEF PumpInv
<1>1. CASE UNCHANGED <<taken, delivered>>
  BY <1>1
<1>2. ASSUME NEW c \in Connections, NEW d \in Directions, NEW n \in 1..Chunk,
             HandleRead(c, d, n)
      PROVE  Channel(e, b)!Next \/ UNCHANGED <<taken[e][b], delivered[e][b]>>
  <2>1. CASE e = c /\ b = d
    <3>1. Channel(e, b)!Take(n)
      BY <1>0, <1>2, <2>1 DEF HandleRead, Pump, Channel!Take, TypeOK
    <3> QED
      BY <3>1 DEF Channel!Next
  <2>2. CASE e # c \/ b # d
    BY <1>2, <2>2 DEF HandleRead, TypeOK
  <2> QED
    BY <2>1, <2>2
<1>3. ASSUME NEW c \in Connections, NEW d \in Directions, HandleWrite(c, d)
      PROVE  Channel(e, b)!Next \/ UNCHANGED <<taken[e][b], delivered[e][b]>>
  <2>1. CASE e = c /\ b = d
    <3> DEFINE k == Len(buffer[e][b])
    <3>1. /\ pc[e][b] = "writing"
          /\ delivered' = [delivered EXCEPT ![e][b] = @ \o buffer[e][b]]
          /\ taken' = taken
      BY <1>3, <2>1 DEF HandleWrite
    <3>2. buffer[e][b] \in Seq(Nat)
      BY DEF TypeOK
    <3>4. delivered'[e][b] = delivered[e][b] \o buffer[e][b]
      BY <3>1 DEF TypeOK
    <3>3. k \in 0..Len(buffer[e][b]) /\ SubSeq(buffer[e][b], 1, k) = buffer[e][b]
      BY <3>2
    <3> QED
      BY <1>0, <3>1, <3>3, <3>4, WrittenIsDelivered
  <2>2. CASE e # c \/ b # d
    BY <1>3, <2>2 DEF HandleWrite, TypeOK
  <2> QED
    BY <2>1, <2>2
<1>4. ASSUME NEW c \in Connections, NEW h \in Handlers, HandleError(c, h)
      PROVE  Channel(e, b)!Next \/ UNCHANGED <<taken[e][b], delivered[e][b]>>
  <2>1. CASE pc[c][h] # "writing"
    BY <1>1, <1>4, <2>1 DEF HandleError
  <2>2. CASE pc[c][h] = "writing"
    <3>1. h \in Directions
      BY <2>2 DEF Handlers, TypeOK
    <3>2. PICK k \in 0..(Len(buffer[c][h]) - 1) :
             delivered' = [delivered EXCEPT ![c][h] = @ \o SubSeq(buffer[c][h], 1, k)]
      BY <1>4, <2>2 DEF HandleError
    <3>3. UNCHANGED taken
      BY <1>4 DEF HandleError
    <3>4. CASE e = c /\ b = h
      <4>1. delivered'[e][b] = delivered[e][b] \o SubSeq(buffer[e][b], 1, k)
        BY <3>2, <3>4 DEF TypeOK
      <4>2. k \in 0..Len(buffer[e][b])
        BY <3>4 DEF TypeOK
      <4> QED
        BY <1>0, <2>2, <3>3, <3>4, <4>1, <4>2, WrittenIsDelivered
    <3>5. CASE e # c \/ b # h
      BY <3>1, <3>2, <3>3, <3>5 DEF TypeOK
    <3> QED
      BY <3>4, <3>5
  <2> QED
    BY <2>1, <2>2
<1> QED
  BY <1>1, <1>2, <1>3, <1>4
     DEF Next, Running, Completes, StartProxy, StartProxyBadAddress, StopProxyActive,
         StopProxyInactive, CleanupInactiveProxies, HandleTargetConnect, CommitRead,
         StopBegin, UpdateStatistics, RemoveProxy, dataVars, vars

\* For any traffic and any size of a read, each direction of each connection
\* is a relay: every step of the proxies is a step of it or leaves it alone.
THEOREM RelayHolds == Spec => RelayInOrder
<1>1. Init => \A c \in Connections, d \in Directions : Channel(c, d)!Init
  BY DEF Init, Channel!Init
<1>2. IInv /\ [Next]_vars =>
        [\A c \in Connections, d \in Directions :
             Channel(c, d)!Next \/ UNCHANGED <<taken[c][d], delivered[c][d]>>]_vars
  BY RelayStep
<1> QED
  BY <1>1, <1>2, IInvHolds, PTL DEF Spec, RelayInOrder

-----------------------------------------------------------------------------
(* Active connections.                                                     *)

\* A step that maps, or unmaps, a connection leaves the active ones mapped.
LEMMA MappedStep ==
    ASSUME IInv, ActiveIsMapped, [Next]_vars
    PROVE  ActiveIsMapped'
<1> USE HandlersDistinct DEF IInv, TypeOK, LifeInv, Life, Started, ActiveIsMapped
<1>1. ASSUME NEW s \in Sessions, NEW c \in Connections, StartProxy(s, c)
      PROVE  ActiveIsMapped'
  BY <1>1 DEF StartProxy
<1>2. ASSUME NEW s \in Sessions, NEW c \in Connections, StartProxyBadAddress(s, c)
      PROVE  ActiveIsMapped'
  BY <1>2 DEF StartProxyBadAddress
<1>3. ASSUME NEW s \in Sessions, StopProxyActive(s)
      PROVE  ActiveIsMapped'
  BY <1>3 DEF StopProxyActive
<1>4. ASSUME NEW s \in Sessions, StopProxyInactive(s)
      PROVE  ActiveIsMapped'
  BY <1>4 DEF StopProxyInactive
<1>5. CASE CleanupInactiveProxies
  BY <1>5 DEF CleanupInactiveProxies
<1>6. ASSUME NEW c \in Connections, NEW h \in Handlers, StopBegin(c, h)
      PROVE  ActiveIsMapped'
  BY <1>6 DEF StopBegin, managerVars
<1>7. ASSUME NEW c \in Connections, NEW h \in Handlers, RemoveProxy(c, h)
      PROVE  ActiveIsMapped'
  BY <1>7 DEF RemoveProxy
<1>8. CASE UNCHANGED <<m_proxies, m_session_id, m_active, overtaken>>
  BY <1>8
<1>9. ASSUME NEW c \in Connections, NEW d \in Directions,
             \/ HandleTargetConnect(c)
             \/ \E n \in 1..Chunk : HandleRead(c, d, n)
             \/ CommitRead(c, d)
             \/ HandleWrite(c, d)
      PROVE  ActiveIsMapped'
  BY <1>8, <1>9 DEF HandleTargetConnect, HandleRead, CommitRead, HandleWrite, managerVars
<1>10. ASSUME NEW c \in Connections, NEW h \in Handlers,
              HandleError(c, h) \/ UpdateStatistics(c, h)
       PROVE  ActiveIsMapped'
  BY <1>8, <1>10 DEF HandleError, UpdateStatistics, managerVars
<1> HIDE HandlersDistinct DEF IInv, TypeOK, LifeInv, Life, Started, ActiveIsMapped
<1> QED
  BY <1>1, <1>2, <1>3, <1>4, <1>5, <1>6, <1>7, <1>8, <1>9, <1>10
     DEF Next, Running, Completes, Directions, managerVars, vars

\* An active connection is the entry of its session, or the entry was taken
\* away by the late removal of an older one.
THEOREM ActiveIsMappedHolds == Spec => []ActiveIsMapped
<1>1. Init => ActiveIsMapped
  BY DEF Init, ActiveIsMapped
<1>2. IInv /\ ActiveIsMapped /\ [Next]_vars => ActiveIsMapped'
  BY MappedStep
<1> QED
  BY <1>1, <1>2, IInvHolds, PTL DEF Spec

\* What ActiveIsServed says of one connection.
Served(c) ==
    m_active[c] => \/ pc[c]["connect"] = "connecting"
                   \/ \E h \in Handlers : pc[c][h] = "failing"
                   \/ \A d \in Directions : pc[c][d] \in {"reading", "received", "writing"}

\* A handler that ends leaves an active connection to the other pump.
LEMMA ServedStep ==
    ASSUME IInv, ActiveIsServed, [Next]_vars
    PROVE  ActiveIsServed'
<1> SUFFICES ASSUME NEW e \in Connections
             PROVE  Served(e)'
  BY DEF ActiveIsServed, Served
<1>0. Served(e)
  BY DEF ActiveIsServed, Served
<1> USE HandlersDistinct DEF IInv, TypeOK, Served
<1>1. ASSUME NEW s \in Sessions, NEW c \in Connections, StartProxy(s, c)
      PROVE  Served(e)'
  BY <1>0, <1>1 DEF StartProxy, Goto, LifeInv, Life, Started
<1>2. ASSUME NEW s \in Sessions, StopProxyActive(s)
      PROVE  Served(e)'
  BY <1>0, <1>2 DEF StopProxyActive
<1>3. ASSUME NEW c \in Connections, HandleTargetConnect(c)
      PROVE  Served(e)'
  BY <1>0, <1>3 DEF HandleTargetConnect
<1>4. ASSUME NEW c \in Connections, NEW d \in Directions, NEW n \in 1..Chunk,
             HandleRead(c, d, n)
      PROVE  Served(e)'
  BY <1>0, <1>4 DEF HandleRead, Goto
<1>5. ASSUME NEW c \in Connections, NEW d \in Directions, CommitRead(c, d)
      PROVE  Served(e)'
  BY <1>0, <1>5 DEF CommitRead, Goto
<1>6. ASSUME NEW c \in Connections, NEW d \in Directions, HandleWrite(c, d)
      PROVE  Served(e)'
  BY <1>0, <1>6 DEF HandleWrite, Goto
<1>7. ASSUME NEW c \in Connections, NEW h \in Handlers, HandleError(c, h)
      PROVE  Served(e)'
  BY <1>0, <1>7 DEF HandleError, Goto
<1>8. ASSUME NEW c \in Connections, NEW h \in Handlers, StopBegin(c, h)
      PROVE  Served(e)'
  BY <1>0, <1>8 DEF StopBegin, Goto
<1>9. ASSUME NEW c \in Connections, NEW h \in Handlers,
             UpdateStatistics(c, h) \/ RemoveProxy(c, h)
      PROVE  Served(e)'
  <2>1. ~m_active[c] /\ UNCHANGED m_active
    BY <1>9 DEF UpdateStatistics, RemoveProxy, LifeInv, Life
  <2>2. e # c => pc'[e] = pc[e]
    BY <1>9 DEF UpdateStatistics, RemoveProxy, Goto
  <2> QED
    BY <1>0, <2>1, <2>2
<1>10. CASE UNCHANGED <<m_active, pc>>
  BY <1>0, <1>10
<1> HIDE HandlersDistinct DEF IInv, TypeOK, Served
<1> QED
  BY <1>1, <1>2, <1>3, <1>4, <1>5, <1>6, <1>7, <1>8, <1>9, <1>10
     DEF Next, Running, Completes, StartProxyBadAddress, StopProxyInactive,
         CleanupInactiveProxies, vars

\* An active connection is connecting, has both pumps under way, or is about
\* to be stopped.
THEOREM ActiveIsServedHolds == Spec => []ActiveIsServed
<1>1. Init => ActiveIsServed
  BY DEF Init, ActiveIsServed
<1>2. IInv /\ ActiveIsServed /\ [Next]_vars => ActiveIsServed'
  BY ServedStep
<1> QED
  BY <1>1, <1>2, IInvHolds, PTL DEF Spec
-----------------------------------------------------------------------------
(* What is counted.                                                        *)

\* The units a pump has read and not yet added to m_bytes_received, and those
\* that both pumps can have added.
Pending(c, d) == IF pc[c][d] = "received" THEN taken[c][d] - Len(delivered[c][d]) ELSE 0
Committed(c) ==
    (taken[c]["client"] - Pending(c, "client")) + (taken[c]["target"] - Pending(c, "target"))

\* The plain counters never run ahead of what the pumps moved: an addition
\* that the other pump overwrites is lost, and none is made twice.
Bytes(c) ==
    /\ m_bytes_received[c] <= Committed(c)
    /\ \A d \in Directions : loaded[c][d] <= Committed(c)
    /\ m_bytes_sent[c] <= Len(delivered[c]["target"])

\* stop lets one handler through to update_statistics.
OneCounts(c) ==
    \A h, g \in Handlers : pc[c][h] = "counting" /\ pc[c][g] = "counting" => h = g

\* What a connection may have added to the total: nothing before it was counted.
Credit(c) ==
    IF \A h \in Handlers : pc[c][h] # "counting" THEN Counted(c) ELSE 0

BytesInv == \A c \in Connections : Bytes(c) /\ OneCounts(c)

\* The total is at most the sum of the credits.
TotalInv ==
    \E g \in [SUBSET Connections -> Nat] :
        /\ IsSum(g, [c \in Connections |-> Credit(c)], Connections)
        /\ m_total_bytes_transferred <= g[Connections]

\* A step lets at most one handler into update_statistics.
LEMMA OneCountsStep ==
    ASSUME IInv, NEW e \in Connections, OneCounts(e), [Next]_vars
    PROVE  OneCounts(e)'
<1>1. Life(e)
  BY DEF IInv, LifeInv
<1> USE HandlersDistinct DEF IInv, TypeOK, OneCounts
<1>2. CASE UNCHANGED pc
  BY <1>2
<1>3. ASSUME NEW c \in Connections, NEW h \in Handlers, NEW step, step # "counting",
             pc' = [pc EXCEPT ![c][h] = step]
      PROVE  OneCounts(e)'
  BY <1>3
<1>4. ASSUME NEW c \in Connections, NEW h \in Handlers, StopBegin(c, h)
      PROVE  OneCounts(e)'
  BY <1>1, <1>4 DEF StopBegin, Goto, Life
<1>5. ASSUME NEW c \in Connections, HandleTargetConnect(c)
      PROVE  OneCounts(e)'
  BY <1>5 DEF HandleTargetConnect
<1> HIDE HandlersDistinct DEF IInv, TypeOK, OneCounts
<1>6. ASSUME NEW s \in Sessions, NEW c \in Connections, StartProxy(s, c)
      PROVE  OneCounts(e)'
  BY <1>3, <1>6, HandlersDistinct DEF StartProxy, Goto
<1>7. ASSUME NEW c \in Connections, NEW d \in Directions,
             \/ \E n \in 1..Chunk : HandleRead(c, d, n)
             \/ CommitRead(c, d)
             \/ HandleWrite(c, d)
      PROVE  OneCounts(e)'
  <2>1. d \in Handlers
    BY HandlersDistinct
  <2>2. PICK step \in {"received", "writing", "reading", "idle"} :
           pc' = [pc EXCEPT ![c][d] = step]
    BY <1>7 DEF HandleRead, CommitRead, HandleWrite, Goto
  <2> QED
    BY <1>3, <2>1, <2>2
<1>8. ASSUME NEW c \in Connections, NEW h \in Handlers,
             HandleError(c, h) \/ UpdateStatistics(c, h) \/ RemoveProxy(c, h)
      PROVE  OneCounts(e)'
  <2>1. PICK step \in {"failing", "removing", "idle"} : pc' = [pc EXCEPT ![c][h] = step]
    BY <1>8 DEF HandleError, UpdateStatistics, RemoveProxy, Goto
  <2> QED
    BY <1>3, <2>1
<1> QED
  BY <1>2, <1>4, <1>5, <1>6, <1>7, <1>8
     DEF Next, Running, Completes, StartProxyBadAddress, StopProxyActive, StopProxyInactive,
         CleanupInactiveProxies, vars

\* Pending units are units that were taken.
LEMMA PendingTaken ==
    ASSUME IInv, NEW e \in Connections, NEW d \in Directions
    PROVE  /\ taken[e][d] \in Nat /\ Len(delivered[e][d]) \in Nat
           /\ Pending(e, d) \in Nat /\ Pending(e, d) <= taken[e][d]
           /\ pc[e][d] = "received" => Pending(e, d) = taken[e][d] - Len(delivered[e][d])
           /\ pc[e][d] # "received" => Pending(e, d) = 0
<1>1. Pump(e, d) /\ taken[e][d] \in Nat /\ delivered[e][d] \in Seq(Nat)
  BY DEF IInv, PumpInv, TypeOK
<1>2. Len(delivered[e][d]) \in Nat /\ Len(delivered[e][d]) <= taken[e][d]
  BY <1>1 DEF Pump
<1> QED
  BY <1>1, <1>2 DEF Pending

\* What the pumps can have added does not shrink when none takes a read back.
LEMMA CommittedFrame ==
    ASSUME IInv, NEW e \in Connections, taken'[e] = taken[e],
           \A d \in Directions : pc'[e][d] = "received" =>
               pc[e][d] = "received" /\ delivered'[e][d] = delivered[e][d]
    PROVE  Committed(e) <= Committed(e)' /\ Committed(e) \in Int /\ Committed(e)' \in Int
<1>1. \A d \in Directions : Pending(e, d)' \in Nat /\ Pending(e, d)' <= Pending(e, d)
  <2> SUFFICES ASSUME NEW d \in Directions
               PROVE  Pending(e, d)' \in Nat /\ Pending(e, d)' <= Pending(e, d)
    OBVIOUS
  <2>1. CASE pc'[e][d] = "received"
    BY <2>1, PendingTaken DEF Pending
  <2>2. CASE pc'[e][d] # "received"
    BY <2>2, PendingTaken DEF Pending
  <2> QED
    BY <2>1, <2>2
<1>2. \A d \in {"client", "target"} :
          /\ taken[e][d] \in Nat /\ Pending(e, d) \in Nat /\ Pending(e, d)' \in Nat
          /\ Pending(e, d)' <= Pending(e, d)
  BY <1>1, PendingTaken DEF Directions
<1> QED
  BY <1>2 DEF Committed

\* A connection whose counters a step leaves alone, and whose pumps it does
\* not take back, still has no more counted than moved.
LEMMA BytesFrame ==
    ASSUME IInv, NEW e \in Connections, Bytes(e),
           m_bytes_sent'[e] = m_bytes_sent[e],
           m_bytes_received'[e] = m_bytes_received[e],
           loaded'[e] = loaded[e], taken'[e] = taken[e],
           \A d \in Directions : pc'[e][d] = "received" =>
               pc[e][d] = "received" /\ delivered'[e][d] = delivered[e][d],
           Len(delivered[e]["target"]) <= Len(delivered'[e]["target"]),
           Len(delivered'[e]["target"]) \in Nat
    PROVE  Bytes(e)'
<1>1. Committed(e) <= Committed(e)' /\ Committed(e) \in Int /\ Committed(e)' \in Int
  BY CommittedFrame
<1>2. /\ m_bytes_received[e] \in Nat /\ m_bytes_sent[e] \in Nat
      /\ \A d \in Directions : loaded[e][d] \in Nat
  BY DEF IInv, TypeOK
<1>3. Len(delivered[e]["target"]) \in Nat
  BY PendingTaken DEF Directions
<1> QED
  BY <1>1, <1>2, <1>3 DEF Bytes

\* What a step leaves alone stays counted as it was.
LEMMA BytesStutter ==
    ASSUME IInv, NEW e \in Connections, Bytes(e), UNCHANGED dataVars,
           \A d \in Directions : pc'[e][d] = "received" => pc[e][d] = "received"
    PROVE  Bytes(e)'
<1>1. /\ m_bytes_sent' = m_bytes_sent /\ m_bytes_received' = m_bytes_received
      /\ loaded' = loaded /\ taken' = taken /\ delivered' = delivered
  BY DEF dataVars
<1>2. Len(delivered[e]["target"]) \in Nat
  BY PendingTaken DEF Directions
<1>3. Len(delivered[e]["target"]) <= Len(delivered'[e]["target"])
  BY <1>1, <1>2
<1> QED
  BY <1>1, <1>2, <1>3, BytesFrame

\* A write that fails has delivered nothing or some more, and only its own.
LEMMA ErrorDelivers ==
    ASSUME IInv, NEW c \in Connections, NEW h \in Handlers, HandleError(c, h),
           NEW e \in Connections, NEW d \in Directions
    PROVE  /\ e # c \/ d # h => delivered'[e][d] = delivered[e][d]
           /\ Len(delivered[e][d]) <= Len(delivered'[e][d])
           /\ Len(delivered'[e][d]) \in Nat
<1>0. Len(delivered[e][d]) \in Nat
  BY PendingTaken
<1>1. CASE pc[c][h] # "writing"
  BY <1>0, <1>1 DEF HandleError
<1>2. CASE pc[c][h] = "writing"
  <2>1. PICK k \in 0..(Len(buffer[c][h]) - 1) :
           delivered' = [delivered EXCEPT ![c][h] = @ \o SubSeq(buffer[c][h], 1, k)]
    BY <1>2 DEF HandleError
  <2>2. CASE e # c \/ d # h
    <3>1. h \in Directions
      BY <1>2 DEF Handlers, IInv, TypeOK
    <3>2. delivered'[e][d] = delivered[e][d]
      BY <2>1, <2>2, <3>1 DEF IInv, TypeOK
    <3> QED
      BY <1>0, <2>2, <3>2
  <2>3. CASE e = c /\ d = h
    <3>1. delivered[e][d] \in Seq(Nat) /\ buffer[e][d] \in Seq(Nat)
      BY DEF IInv, TypeOK
    <3>2. delivered'[e][d] = delivered[e][d] \o SubSeq(buffer[e][d], 1, k)
      BY <2>1, <2>3 DEF IInv, TypeOK
    <3>3. SubSeq(buffer[e][d], 1, k) \in Seq(Nat)
            /\ Len(SubSeq(buffer[e][d], 1, k)) = k /\ k \in Nat
      BY <2>1, <2>3, <3>1, Part
    <3>4. Len(delivered'[e][d]) = Len(delivered[e][d]) + k
      BY <3>1, <3>2, <3>3, Appended
    <3> QED
      BY <1>0, <2>3, <3>3, <3>4
  <2> QED
    BY <2>2, <2>3
<1> QED
  BY <1>1, <1>2

\* Every step leaves the plain counters of a connection behind its pumps.
LEMMA BytesStep ==
    ASSUME IInv, NEW e \in Connections, Bytes(e), [Next]_vars
    PROVE  Bytes(e)'
<1>0. /\ "client" \in Directions /\ "target" \in Directions
      /\ \A d \in Directions : d = "client" \/ d = "target"
  BY DEF Directions
<1>1. \A d \in Directions : /\ taken[e][d] \in Nat /\ Len(delivered[e][d]) \in Nat
                            /\ Pending(e, d) \in Nat /\ Pending(e, d) <= taken[e][d]
  BY PendingTaken
<1>2. CASE UNCHANGED <<dataVars, pc>>
  BY <1>2, BytesStutter
<1>3. ASSUME NEW s \in Sessions, NEW c \in Connections, StartProxy(s, c)
      PROVE  Bytes(e)'
  <2>1. \A d \in Directions : pc'[e][d] = pc[e][d]
    BY <1>3, HandlersDistinct DEF StartProxy, Goto, IInv, TypeOK
  <2> QED
    BY <1>3, <2>1, BytesStutter DEF StartProxy
<1>4. ASSUME NEW c \in Connections, HandleTargetConnect(c)
      PROVE  Bytes(e)'
  <2>1. \A d \in Directions : pc'[e][d] = "received" => pc[e][d] = "received"
    BY <1>4, HandlersDistinct DEF HandleTargetConnect, IInv, TypeOK
  <2> QED
    BY <1>4, <2>1, BytesStutter DEF HandleTargetConnect
<1>5. ASSUME NEW c \in Connections, NEW d \in Directions, NEW n \in 1..Chunk,
             HandleRead(c, d, n)
      PROVE  Bytes(e)'
  <2>1. /\ pc[c][d] = "reading" /\ taken[c][d] = Len(delivered[c][d])
        /\ taken' = [taken EXCEPT ![c][d] = @ + n]
        /\ loaded' = [loaded EXCEPT ![c][d] = m_bytes_received[c]]
        /\ pc' = [pc EXCEPT ![c][d] = "received"]
        /\ UNCHANGED <<m_bytes_sent, m_bytes_received, delivered>>
    BY <1>5 DEF HandleRead, Goto, IInv, PumpInv, Pump
  <2>2. CASE e # c
    <3>1. pc'[e] = pc[e] /\ taken'[e] = taken[e] /\ loaded'[e] = loaded[e]
      BY <2>1, <2>2
    <3>2. Len(delivered[e]["target"]) <= Len(delivered'[e]["target"])
      BY <1>0, <1>1, <2>1
    <3> QED
      BY <1>0, <1>1, <2>1, <3>1, <3>2, BytesFrame
  <2>3. CASE e = c
    <3>1. /\ taken'[e][d] = taken[e][d] + n /\ loaded'[e][d] = m_bytes_received[e]
          /\ pc'[e][d] = "received"
      BY <2>1, <2>3, HandlersDistinct DEF IInv, TypeOK
    <3>2. \A b \in Directions : b # d => /\ taken'[e][b] = taken[e][b]
                                         /\ loaded'[e][b] = loaded[e][b]
                                         /\ pc'[e][b] = pc[e][b]
      BY <2>1, <2>3, HandlersDistinct DEF IInv, TypeOK
    <3>3. taken'[e][d] - Pending(e, d)' = taken[e][d] - Pending(e, d)
      BY <1>1, <2>1, <2>3, <3>1 DEF Pending
    <3>4. \A b \in Directions : b # d =>
             taken'[e][b] - Pending(e, b)' = taken[e][b] - Pending(e, b)
      BY <2>1, <3>2 DEF Pending
    <3>5. Committed(e)' = Committed(e)
      BY <1>0, <3>3, <3>4 DEF Committed
    <3> QED
      BY <2>1, <3>1, <3>2, <3>5 DEF Bytes
  <2> QED
    BY <2>2, <2>3
<1>6. ASSUME NEW c \in Connections, NEW d \in Directions, CommitRead(c, d)
      PROVE  Bytes(e)'
  <2> DEFINE k == Pending(c, d)
  <2>1. /\ pc[c][d] = "received" /\ k \in Nat
        /\ m_bytes_received' = [m_bytes_received EXCEPT ![c] = loaded[c][d] + k]
        /\ loaded' = [loaded EXCEPT ![c][d] = 0]
        /\ pc' = [pc EXCEPT ![c][d] = IF m_active[c] THEN "writing" ELSE "idle"]
        /\ UNCHANGED <<m_bytes_sent, taken, delivered>>
    <3>1. k = taken[c][d] - Len(delivered[c][d]) /\ k \in Nat /\ Len(delivered[c][d]) \in Nat
      BY <1>6, PendingTaken DEF CommitRead
    <3>2. Len(Following(Len(delivered[c][d]), k)) = k
      BY <3>1, FollowingTyped
    <3> QED
      BY <1>6, <3>1, <3>2 DEF CommitRead, Goto, Following
  <2>2. CASE e # c
    <3>1. pc'[e] = pc[e] /\ m_bytes_received'[e] = m_bytes_received[e]
            /\ loaded'[e] = loaded[e]
      BY <2>1, <2>2
    <3>2. Len(delivered[e]["target"]) <= Len(delivered'[e]["target"])
      BY <1>0, <1>1, <2>1
    <3> QED
      BY <1>0, <1>1, <2>1, <3>1, <3>2, BytesFrame
  <2>3. CASE e = c
    <3>1. /\ m_bytes_received'[e] = loaded[e][d] + k
          /\ loaded'[e][d] = 0 /\ pc'[e][d] # "received"
      BY <2>1, <2>3, HandlersDistinct DEF IInv, TypeOK
    <3>2. \A b \in Directions : b # d => /\ loaded'[e][b] = loaded[e][b]
                                         /\ pc'[e][b] = pc[e][b]
      BY <2>1, <2>3, HandlersDistinct DEF IInv, TypeOK
    <3>3. Pending(e, d)' = 0 /\ \A b \in Directions : b # d => Pending(e, b)' = Pending(e, b)
      BY <2>1, <3>1, <3>2 DEF Pending
    <3>4. Committed(e)' = Committed(e) + k /\ Committed(e) \in Int
      <4>1. \A b \in {"client", "target"} : Pending(e, b) \in Nat /\ taken[e][b] \in Nat
        BY <1>0, <1>1
      <4> QED
        BY <1>0, <2>1, <2>3, <3>3, <4>1 DEF Committed
    <3>5. \A b \in Directions : loaded[e][b] \in Nat /\ loaded[e][b] <= Committed(e)
      BY DEF Bytes, IInv, TypeOK
    <3>6. \A b \in Directions : loaded'[e][b] <= Committed(e)'
      <4> HIDE DEF k, Committed
      <4> QED
        BY <2>1, <3>1, <3>2, <3>4, <3>5
    <3>7. m_bytes_received'[e] <= Committed(e)'
      <4> HIDE DEF k, Committed
      <4> QED
        BY <2>1, <3>1, <3>4, <3>5
    <3> QED
      BY <2>1, <3>6, <3>7 DEF Bytes
  <2> QED
    BY <2>2, <2>3
<1>7. ASSUME NEW c \in Connections, NEW d \in Directions, HandleWrite(c, d)
      PROVE  Bytes(e)'
  <2>1. /\ pc[c][d] = "writing"
        /\ delivered' = [delivered EXCEPT ![c][d] = @ \o buffer[c][d]]
        /\ m_bytes_sent' = IF d = "target"
                           THEN [m_bytes_sent EXCEPT ![c] = @ + Len(buffer[c][d])]
                           ELSE m_bytes_sent
        /\ pc' = [pc EXCEPT ![c][d] = IF m_active[c] THEN "reading" ELSE "idle"]
        /\ UNCHANGED <<m_bytes_received, loaded, taken>>
    BY <1>7 DEF HandleWrite, Goto
  <2>2. \A b \in Directions : pc'[e][b] = "received" =>
            pc[e][b] = "received" /\ delivered'[e][b] = delivered[e][b]
    BY <2>1, HandlersDistinct DEF IInv, TypeOK
  <2>3. CASE e # c \/ d # "target"
    <3>1. m_bytes_sent'[e] = m_bytes_sent[e] /\ delivered'[e]["target"] = delivered[e]["target"]
      BY <2>1, <2>3 DEF IInv, TypeOK
    <3>2. Len(delivered[e]["target"]) <= Len(delivered'[e]["target"])
      BY <1>0, <1>1, <3>1
    <3> QED
      BY <1>0, <1>1, <2>1, <2>2, <3>1, <3>2, BytesFrame
  <2>4. CASE e = c /\ d = "target"
    <3> DEFINE k == Len(buffer[e]["target"])
    <3>1. m_bytes_sent'[e] = m_bytes_sent[e] + k /\ m_bytes_sent[e] \in Nat
      BY <2>1, <2>4 DEF IInv, TypeOK
    <3>2. Len(delivered'[e]["target"]) = Len(delivered[e]["target"]) + k /\ k \in Nat
      <4>1. delivered'[e]["target"] = delivered[e]["target"] \o buffer[e]["target"]
        <5>1. delivered' = [delivered EXCEPT ![e]["target"] = @ \o buffer[e]["target"]]
          BY <2>1, <2>4
        <5> QED
          BY <1>0, <5>1 DEF IInv, TypeOK
      <4>2. delivered[e]["target"] \in Seq(Nat) /\ buffer[e]["target"] \in Seq(Nat)
        BY <1>0 DEF IInv, TypeOK
      <4> QED
        BY <4>1, <4>2, Appended
    <3>3. m_bytes_sent'[e] <= Len(delivered'[e]["target"])
      <4>1. m_bytes_sent[e] <= Len(delivered[e]["target"])
        BY DEF Bytes
      <4>2. Len(delivered[e]["target"]) \in Nat
        BY <1>0, <1>1
      <4> HIDE DEF k
      <4> QED
        BY <3>1, <3>2, <4>1, <4>2
    <3>4. Committed(e) <= Committed(e)' /\ Committed(e) \in Int /\ Committed(e)' \in Int
      BY <2>1, <2>2, CommittedFrame
    <3>5. /\ m_bytes_received[e] \in Nat /\ m_bytes_received'[e] = m_bytes_received[e]
          /\ \A b \in Directions : loaded[e][b] \in Nat /\ loaded'[e][b] = loaded[e][b]
      BY <2>1 DEF IInv, TypeOK
    <3>6. /\ m_bytes_received[e] <= Committed(e)
          /\ \A b \in Directions : loaded[e][b] <= Committed(e)
      BY DEF Bytes
    <3>7. m_bytes_received'[e] <= Committed(e)'
      BY <3>4, <3>5, <3>6
    <3>8. \A b \in Directions : loaded'[e][b] <= Committed(e)'
      BY <3>4, <3>5, <3>6
    <3> QED
      BY <3>3, <3>7, <3>8 DEF Bytes
  <2> QED
    BY <2>3, <2>4
<1>8. ASSUME NEW c \in Connections, NEW h \in Handlers, HandleError(c, h)
      PROVE  Bytes(e)'
  <2>0. pc' = [pc EXCEPT ![c][h] = IF m_active[c] THEN "failing" ELSE "idle"]
    BY <1>8 DEF HandleError, Goto
  <2>1. \A d \in Directions : pc'[e][d] = "received" =>
            pc[e][d] = "received" /\ delivered'[e][d] = delivered[e][d]
    <3> SUFFICES ASSUME NEW d \in Directions, pc'[e][d] = "received"
                 PROVE  pc[e][d] = "received" /\ delivered'[e][d] = delivered[e][d]
      OBVIOUS
    <3>1. (e # c \/ d # h) /\ pc[e][d] = "received"
      BY <2>0, HandlersDistinct DEF IInv, TypeOK
    <3> QED
      BY <1>8, <3>1, ErrorDelivers
  <2>2. Len(delivered[e]["target"]) <= Len(delivered'[e]["target"])
          /\ Len(delivered'[e]["target"]) \in Nat
    BY <1>0, <1>8, ErrorDelivers
  <2> QED
    BY <1>0, <1>1, <1>8, <2>1, <2>2, BytesFrame DEF HandleError
<1>9. ASSUME NEW c \in Connections, NEW h \in Handlers,
             StopBegin(c, h) \/ UpdateStatistics(c, h) \/ RemoveProxy(c, h)
      PROVE  Bytes(e)'
  <2>1. PICK step \in {"counting", "removing", "idle"} : pc' = [pc EXCEPT ![c][h] = step]
    BY <1>9 DEF StopBegin, UpdateStatistics, RemoveProxy, Goto
  <2>2. \A d \in Directions : pc'[e][d] = "received" => pc[e][d] = "received"
    BY <2>1, HandlersDistinct DEF IInv, TypeOK
  <2> QED
    BY <1>9, <2>2, BytesStutter DEF StopBegin, UpdateStatistics, RemoveProxy
<1> QED
  BY <1>2, <1>3, <1>4, <1>5, <1>6, <1>7, <1>8, <1>9
     DEF Next, Running, Completes, StartProxyBadAddress, StopProxyActive, StopProxyInactive,
         CleanupInactiveProxies, vars

\* The units a connection has moved never become fewer.
LEMMA MovedGrows ==
    ASSUME IInv, [Next]_vars, NEW e \in Connections, NEW d \in Directions
    PROVE  /\ taken[e][d] \in Nat /\ taken'[e][d] \in Nat /\ taken[e][d] <= taken'[e][d]
           /\ Len(delivered[e][d]) \in Nat /\ Len(delivered'[e][d]) \in Nat
           /\ Len(delivered[e][d]) <= Len(delivered'[e][d])
<1> DEFINE n == Len(delivered[e][d])
<1>1. taken[e][d] \in Nat /\ n \in Nat
  BY PendingTaken
<1>2. \/ UNCHANGED <<taken[e][d], delivered[e][d]>>
      \/ \E k \in 1..Chunk : Channel(e, d)!Take(k) \/ Channel(e, d)!Deliver(k)
  BY RelayStep DEF Channel!Next
<1>3. CASE UNCHANGED <<taken[e][d], delivered[e][d]>>
  BY <1>1, <1>3
<1>4. ASSUME NEW k \in 1..Chunk, Channel(e, d)!Take(k)
      PROVE  /\ taken'[e][d] = taken[e][d] + k /\ delivered'[e][d] = delivered[e][d]
  BY <1>4 DEF Channel!Take
<1>5. ASSUME NEW k \in 1..Chunk, Channel(e, d)!Deliver(k)
      PROVE  taken'[e][d] = taken[e][d] /\ Len(delivered'[e][d]) = n + k
  <2>1. delivered'[e][d] = delivered[e][d] \o Following(n, k) /\ taken'[e][d] = taken[e][d]
    BY <1>5 DEF Channel!Deliver, Following
  <2>2. Following(n, k) \in Seq(Nat) /\ Len(Following(n, k)) = k
    <3> HIDE DEF n
    <3>1. k \in Nat
      OBVIOUS
    <3> QED
      BY <1>1, <3>1, FollowingTyped
  <2>3. delivered[e][d] \in Seq(Nat)
    BY DEF IInv, TypeOK
  <2> QED
    BY <2>1, <2>2, <2>3, Appended
<1> HIDE DEF n
<1> QED
  BY <1>1, <1>2, <1>3, <1>4, <1>5 DEF n

Moved(c) == taken[c]["client"] + taken[c]["target"] + Len(delivered[c]["target"])

\* A credit is a number of units.
LEMMA CreditTyped ==
    ASSUME IInv, NEW e \in Connections
    PROVE  Moved(e) \in Nat /\ Credit(e) \in Nat /\ Counted(e) \in Nat /\ Credit(e) <= Counted(e)
<1>1. Moved(e) \in Nat
  <2>1. "client" \in Directions /\ "target" \in Directions
    BY DEF Directions
  <2> DEFINE a == taken[e]["client"]
             b == taken[e]["target"]
             n == Len(delivered[e]["target"])
  <2>2. a \in Nat /\ b \in Nat /\ n \in Nat
    BY <2>1, PendingTaken
  <2>3. Moved(e) = (a + b) + n
    BY DEF Moved
  <2> HIDE DEF a, b, n
  <2> QED
    BY <2>2, <2>3
<1>2. Counted(e) = IF Started(e) /\ ~m_active[e] THEN Moved(e) ELSE 0
  BY DEF Counted, Moved
<1> QED
  BY <1>1, <1>2 DEF Credit

\* A connection that is counted has moved what is added to the total.
LEMMA CountsMoved ==
    ASSUME IInv, NEW e \in Connections, Bytes(e)
    PROVE  /\ m_bytes_sent[e] + m_bytes_received[e] \in Nat
           /\ m_bytes_sent[e] + m_bytes_received[e] <= Moved(e)
<1>1. \A d \in {"client", "target"} :
         /\ taken[e][d] \in Nat /\ Len(delivered[e][d]) \in Nat
         /\ Pending(e, d) \in Nat /\ Pending(e, d) <= taken[e][d]
  BY PendingTaken DEF Directions
<1>2. m_bytes_sent[e] \in Nat /\ m_bytes_received[e] \in Nat
  BY DEF IInv, TypeOK
<1>3. m_bytes_received[e] <= Committed(e) /\ m_bytes_sent[e] <= Len(delivered[e]["target"])
  BY DEF Bytes
<1> DEFINE a == taken[e]["client"]
           b == taken[e]["target"]
           n == Len(delivered[e]["target"])
           p == Pending(e, "client")
           q == Pending(e, "target")
<1>4. a \in Nat /\ b \in Nat /\ n \in Nat /\ p \in Nat /\ q \in Nat
  BY <1>1
<1>5. Moved(e) = (a + b) + n /\ Committed(e) = (a - p) + (b - q)
        /\ m_bytes_sent[e] <= n
  BY <1>3 DEF Moved, Committed
<1> HIDE DEF a, b, n, p, q
<1> QED
  BY <1>2, <1>3, <1>4, <1>5

\* A step adds nothing to the total, or it adds the plain counters of one
\* connection, whose credit was nothing; no credit shrinks.
LEMMA CreditStep ==
    ASSUME IInv, BytesInv, [Next]_vars
    PROVE  /\ \A e \in Connections : Credit(e)' \in Nat /\ Credit(e) <= Credit(e)'
           /\ \/ m_total_bytes_transferred' = m_total_bytes_transferred
              \/ \E c \in Connections :
                    /\ m_total_bytes_transferred' =
                          m_total_bytes_transferred + m_bytes_sent[c] + m_bytes_received[c]
                    /\ Credit(c) = 0
                    /\ UNCHANGED Moved(c)
                    /\ Credit(c)' = Moved(c)'
<1>1. ASSUME NEW e \in Connections
      PROVE  /\ Moved(e) \in Nat /\ Moved(e)' \in Nat /\ Moved(e) <= Moved(e)'
             /\ Credit(e) = IF \/ ~Started(e) \/ m_active[e]
                               \/ \E h \in Handlers : pc[e][h] = "counting"
                            THEN 0 ELSE Moved(e)
             /\ Credit(e)' = IF \/ ~Started(e)' \/ m_active'[e]
                                \/ \E h \in Handlers : pc'[e][h] = "counting"
                             THEN 0 ELSE Moved(e)'
  <2> DEFINE a == taken[e]["client"]
             b == taken[e]["target"]
             n == Len(delivered[e]["target"])
             a2 == taken'[e]["client"]
             b2 == taken'[e]["target"]
             n2 == Len(delivered'[e]["target"])
  <2>1. /\ a \in Nat /\ a2 \in Nat /\ a <= a2
        /\ b \in Nat /\ b2 \in Nat /\ b <= b2
        /\ n \in Nat /\ n2 \in Nat /\ n <= n2
    BY MovedGrows DEF Directions
  <2>2. Moved(e) = (a + b) + n /\ Moved(e)' = (a2 + b2) + n2
    BY DEF Moved
  <2> HIDE DEF a, b, n, a2, b2, n2
  <2>3. Moved(e) \in Nat /\ Moved(e)' \in Nat /\ Moved(e) <= Moved(e)'
    BY <2>1, <2>2
  <2> QED
    BY <2>3 DEF Credit, Counted, Moved
<1>2. ASSUME NEW e \in Connections,
             Started(e) => Started(e)',
             m_active'[e] => ~Started(e) \/ m_active[e],
             \A h \in Handlers : pc'[e][h] = "counting" =>
                 ~Started(e) \/ m_active[e] \/ pc[e][h] = "counting"
      PROVE  Credit(e)' \in Nat /\ Credit(e) <= Credit(e)'
  BY <1>1, <1>2
<1> DEFINE Goal == \/ m_total_bytes_transferred' = m_total_bytes_transferred
                  \/ \E c \in Connections :
                        /\ m_total_bytes_transferred' =
                              m_total_bytes_transferred + m_bytes_sent[c] + m_bytes_received[c]
                        /\ Credit(c) = 0
                        /\ UNCHANGED Moved(c)
                        /\ Credit(c)' = Moved(c)'
           Grows == \A e \in Connections : Credit(e)' \in Nat /\ Credit(e) <= Credit(e)'
<1>3. \A e \in Connections : Life(e) /\ OneCounts(e)
  BY DEF IInv, LifeInv, BytesInv
<1>4. ASSUME UNCHANGED <<m_session_id, m_active, pc, m_total_bytes_transferred>>
      PROVE  Goal /\ Grows
  BY <1>2, <1>4 DEF Started
<1>5. ASSUME NEW s \in Sessions, NEW c \in Connections, StartProxy(s, c)
      PROVE  Goal /\ Grows
  <2>1. \A e \in Connections :
           /\ Started(e) => Started(e)'
           /\ m_active'[e] => ~Started(e) \/ m_active[e]
           /\ \A h \in Handlers : pc'[e][h] = "counting" => pc[e][h] = "counting"
    BY <1>5, HandlersDistinct DEF StartProxy, Goto, Started, IInv, TypeOK
  <2>2. m_total_bytes_transferred' = m_total_bytes_transferred
    BY <1>5 DEF StartProxy
  <2> QED
    BY <1>2, <2>1, <2>2
<1>6. ASSUME NEW s \in Sessions, NEW c \in Connections, StartProxyBadAddress(s, c)
      PROVE  Goal /\ Grows
  <2>1. \A e \in Connections : Started(e) => Started(e)'
    BY <1>6 DEF StartProxyBadAddress, Started, IInv, TypeOK
  <2> QED
    BY <1>2, <1>6, <2>1 DEF StartProxyBadAddress
<1>7. ASSUME NEW s \in Sessions, StopProxyActive(s)
      PROVE  Goal /\ Grows
  <2>0. PICK c \in Connections : c = m_proxies[s]
    BY <1>7 DEF StopProxyActive, IInv, TypeOK
  <2>1. /\ m_active[c]
        /\ m_active' = [m_active EXCEPT ![c] = FALSE]
        /\ m_total_bytes_transferred' =
              m_total_bytes_transferred + m_bytes_sent[c] + m_bytes_received[c]
        /\ UNCHANGED <<m_session_id, pc, taken, delivered>>
    BY <1>7, <2>0 DEF StopProxyActive, dataVars
  <2>2. ~m_active'[c] /\ \A e \in Connections : m_active'[e] => m_active[e]
    BY <2>1 DEF IInv, TypeOK
  <2>3. Grows
    BY <1>2, <2>1, <2>2 DEF Started
  <2>4. Started(c) /\ Started(c)' /\ \A h \in Handlers : pc'[c][h] # "counting"
    BY <1>3, <2>1 DEF Life, Started
  <2>5. Credit(c) = 0 /\ Credit(c)' = Moved(c)'
    BY <1>1, <2>1, <2>2, <2>4
  <2>6. UNCHANGED Moved(c)
    BY <2>1 DEF Moved
  <2> QED
    BY <2>1, <2>3, <2>5, <2>6
<1>8. ASSUME NEW c \in Connections, NEW h \in Handlers, UpdateStatistics(c, h)
      PROVE  Goal /\ Grows
  <2>1. /\ pc[c][h] = "counting"
        /\ pc' = [pc EXCEPT ![c][h] = "removing"]
        /\ m_total_bytes_transferred' =
              m_total_bytes_transferred + m_bytes_sent[c] + m_bytes_received[c]
        /\ UNCHANGED <<m_session_id, m_active, taken, delivered>>
    BY <1>8 DEF UpdateStatistics, dataVars, Goto
  <2>2. \A e \in Connections : \A g \in Handlers :
           pc'[e][g] = "counting" => pc[e][g] = "counting"
    BY <2>1 DEF IInv, TypeOK
  <2>3. Grows
    BY <1>2, <2>1, <2>2 DEF Started
  <2>4. \A g \in Handlers : pc'[c][g] # "counting"
    BY <1>3, <2>1 DEF OneCounts, IInv, TypeOK
  <2>5. Started(c) /\ Started(c)' /\ ~m_active'[c]
    BY <1>3, <2>1 DEF Life, Started
  <2>6. Credit(c) = 0 /\ Credit(c)' = Moved(c)'
    BY <1>1, <2>1, <2>4, <2>5
  <2>7. UNCHANGED Moved(c)
    BY <2>1 DEF Moved
  <2> QED
    BY <2>1, <2>3, <2>6, <2>7
<1>9. ASSUME NEW c \in Connections, NEW h \in Handlers, StopBegin(c, h)
      PROVE  Goal /\ Grows
  <2>1. \A e \in Connections :
           /\ m_active'[e] => m_active[e]
           /\ \A g \in Handlers : pc'[e][g] = "counting" =>
                 m_active[e] \/ pc[e][g] = "counting"
    BY <1>9 DEF StopBegin, Goto, IInv, TypeOK
  <2> QED
    BY <1>2, <1>9, <2>1 DEF StopBegin, managerVars, Started
<1>10. ASSUME NEW c \in Connections, HandleTargetConnect(c)
       PROVE  Goal /\ Grows
  <2>1. \A e \in Connections : \A g \in Handlers :
           pc'[e][g] = "counting" => pc[e][g] = "counting"
    BY <1>10, HandlersDistinct DEF HandleTargetConnect, IInv, TypeOK
  <2> QED
    BY <1>2, <1>10, <2>1 DEF HandleTargetConnect, managerVars, Started
<1>11. ASSUME NEW c \in Connections, NEW h \in Handlers,
              NEW step \in {"received", "writing", "reading", "failing", "idle"},
              pc' = [pc EXCEPT ![c][h] = step],
              UNCHANGED <<m_session_id, m_active, m_total_bytes_transferred>>
       PROVE  Goal /\ Grows
  <2>1. \A e \in Connections : \A g \in Handlers :
           pc'[e][g] = "counting" => pc[e][g] = "counting"
    BY <1>11 DEF IInv, TypeOK
  <2> QED
    BY <1>2, <1>11, <2>1 DEF Started
<1>12. ASSUME NEW c \in Connections, NEW d \in Directions,
              \/ \E n \in 1..Chunk : HandleRead(c, d, n)
              \/ CommitRead(c, d)
              \/ HandleWrite(c, d)
       PROVE  Goal /\ Grows
  <2>1. d \in Handlers
    BY HandlersDistinct
  <2>2. PICK step \in {"received", "writing", "reading", "idle"} :
           pc' = [pc EXCEPT ![c][d] = step]
    BY <1>12 DEF HandleRead, CommitRead, HandleWrite, Goto
  <2>3. UNCHANGED <<m_session_id, m_active, m_total_bytes_transferred>>
    BY <1>12 DEF HandleRead, CommitRead, HandleWrite, managerVars
  <2> QED
    BY <1>11, <2>1, <2>2, <2>3
<1>13. ASSUME NEW c \in Connections, NEW h \in Handlers,
              HandleError(c, h) \/ RemoveProxy(c, h)
       PROVE  Goal /\ Grows
  <2>1. PICK step \in {"failing", "idle"} : pc' = [pc EXCEPT ![c][h] = step]
    BY <1>13 DEF HandleError, RemoveProxy, Goto
  <2>2. UNCHANGED <<m_session_id, m_active, m_total_bytes_transferred>>
    BY <1>13 DEF HandleError, RemoveProxy, managerVars
  <2> QED
    BY <1>11, <2>1, <2>2
<1>14. Goal /\ Grows
  <2> HIDE DEF Goal, Grows
  <2>1. CASE UNCHANGED vars \/ CleanupInactiveProxies \/ \E s \in Sessions : StopProxyInactive(s)
    <3>1. UNCHANGED <<m_session_id, m_active, pc, m_total_bytes_transferred>>
      BY <2>1 DEF StopProxyInactive, CleanupInactiveProxies, vars, managerVars
    <3> QED
      BY <1>4, <3>1
  <2> QED
    BY <1>5, <1>6, <1>7, <1>8, <1>9, <1>10, <1>12, <1>13, <2>1
       DEF Next, Running, Completes
<1> QED
  BY <1>14

\* Every step leaves the total within the sum of the credits.
LEMMA TotalStep ==
    ASSUME IInv, BytesInv, TotalInv, [Next]_vars
    PROVE  TotalInv'
<1> DEFINE f == [c \in Connections |-> Credit(c)]
           f2 == [c \in Connections |-> Credit(c)']
<1>1. PICK g \in [SUBSET Connections -> Nat] :
         IsSum(g, f, Connections) /\ m_total_bytes_transferred <= g[Connections]
  BY DEF TotalInv
<1>2. f \in [Connections -> Nat] /\ f2 \in [Connections -> Nat]
  BY CreditTyped, CreditStep
<1>3. PICK g2 \in [SUBSET Connections -> Nat] : IsSum(g2, f2, Connections)
  BY <1>2, SumExists, FiniteConnections
<1>4. \A c \in Connections : f[c] <= f2[c]
  BY CreditStep
<1>5. m_total_bytes_transferred' <= g2[Connections]
  <2>1. PICK k \in Nat, c \in Connections \cup {NoProxy} :
           /\ m_total_bytes_transferred' = m_total_bytes_transferred + k
           /\ c \in Connections \/ k = 0
           /\ c \in Connections => f[c] + k <= f2[c]
    <3>1. CASE m_total_bytes_transferred' = m_total_bytes_transferred
      <4> WITNESS 0 \in Nat, NoProxy \in Connections \cup {NoProxy}
      <4> QED
        BY <3>1 DEF IInv, TypeOK
    <3>2. ASSUME NEW c \in Connections,
                 /\ m_total_bytes_transferred' =
                       m_total_bytes_transferred + m_bytes_sent[c] + m_bytes_received[c]
                 /\ Credit(c) = 0
                 /\ UNCHANGED Moved(c)
                 /\ Credit(c)' = Moved(c)'
          PROVE  \E k \in Nat, d \in Connections \cup {NoProxy} :
                    /\ m_total_bytes_transferred' = m_total_bytes_transferred + k
                    /\ d \in Connections \/ k = 0
                    /\ d \in Connections => f[d] + k <= f2[d]
      <4> DEFINE k == m_bytes_sent[c] + m_bytes_received[c]
      <4>1. k \in Nat /\ k <= Moved(c)
        BY CountsMoved DEF BytesInv
      <4>2. m_total_bytes_transferred' = m_total_bytes_transferred + k
        BY <3>2 DEF IInv, TypeOK
      <4>3. f[c] = 0 /\ f2[c] = Moved(c) /\ Moved(c) \in Nat
        BY <3>2, CreditTyped
      <4> HIDE DEF k, f, f2
      <4>4. f[c] + k <= f2[c]
        BY <4>1, <4>3
      <4> QED
        BY <4>1, <4>2, <4>4
    <3> QED
      BY <3>1, <3>2, CreditStep
  <2>2. g[Connections] + k <= g2[Connections]
    <3> HIDE DEF f, f2
    <3> QED
      BY <1>1, <1>2, <1>3, <1>4, <2>1, SumGrows, FiniteConnections
  <2>3. g[Connections] \in Nat /\ g2[Connections] \in Nat
    OBVIOUS
  <2> QED
    BY <1>1, <2>1, <2>2, <2>3 DEF IInv, TypeOK
<1> QED
  BY <1>3, <1>5 DEF TotalInv

\* The sum of the property is the sum of a function.
LEMMA CountedSum ==
    ASSUME IInv
    PROVE  \E g \in [SUBSET Connections -> Nat] :
              /\ IsSum(g, [c \in Connections |-> Counted(c)], Connections)
              /\ MapThenSumSet(Counted, Connections) = g[Connections]
<1> DEFINE f == [c \in Connections |-> Counted(c)]
           Iter(g) == g = [s \in SUBSET Connections |-> IF s = {} THEN 0
                             ELSE LET x == Any(s) IN Counted(x) + g[s \ {x}]]
           it == CHOOSE g : Iter(g)
<1>0. f \in [Connections -> Nat]
  BY CreditTyped
<1>1. PICK g \in [SUBSET Connections -> Nat] : IsSum(g, f, Connections)
  BY <1>0, SumExists, FiniteConnections
<1>2. MapThenSumSet(Counted, Connections) = it[Connections]
  BY DEF MapThenSumSet, MapThenFoldSet, Any
<1>3. \A s \in SUBSET Connections : s # {} => f[Any(s)] = Counted(Any(s))
  BY AnyRemoved, FiniteConnections
<1>4. Iter(g)
  BY <1>1, <1>3 DEF IsSum
<1>5. Iter(it)
  BY <1>4
<1> HIDE DEF it
<1>6. IsSum(it, f, Connections)
  BY <1>5, <1>3 DEF IsSum
<1> QED
  BY <1>1, <1>2, <1>6, SumUnique, FiniteConnections

\* Nothing is counted at first.
LEMMA InitTotal == Init => BytesInv /\ TotalInv
<1> SUFFICES ASSUME Init PROVE BytesInv /\ TotalInv
  OBVIOUS
<1>1. BytesInv
  BY HandlersDistinct DEF Init, BytesInv, Bytes, OneCounts, Committed, Pending, Directions
<1>2. TotalInv
  <2>1. [c \in Connections |-> Credit(c)] \in [Connections -> Nat]
    BY InitIInv, CreditTyped
  <2>2. PICK g \in [SUBSET Connections -> Nat] :
           IsSum(g, [c \in Connections |-> Credit(c)], Connections)
    <3> DEFINE f == [c \in Connections |-> Credit(c)]
    <3> HIDE DEF f
    <3>1. \E g \in [SUBSET Connections -> Nat] : IsSum(g, f, Connections)
      BY <2>1, SumExists, FiniteConnections DEF f
    <3> QED
      BY <3>1 DEF f
  <2>3. g[Connections] \in Nat
    BY <2>2
  <2>4. m_total_bytes_transferred <= g[Connections]
    BY <2>3 DEF Init
  <2> QED
    BY <2>2, <2>4 DEF TotalInv
<1> QED
  BY <1>1, <1>2

\* However many connections there are, and however their handlers meet the
\* error, a connection is counted once: the total is at most what the stopped
\* connections moved.
THEOREM CountedOnce == Spec => []NeverCountedTwice
<1>1. IInv /\ BytesInv /\ [Next]_vars => BytesInv'
  BY BytesStep, OneCountsStep DEF BytesInv
<1>2. IInv /\ BytesInv /\ TotalInv /\ [Next]_vars => TotalInv'
  BY TotalStep
<1>3. IInv /\ TotalInv => NeverCountedTwice
  <2> SUFFICES ASSUME IInv, TotalInv PROVE NeverCountedTwice
    OBVIOUS
  <2> DEFINE f == [c \in Connections |-> Credit(c)]
             f2 == [c \in Connections |-> Counted(c)]
  <2>1. PICK g \in [SUBSET Connections -> Nat] :
           IsSum(g, f, Connections) /\ m_total_bytes_transferred <= g[Connections]
    BY DEF TotalInv
  <2>2. PICK g2 \in [SUBSET Connections -> Nat] :
           /\ IsSum(g2, f2, Connections)
           /\ MapThenSumSet(Counted, Connections) = g2[Connections]
    BY CountedSum
  <2>3. /\ f \in [Connections -> Nat] /\ f2 \in [Connections -> Nat]
        /\ \A c \in Connections : f[c] <= f2[c]
    BY CreditTyped
  <2>4. g[Connections] + 0 <= g2[Connections]
    <3>1. NoProxy \notin Connections
      OBVIOUS
    <3> HIDE DEF f, f2
    <3> QED
      BY <2>1, <2>2, <2>3, <3>1, SumGrows, FiniteConnections
  <2>5. g[Connections] \in Nat /\ g2[Connections] \in Nat /\ m_total_bytes_transferred \in Nat
    BY DEF IInv, TypeOK
  <2> QED
    BY <2>1, <2>2, <2>4, <2>5 DEF NeverCountedTwice
<1> QED
  BY <1>1, <1>2, <1>3, InitTotal, IInvHolds, PTL DEF Spec
=============================================================================
