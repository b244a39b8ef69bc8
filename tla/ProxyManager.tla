---------------------------- MODULE ProxyManager ----------------------------
(***************************************************************************)
(* zerossg::ProxyManager and its ProxyConnections.                         *)
(*                                                                         *)
(* The manager maps a session to the connection that serves it, under      *)
(* m_proxies_mutex.  A connection connects to its target and then runs two *)
(* pumps, one per direction: read some bytes, write them to the other      *)
(* side, read again.  Every step of a pump is the completion handler of an *)
(* asynchronous operation and runs on any io thread; the first handler     *)
(* that sees an error stops the connection, which removes itself from the  *)
(* manager.                                                                *)
(*                                                                         *)
(* The mutex is not recursive.  A call of the manager that stops an active *)
(* connection itself comes back to remove_proxy on the same thread and     *)
(* never returns: it keeps the mutex, and so m_proxies_mutex is a          *)
(* variable although every other critical section is one step.             *)
(*                                                                         *)
(* The sockets are outside src/: an operation completes with what it was   *)
(* asked for, or with an error, and one on a closed socket does complete.  *)
(***************************************************************************)
EXTENDS Integers, Sequences, FiniteSets, FiniteSetsExt

CONSTANTS
    Sessions,            \* session ids
    Connections,         \* ProxyConnection objects, each started once
    NoProxy,             \* no connection, or no session
    Chunk,               \* the most units one read takes (8192 bytes)
    Units                \* bound: what each direction of a connection is sent

Directions == {"client", "target"}   \* of a direction: where its bytes come from

ASSUME ProxyAssumption ==
    /\ NoProxy \notin Sessions \cup Connections
    /\ Chunk \in Nat \ {0}
    /\ Units \in [Connections -> [Directions -> Nat]]

\* What the connections count is summed over all of them.
ASSUME FiniteConnections == IsFiniteSet(Connections)

VARIABLES
    m_proxies,                     \* session -> connection
    m_proxies_mutex,               \* "free", or "held" by a call for ever
    m_total_bytes_transferred,
    m_session_id, m_active, m_bytes_sent, m_bytes_received,  \* ProxyConnection
    buffer,                        \* m_client_to_target_buffer and the other
    pc,                            \* what each handler of a connection does
    loaded,                        \* m_bytes_received as a read handler loaded it
    taken, delivered,              \* history: units read, and units written
    overtaken                      \* history: sessions whose entry was removed
                                   \*   by a connection the entry was not

managerVars == <<m_proxies, m_proxies_mutex, m_total_bytes_transferred, overtaken>>
dataVars == <<m_bytes_sent, m_bytes_received, buffer, loaded, taken, delivered>>
vars == <<managerVars, dataVars, m_session_id, m_active, pc>>

Handlers == Directions \cup {"connect"}
InFlight == {"connecting", "reading", "writing"}
Steps == {"idle", "received", "failing", "counting", "removing"} \cup InFlight

MutexFree == m_proxies_mutex = "free"
Started(c) == m_session_id[c] # NoProxy
Goto(c, h, step) == pc' = [pc EXCEPT ![c][h] = step]

Init ==
    /\ m_proxies = [s \in Sessions |-> NoProxy]
    /\ m_proxies_mutex = "free"
    /\ m_total_bytes_transferred = 0
    /\ m_session_id = [c \in Connections |-> NoProxy]
    /\ m_active = [c \in Connections |-> FALSE]
    /\ m_bytes_sent = [c \in Connections |-> 0]
    /\ m_bytes_received = [c \in Connections |-> 0]
    /\ buffer = [c \in Connections |-> [d \in Directions |-> << >>]]
    /\ pc = [c \in Connections |-> [h \in Handlers |-> "idle"]]
    /\ loaded = [c \in Connections |-> [d \in Directions |-> 0]]
    /\ taken = [c \in Connections |-> [d \in Directions |-> 0]]
    /\ delivered = [c \in Connections |-> [d \in Directions |-> << >>]]
    /\ overtaken = {}

-----------------------------------------------------------------------------
(* The calls of ProxyManager.                                              *)

\* Faulty: the entry of the session is replaced.
StartProxy_Replaces(s, c) ==
    /\ MutexFree
    /\ ~Started(c)
    /\ m_proxies' = [m_proxies EXCEPT ![s] = c]
    /\ m_session_id' = [m_session_id EXCEPT ![c] = s]
    /\ m_active' = [m_active EXCEPT ![c] = TRUE]
    /\ Goto(c, "connect", "connecting")
    /\ UNCHANGED <<m_proxies_mutex, m_total_bytes_transferred, dataVars, overtaken>>

\* start_proxy for a session without an entry: the connection is entered,
\* activated and set to connect.
StartProxy(s, c) ==
    /\ MutexFree
    /\ ~Started(c)
    /\ m_proxies[s] = NoProxy
    /\ m_proxies' = [m_proxies EXCEPT ![s] = c]
    /\ m_session_id' = [m_session_id EXCEPT ![c] = s]
    /\ m_active' = [m_active EXCEPT ![c] = TRUE]
    /\ Goto(c, "connect", "connecting")
    /\ UNCHANGED <<m_proxies_mutex, m_total_bytes_transferred, dataVars, overtaken>>

\* start_proxy for a target whose host is no address: connect_to_target
\* catches what make_address throws and stops the connection while the
\* caller has the mutex, for good.
StartProxyBadAddress(s, c) ==
    /\ MutexFree
    /\ ~Started(c)
    /\ m_proxies[s] = NoProxy
    /\ m_proxies' = [m_proxies EXCEPT ![s] = c]
    /\ m_session_id' = [m_session_id EXCEPT ![c] = s]
    /\ m_proxies_mutex' = "held"
    /\ UNCHANGED <<m_total_bytes_transferred, dataVars, overtaken, m_active, pc>>

\* stop_proxy on an active connection: stopped and counted, and then the
\* same thread waits in remove_proxy for the mutex it has.
StopProxyActive(s) ==
    LET c == m_proxies[s]
    IN  /\ MutexFree
        /\ c # NoProxy
        /\ m_active[c]
        /\ m_active' = [m_active EXCEPT ![c] = FALSE]
        /\ m_total_bytes_transferred' =
              m_total_bytes_transferred + m_bytes_sent[c] + m_bytes_received[c]
        /\ m_proxies_mutex' = "held"
        /\ UNCHANGED <<m_proxies, dataVars, overtaken, m_session_id, pc>>

\* stop_proxy on a connection that a handler has stopped already.
StopProxyInactive(s) ==
    /\ MutexFree
    /\ m_proxies[s] # NoProxy
    /\ ~m_active[m_proxies[s]]
    /\ m_proxies' = [m_proxies EXCEPT ![s] = NoProxy]
    /\ UNCHANGED <<m_proxies_mutex, m_total_bytes_transferred, overtaken, dataVars,
                   m_session_id, m_active, pc>>

\* cleanup_inactive_proxies
CleanupInactiveProxies ==
    /\ MutexFree
    /\ m_proxies' = [s \in Sessions |->
          IF m_proxies[s] # NoProxy /\ m_active[m_proxies[s]]
          THEN m_proxies[s] ELSE NoProxy]
    /\ UNCHANGED <<m_proxies_mutex, m_total_bytes_transferred, overtaken, dataVars,
                   m_session_id, m_active, pc>>

-----------------------------------------------------------------------------
(* The handlers of a ProxyConnection.                                      *)

\* Faulty: the connect is repeated although it succeeded.
HandleTargetConnect_Repeats(c) ==
    /\ pc[c]["connect"] = "connecting"
    /\ pc' = [pc EXCEPT ![c] = [h \in Handlers |->
          IF h \in Directions /\ m_active[c] THEN "reading" ELSE pc[c][h]]]
    /\ UNCHANGED <<managerVars, dataVars, m_session_id, m_active>>

\* handle_target_connect: both pumps begin, unless the connection stopped.
HandleTargetConnect(c) ==
    /\ pc[c]["connect"] = "connecting"
    /\ pc' = [pc EXCEPT ![c] = [h \in Handlers |->
          IF h \in Directions /\ m_active[c] THEN "reading" ELSE "idle"]]
    /\ UNCHANGED <<managerVars, dataVars, m_session_id, m_active>>

\* handle_client_read or handle_target_read is called with n units.  Both add
\* to m_bytes_received, a plain integer: one loads it here and stores the sum
\* in its next step, and the other may come in between.
HandleRead(c, d, n) ==
    /\ pc[c][d] = "reading"
    /\ taken[c][d] + n <= Units[c][d]
    /\ taken' = [taken EXCEPT ![c][d] = @ + n]
    /\ loaded' = [loaded EXCEPT ![c][d] = m_bytes_received[c]]
    /\ Goto(c, d, "received")
    /\ UNCHANGED <<managerVars, m_bytes_sent, m_bytes_received, buffer, delivered,
                   m_session_id, m_active>>

\* The rest of the handler: the units are committed to the buffer, and
\* write_to_target or write_to_client begins, unless the connection stopped.
CommitRead(c, d) ==
    LET units == [i \in 1..(taken[c][d] - Len(delivered[c][d])) |->
                     Len(delivered[c][d]) + i]
    IN  /\ pc[c][d] = "received"
        /\ m_bytes_received' = [m_bytes_received EXCEPT ![c] = loaded[c][d] + Len(units)]
        /\ loaded' = [loaded EXCEPT ![c][d] = 0]
        /\ buffer' = [buffer EXCEPT ![c][d] = @ \o units]
        /\ Goto(c, d, IF m_active[c] THEN "writing" ELSE "idle")
        /\ UNCHANGED <<managerVars, m_bytes_sent, taken, delivered, m_session_id, m_active>>

\* Faulty: what was written is not consumed.
HandleWrite_NoConsume(c, d) ==
    /\ pc[c][d] = "writing"
    /\ delivered' = [delivered EXCEPT ![c][d] = @ \o buffer[c][d]]
    /\ m_bytes_sent' = IF d = "target"
                       THEN [m_bytes_sent EXCEPT ![c] = @ + Len(buffer[c][d])]
                       ELSE m_bytes_sent
    /\ Goto(c, d, IF m_active[c] THEN "reading" ELSE "idle")
    /\ UNCHANGED <<managerVars, m_bytes_received, loaded, buffer, taken, m_session_id, m_active>>

\* handle_target_write or handle_client_write: async_write has written the
\* whole buffer; it is consumed and the next read begins.
HandleWrite(c, d) ==
    /\ pc[c][d] = "writing"
    /\ delivered' = [delivered EXCEPT ![c][d] = @ \o buffer[c][d]]
    /\ buffer' = [buffer EXCEPT ![c][d] = << >>]
    /\ m_bytes_sent' = IF d = "target"
                       THEN [m_bytes_sent EXCEPT ![c] = @ + Len(buffer[c][d])]
                       ELSE m_bytes_sent
    /\ Goto(c, d, IF m_active[c] THEN "reading" ELSE "idle")
    /\ UNCHANGED <<managerVars, m_bytes_received, loaded, taken, m_session_id, m_active>>

\* Faulty: an error while writing only ends the pump.
HandleError_PumpOnly(c, h) ==
    /\ pc[c][h] \in InFlight
    /\ Goto(c, h, IF m_active[c] /\ pc[c][h] # "writing" THEN "failing" ELSE "idle")
    /\ UNCHANGED <<managerVars, dataVars, m_session_id, m_active>>

\* A handler is called with an error, a write's after a part of the buffer
\* may have been written, and handle_error tests m_active.
HandleError(c, h) ==
    /\ pc[c][h] \in InFlight
    /\ IF pc[c][h] = "writing"
       THEN \E k \in 0..(Len(buffer[c][h]) - 1) :
               delivered' = [delivered EXCEPT ![c][h] = @ \o SubSeq(buffer[c][h], 1, k)]
       ELSE UNCHANGED delivered
    /\ Goto(c, h, IF m_active[c] THEN "failing" ELSE "idle")
    /\ UNCHANGED <<managerVars, m_bytes_sent, m_bytes_received, buffer, loaded, taken,
                   m_session_id, m_active>>

\* Faulty: the flag is stored without looking at what it was.
StopBegin_Store(c, h) ==
    /\ pc[c][h] = "failing"
    /\ m_active' = [m_active EXCEPT ![c] = FALSE]
    /\ Goto(c, h, "counting")
    /\ UNCHANGED <<managerVars, dataVars, m_session_id>>

\* stop: the exchange lets one handler through, which closes the sockets.
StopBegin(c, h) ==
    /\ pc[c][h] = "failing"
    /\ m_active' = [m_active EXCEPT ![c] = FALSE]
    /\ Goto(c, h, IF m_active[c] THEN "counting" ELSE "idle")
    /\ UNCHANGED <<managerVars, dataVars, m_session_id>>

\* stop: update_statistics with what the plain counters hold.
UpdateStatistics(c, h) ==
    /\ pc[c][h] = "counting"
    /\ m_total_bytes_transferred' =
          m_total_bytes_transferred + m_bytes_sent[c] + m_bytes_received[c]
    /\ Goto(c, h, "removing")
    /\ UNCHANGED <<m_proxies, m_proxies_mutex, overtaken, dataVars, m_session_id, m_active>>

\* Faulty: the connection leaves its entry to cleanup_inactive_proxies.
RemoveProxy_Skipped(c, h) ==
    /\ pc[c][h] = "removing"
    /\ MutexFree
    /\ Goto(c, h, "idle")
    /\ UNCHANGED <<managerVars, dataVars, m_session_id, m_active>>

\* stop: remove_proxy erases the entry of the session, whatever it holds now.
RemoveProxy(c, h) ==
    LET s == m_session_id[c]
    IN  /\ pc[c][h] = "removing"
        /\ MutexFree
        /\ m_proxies' = [m_proxies EXCEPT ![s] = NoProxy]
        /\ overtaken' = IF m_proxies[s] \in {c, NoProxy} THEN overtaken
                        ELSE overtaken \cup {s}
        /\ Goto(c, h, "idle")
        /\ UNCHANGED <<m_proxies_mutex, m_total_bytes_transferred, dataVars,
                       m_session_id, m_active>>
-----------------------------------------------------------------------------
\* What a handler does once it has been called.
Running(c, h) ==
    \/ h \in Directions /\ CommitRead(c, h)
    \/ StopBegin(c, h)
    \/ UpdateStatistics(c, h)
    \/ RemoveProxy(c, h)

\* The operation a handler waits for completes.
Completes(c, h) ==
    \/ h = "connect" /\ HandleTargetConnect(c)
    \/ h \in Directions /\ \E n \in 1..Chunk : HandleRead(c, h, n)
    \/ h \in Directions /\ HandleWrite(c, h)
    \/ HandleError(c, h)

Next ==
    \/ \E s \in Sessions :
          \/ \E c \in Connections : StartProxy(s, c) \/ StartProxyBadAddress(s, c)
          \/ StopProxyActive(s) \/ StopProxyInactive(s)
    \/ CleanupInactiveProxies
    \/ \E c \in Connections, h \in Handlers : Running(c, h) \/ Completes(c, h)

Spec == Init /\ [][Next]_vars

\* The io threads run the handlers that are ready, and the operations that
\* wait on a socket complete once it is closed.  While it is open a peer may
\* be silent for ever.
FairSpec ==
    /\ Spec
    /\ \A c \in Connections, h \in Handlers :
          WF_vars(Running(c, h)) /\ WF_vars(~m_active[c] /\ Completes(c, h))

-----------------------------------------------------------------------------
TypeOK ==
    /\ m_proxies \in [Sessions -> Connections \cup {NoProxy}]
    /\ m_proxies_mutex \in {"free", "held"}
    /\ m_total_bytes_transferred \in Nat
    /\ m_session_id \in [Connections -> Sessions \cup {NoProxy}]
    /\ m_active \in [Connections -> BOOLEAN]
    /\ m_bytes_sent \in [Connections -> Nat]
    /\ m_bytes_received \in [Connections -> Nat]
    /\ buffer \in [Connections -> [Directions -> Seq(Nat)]]
    /\ pc \in [Connections -> [Handlers -> Steps]]
    /\ loaded \in [Connections -> [Directions -> Nat]]
    /\ taken \in [Connections -> [Directions -> Nat]]
    /\ delivered \in [Connections -> [Directions -> Seq(Nat)]]
    /\ overtaken \subseteq Sessions
    /\ \A c \in Connections :
          /\ pc[c]["connect"] \notin {"received", "reading", "writing"}
          /\ \A d \in Directions : pc[c]["connect"] = "idle" \/ pc[c][d] = "idle"

Channel(c, d) == INSTANCE Relay WITH taken <- taken[c][d], delivered <- delivered[c][d]

\* Each direction of each connection is a relay: whatever the other direction
\* and the manager do, and wherever the connection stops, bytes arrive in
\* order and once, and no more than one read's worth is held.
RelayInOrder ==
    /\ \A c \in Connections, d \in Directions : Channel(c, d)!Init
    /\ [][\A c \in Connections, d \in Directions :
             Channel(c, d)!Next \/ UNCHANGED <<taken[c][d], delivered[c][d]>>]_vars

\* An active connection is the entry of its session, so that stop_proxy can
\* find it and a second one is refused, unless the late removal of an older
\* connection of that session took the entry away.
ActiveIsMapped ==
    \A c \in Connections :
        m_active[c] => \/ m_proxies[m_session_id[c]] = c
                       \/ m_session_id[c] \in overtaken

\* An active connection is being served: it is connecting, or both its pumps
\* have an operation or a handler under way, or a handler is about to stop it.
\* None is left that no completion will ever come back to.
ActiveIsServed ==
    \A c \in Connections :
        m_active[c] => \/ pc[c]["connect"] = "connecting"
                       \/ \E h \in Handlers : pc[c][h] = "failing"
                       \/ \A d \in Directions : pc[c][d] \in {"reading", "received", "writing"}

\* The bytes a stopped connection can have been counted for.
Counted(c) ==
    IF Started(c) /\ ~m_active[c]
    THEN taken[c]["client"] + taken[c]["target"] + Len(delivered[c]["target"]) ELSE 0

\* However many handlers meet the error at once, a connection is counted when
\* it stops and once: the total never exceeds what stopped connections moved.
NeverCountedTwice == m_total_bytes_transferred <= MapThenSumSet(Counted, Connections)

\* A connection that stopped is soon out of the map, and no handler holds it
\* any longer, unless a call of the manager has kept the mutex for good.
StoppedIsRemoved ==
    \A c \in Connections :
        Started(c) /\ ~m_active[c]
        ~> \/ m_proxies_mutex = "held"
           \/ /\ \A s \in Sessions : m_proxies[s] # c
              /\ \A h \in Handlers : pc[c][h] = "idle"
=============================================================================
