---------------------------- MODULE GatewayServer ----------------------------
(***************************************************************************)
(* The life of the process: the main thread in handle_start_command and    *)
(* GatewayServer::start, the io threads in io_context::run, and signals.   *)
(*                                                                         *)
(* stop() runs on an io thread, from the handler of the signal set.  It    *)
(* closes the acceptor and then cancels it, which boost::asio refuses on a *)
(* closed acceptor with an exception.  So the rest of stop(), resetting    *)
(* the work guard, stopping the io_context and joining the io threads, is  *)
(* never reached, and is not here.  std::terminate ends the process when a *)
(* server is destroyed that still has threads to join ("terminated"), and  *)
(* when an exception leaves a handler and with it an io thread ("thrown"). *)
(*                                                                         *)
(* The configuration file may be another one at every start.               *)
(***************************************************************************)
EXTENDS ConfigManager

CONSTANTS
    Files,               \* [format, doc] of the files start may be given
    NoFile, NoConfig,
    DefaultThreadCount,  \* the thread_count of a file that has none
    MaxThreads,          \* what the machine allows
    MaxConnections       \* bound: connections accepted by a server

ASSUME GatewayServerAssumption ==
    /\ DefaultThreadCount \in Nat /\ MaxThreads \in Nat \ {0}
    /\ MaxConnections \in Nat
    /\ NoFile \notin Files
    /\ \A f \in Files : \A field \in {"listen_port", "thread_count"} :
          Given(f.doc, "server", field) =>
              f.doc["server"][field] \in {IllTyped, JsonTrue} \cup Int
    /\ \A f \in Files : ListedServices(f.doc) \in Seq(Services)

VARIABLES
    main,                \* where the main thread is, or how the process ended
    file,                \* the file of the start command under way
    config,              \* its ConfigManager
    m_listen_port, m_thread_count,
    m_running, m_work_guard,
    m_acceptor,          \* "none", "open" or "closed"
    accept,              \* whether an async_accept is pending
    io,                  \* m_io_threads, not joined: what each is doing
    signals,             \* who handles signals, and whether one came
    m_total_connections

configVars == <<file, config>>
serverVars == <<m_listen_port, m_thread_count, m_running, m_work_guard, m_acceptor,
                accept, io, m_total_connections>>
vars == <<main, configVars, serverVars, signals>>

Alive == main \notin {"exited", "terminated", "thrown"}

\* io_context::run stays while there is work.
HasWork == m_work_guard \/ accept = "pending" \/ signals \in {"waiting", "raised"}

\* A server without threads, as its constructor leaves it.
NewServer ==
    /\ m_listen_port' = 8080 /\ m_thread_count' = DefaultThreadCount
    /\ m_running' = FALSE /\ m_work_guard' = FALSE
    /\ m_acceptor' = "none" /\ accept' = "none"
    /\ io' = << >> /\ m_total_connections' = 0

\* main() has installed its C signal handler and reads commands.
Init ==
    /\ main = "shell"
    /\ file = NoFile /\ config = NoConfig
    /\ m_listen_port = 8080 /\ m_thread_count = DefaultThreadCount
    /\ m_running = FALSE /\ m_work_guard = FALSE
    /\ m_acceptor = "none" /\ accept = "none"
    /\ io = << >> /\ m_total_connections = 0
    /\ signals = "c_handler"

-----------------------------------------------------------------------------
(* The main thread                                                         *)

\* ~GatewayServer: a server that runs is stopped as far as stop() gets.
Destroyed(next) ==
    /\ m_running' = FALSE
    /\ main' = IF io = << >> THEN next ELSE "terminated"
    /\ m_acceptor' = IF m_running THEN "closed" ELSE m_acceptor

StartCommand(f) ==
    /\ main = "shell"
    /\ main' = "loading"
    /\ file' = f
    /\ UNCHANGED <<config, serverVars, signals>>

\* The file is missing, of another format or no document, YAML did not become
\* JSON on its way, or the document is refused: the command returns.
LoadRejected ==
    /\ main = "loading"
    /\ file.format # "json" \/ ~Accepts(file.doc)
    /\ main' = "shell"
    /\ file' = NoFile
    /\ UNCHANGED <<config, serverVars, signals>>

LoadAccepted ==
    /\ main = "loading"
    /\ file.format \in {"json", "yaml"} /\ Accepts(file.doc)
    /\ main' = "loaded"
    /\ config' = Loaded(file.doc)
    /\ UNCHANGED <<file, serverVars, signals>>

\* m_server = std::make_unique<GatewayServer>(), which destroys the last one.
CreateServer ==
    /\ main = "loaded"
    /\ io = << >>
    /\ main' = "created"
    /\ NewServer
    /\ UNCHANGED <<configVars, signals>>

CreateServerTerminates ==
    /\ main = "loaded"
    /\ io # << >>
    /\ Destroyed("terminated")
    /\ UNCHANGED <<configVars, m_listen_port, m_thread_count, m_work_guard, accept, io,
                   m_total_connections, signals>>

\* Faulty: a port that does not fit is cut to the largest that does.
ServedPort_Clamped ==
    LET port == GetInt(config.m_config_json, "server", "listen_port", 8080)
    IN  IF port > MaxPort THEN MaxPort ELSE port

ServedPort == GetInt(config.m_config_json, "server", "listen_port", 8080) % 65536

\* A negative count becomes a large one as a size_t.
ThreadCount ==
    LET count == GetInt(config.m_config_json, "server", "thread_count", DefaultThreadCount)
    IN  IF count < 0 THEN MaxThreads + 1 ELSE count

Return ==
    /\ main' = "shell"
    /\ file' = NoFile
    /\ config' = NoConfig

\* Faulty: no work guard.
Initialize_Unguarded ==
    /\ main = "created"
    /\ m_listen_port' = ServedPort
    /\ m_thread_count' = ThreadCount
    /\ m_acceptor' = "open"
    /\ main' = "initialized"
    /\ UNCHANGED <<configVars, m_running, m_work_guard, accept, io, m_total_connections, signals>>

Initialize ==
    /\ main = "created"
    /\ m_listen_port' = ServedPort
    /\ m_thread_count' = ThreadCount
    /\ m_work_guard' = TRUE
    /\ m_acceptor' = "open"
    /\ main' = "initialized"
    /\ UNCHANGED <<configVars, m_running, accept, io, m_total_connections, signals>>

\* No certificate, or an address that is taken: before the guard or after it.
InitializeFails ==
    /\ main = "created"
    /\ m_listen_port' = ServedPort
    /\ m_thread_count' = ThreadCount
    /\ m_work_guard' \in BOOLEAN
    /\ m_acceptor' \in IF m_work_guard' THEN {"none", "open"} ELSE {"none"}
    /\ Return
    /\ UNCHANGED <<m_running, accept, io, m_total_connections, signals>>

\* start()
Start ==
    /\ main = "initialized"
    /\ ~m_running
    /\ m_running' = TRUE
    /\ main' = "starting"
    /\ UNCHANGED <<configVars, m_listen_port, m_thread_count, m_work_guard, m_acceptor,
                   accept, io, m_total_connections, signals>>

\* A new thread calls run(), which returns at once when there is no work.
StartIoThread ==
    /\ main = "starting"
    /\ Len(io) < m_thread_count
    /\ Len(io) < MaxThreads
    /\ io' = Append(io, IF HasWork THEN "run" ELSE "returned")
    /\ UNCHANGED <<main, configVars, m_listen_port, m_thread_count, m_running, m_work_guard,
                   m_acceptor, accept, m_total_connections, signals>>

\* A thread cannot be created: start() returns, the threads it has stay.
StartFails ==
    /\ main = "starting"
    /\ Len(io) < m_thread_count
    /\ m_running' = FALSE
    /\ Return
    /\ UNCHANGED <<m_listen_port, m_thread_count, m_work_guard, m_acceptor, accept, io,
                   m_total_connections, signals>>

\* From now on a signal goes to the signal set.
RegisterSignalHandlers ==
    /\ main = "starting"
    /\ Len(io) = m_thread_count
    /\ signals' = "waiting"
    /\ main' = "registered"
    /\ UNCHANGED <<configVars, serverVars>>

\* start_accept
Rearm == accept' = IF m_running THEN "pending" ELSE accept

StartAccept ==
    /\ main = "registered"
    /\ Rearm
    /\ main' = "serving"
    /\ UNCHANGED <<configVars, m_listen_port, m_thread_count, m_running, m_work_guard,
                   m_acceptor, io, m_total_connections, signals>>

\* The loop of handle_start_command finds that the server has stopped.
Wake ==
    /\ main = "serving"
    /\ ~m_running
    /\ Return
    /\ UNCHANGED <<serverVars, signals>>

\* main() returns, and the static g_cli is destroyed with its server.
Quit ==
    /\ main = "shell"
    /\ Destroyed("exited")
    /\ UNCHANGED <<configVars, m_listen_port, m_thread_count, m_work_guard, accept, io,
                   m_total_connections, signals>>

-----------------------------------------------------------------------------
(* Signals and io threads                                                  *)

\* signal_handler of main.cpp: its own g_server is null, it calls exit().
RaiseToHandler ==
    /\ Alive
    /\ signals = "c_handler"
    /\ Destroyed("exited")
    /\ UNCHANGED <<configVars, m_listen_port, m_thread_count, m_work_guard, accept, io,
                   m_total_connections, signals>>

\* The set waits for one signal; later ones are queued there for ever.
RaiseToSet ==
    /\ Alive
    /\ signals = "waiting"
    /\ signals' = "raised"
    /\ UNCHANGED <<main, configVars, serverVars>>

Runs(t) == Alive /\ t \in DOMAIN io /\ io[t] = "run"

\* The handler of the signal set calls stop().
HandleSignal(t) ==
    /\ Runs(t)
    /\ signals = "raised"
    /\ signals' = "handled"
    /\ m_running' = FALSE
    /\ io' = [io EXCEPT ![t] = IF m_running THEN "stopping" ELSE "run"]
    /\ UNCHANGED <<main, configVars, m_listen_port, m_thread_count, m_work_guard, m_acceptor,
                   accept, m_total_connections>>

\* stop() closes the acceptor, fails to cancel it, and returns an error.
StopCloses(t) ==
    /\ Alive
    /\ t \in DOMAIN io /\ io[t] = "stopping"
    /\ m_acceptor' = "closed"
    /\ io' = [io EXCEPT ![t] = "run"]
    /\ UNCHANGED <<main, configVars, m_listen_port, m_thread_count, m_running, m_work_guard,
                   accept, m_total_connections, signals>>

\* Faulty: the next accept is started before this one is handled.
HandleAccept_Early(t) ==
    /\ Runs(t)
    /\ accept = "pending"
    /\ m_total_connections < MaxConnections
    /\ m_total_connections' = m_total_connections + 1
    /\ io' = [io EXCEPT ![t] = "accepting"]
    /\ UNCHANGED <<main, configVars, m_listen_port, m_thread_count, m_running, m_work_guard,
                   m_acceptor, accept, signals>>

\* A connection is accepted and, in this version of the server, only counted.
\* It may have been accepted before the acceptor was closed.
HandleAccept(t) ==
    /\ Runs(t)
    /\ accept = "pending"
    /\ m_total_connections < MaxConnections
    /\ m_total_connections' = m_total_connections + 1
    /\ accept' = "none"
    /\ io' = [io EXCEPT ![t] = "accepting"]
    /\ UNCHANGED <<main, configVars, m_listen_port, m_thread_count, m_running, m_work_guard,
                   m_acceptor, signals>>

\* The client has gone again: remote_endpoint() throws between the counting
\* and start_accept, and nothing on the io thread catches.
HandleAcceptThrows(t) ==
    /\ Runs(t)
    /\ accept = "pending"
    /\ m_total_connections < MaxConnections
    /\ m_total_connections' = m_total_connections + 1
    /\ accept' = "none"
    /\ main' = "thrown"
    /\ UNCHANGED <<configVars, m_listen_port, m_thread_count, m_running, m_work_guard,
                   m_acceptor, io, signals>>

\* Faulty: an error ends the accepting.
HandleAcceptError_GivesUp(t) ==
    /\ Runs(t)
    /\ accept = "pending"
    /\ accept' = "none"
    /\ UNCHANGED <<main, configVars, m_listen_port, m_thread_count, m_running, m_work_guard,
                   m_acceptor, io, m_total_connections, signals>>

\* No connection for want of resources, or because the acceptor is closed.
HandleAcceptError(t) ==
    /\ Runs(t)
    /\ accept = "pending"
    /\ accept' = "none"
    /\ io' = [io EXCEPT ![t] = "accepting"]
    /\ UNCHANGED <<main, configVars, m_listen_port, m_thread_count, m_running, m_work_guard,
                   m_acceptor, m_total_connections, signals>>

\* Faulty: accepts whether the server runs or not.
AcceptAgain_Always(t) ==
    /\ Alive
    /\ t \in DOMAIN io /\ io[t] = "accepting"
    /\ accept' = "pending"
    /\ io' = [io EXCEPT ![t] = "run"]
    /\ UNCHANGED <<main, configVars, m_listen_port, m_thread_count, m_running, m_work_guard,
                   m_acceptor, m_total_connections, signals>>

\* handle_accept ends with start_accept.
AcceptAgain(t) ==
    /\ Alive
    /\ t \in DOMAIN io /\ io[t] = "accepting"
    /\ Rearm
    /\ io' = [io EXCEPT ![t] = "run"]
    /\ UNCHANGED <<main, configVars, m_listen_port, m_thread_count, m_running, m_work_guard,
                   m_acceptor, m_total_connections, signals>>

-----------------------------------------------------------------------------
\* What the main thread does of itself once it is given a command.
MainSteps ==
    \/ LoadRejected \/ LoadAccepted \/ CreateServer \/ CreateServerTerminates
    \/ Initialize \/ InitializeFails \/ Start \/ StartIoThread \/ StartFails
    \/ RegisterSignalHandlers \/ StartAccept \/ Wake

IoThread(t) ==
    \/ HandleSignal(t) \/ StopCloses(t)
    \/ HandleAccept(t) \/ HandleAcceptThrows(t) \/ HandleAcceptError(t)
    \/ AcceptAgain(t)

Next ==
    \/ \E f \in Files : StartCommand(f)
    \/ Quit
    \/ MainSteps
    \/ RaiseToHandler \/ RaiseToSet
    \/ \E t \in 1..MaxThreads : IoThread(t)

Spec == Init /\ [][Next]_vars

\* The operating system runs every thread, and an io_context runs the handlers
\* that are ready in their order: one that is ready is not passed over for
\* ever.  An accept on a closed acceptor is ready; on an open one it need
\* never be.
Fairness ==
    /\ WF_vars(MainSteps)
    /\ SF_vars(\E t \in 1..MaxThreads : HandleSignal(t))
    /\ SF_vars(\E t \in 1..MaxThreads : m_acceptor = "closed" /\ HandleAcceptError(t))
    /\ \A t \in 1..MaxThreads : WF_vars(StopCloses(t)) /\ WF_vars(AcceptAgain(t))

FairSpec == Spec /\ Fairness

-----------------------------------------------------------------------------
\* There is one acceptor and one accept: pending, or in the handler of one
\* thread.  One signal at most is answered by stop().
TypeOK ==
    /\ main \in {"shell", "loading", "loaded", "created", "initialized", "starting",
                 "registered", "serving", "exited", "terminated", "thrown"}
    /\ file \in Files \cup {NoFile}
    /\ m_listen_port \in PortNumbers \cup {0}
    /\ m_thread_count \in Nat
    /\ m_running \in BOOLEAN /\ m_work_guard \in BOOLEAN
    /\ m_acceptor \in {"none", "open", "closed"}
    /\ accept \in {"none", "pending"}
    /\ io \in Seq({"run", "stopping", "accepting", "returned"}) /\ Len(io) <= MaxThreads
    /\ signals \in {"c_handler", "waiting", "raised", "handled"}
    /\ m_total_connections \in 0..MaxConnections
    /\ \A t \in DOMAIN io :
          /\ io[t] = "accepting" => accept = "none"
          /\ io[t] = "stopping" => signals = "handled" /\ ~m_running
          /\ \A v \in DOMAIN io : io[t] = io[v] /\ io[t] # "run" => t = v \/ io[t] = "returned"

\* The server is never deaf: while it runs and the process lives, whatever
\* accepts have failed before, an accept is pending or about to be.  The one
\* handler that ends otherwise, by an exception, ends the process.
ServingAccepts ==
    main = "serving" /\ m_running =>
        accept = "pending" \/ \E t \in DOMAIN io : io[t] = "accepting"

\* The document gives a port that stoi does not take for a number.
PortIsNoInt ==
    LET doc == config.m_config_json
    IN  Given(doc, "server", "listen_port") /\ doc["server"]["listen_port"] = JsonTrue

\* The server reads its port from the document and through text, the port
\* that was validated comes from the typed settings: both agree, and where the
\* one is no number to stoi, and only there, the server falls back to its
\* default.  Either way it is a real port.
ServedPortIsValidated ==
    main \in {"initialized", "starting", "registered", "serving"} =>
        /\ m_listen_port = IF PortIsNoInt THEN 8080 ELSE config.settings.server.listen_port
        /\ m_listen_port \in PortNumbers

\* Whatever document was accepted, the one save_config would write is accepted
\* by a new manager and gives the same settings and the same services.
SavedLoadsBack ==
    config # NoConfig =>
        LET doc == SaveConfig(config)
        IN  Accepts(doc) /\ Loaded(doc).settings = config.settings
                         /\ Loaded(doc).services = config.services

\* A signal to a server that has io threads ends its start command, or the
\* process.
SignalEndsCommand ==
    (signals = "raised" /\ m_thread_count > 0) ~>
        main = "shell" \/ ~Alive

\* Once the server has stopped, the accept that was pending, or that a handler
\* starts just then, comes to its end and is not followed by another.
AcceptEnds ==
    (~m_running /\ accept = "pending") ~>
        \/ accept = "none" /\ \A t \in DOMAIN io : io[t] # "accepting"
        \/ ~Alive

\* The handler of the signal set logs "Initiating graceful shutdown": a process
\* that was told to stop through it does not end in the std::terminate that
\* destroying a thread which was not joined calls.
ShutdownIsGraceful == signals = "handled" => main # "terminated"
=============================================================================
