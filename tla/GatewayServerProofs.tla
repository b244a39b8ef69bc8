------------------------- MODULE GatewayServerProofs -------------------------
(***************************************************************************)
(* What holds of the server's life for every set of files and any number   *)
(* of threads: types, a running server accepts, the port it serves is the  *)
(* port that was validated, and a configuration that is saved loads back.  *)
(***************************************************************************)
EXTENDS GatewayServer, FiniteSetTheorems, TLAPS

-----------------------------------------------------------------------------
(* A running server accepts.                                               *)

\* A step that hands the accept on leaves some thread with it, and one that
\* ends the handler of an accept on a running server starts the next.
LEMMA AcceptStep ==
    ASSUME ServingAccepts, [Next]_vars
    PROVE  ServingAccepts'
<1> USE DEF ServingAccepts
<1>1. CASE UNCHANGED <<main, m_running, accept, io>>
  BY <1>1
<1>2. CASE main' # "serving"
  BY <1>2
<1>3. CASE MainSteps
  <2>1. CASE StartAccept
    BY <2>1 DEF StartAccept, Rearm
  <2> QED
    BY <1>2, <1>3, <2>1
       DEF MainSteps, LoadRejected, LoadAccepted, CreateServer, CreateServerTerminates,
           Destroyed, Initialize, InitializeFails, Start, StartIoThread, StartFails,
           RegisterSignalHandlers, Wake, Return
<1>4. ASSUME NEW t \in 1..MaxThreads, HandleSignal(t)
      PROVE  ServingAccepts'
  BY <1>4 DEF HandleSignal
<1>5. ASSUME NEW t \in 1..MaxThreads, StopCloses(t)
      PROVE  ServingAccepts'
  BY <1>5 DEF StopCloses
<1>6. ASSUME NEW t \in 1..MaxThreads, HandleAccept(t) \/ HandleAcceptError(t)
      PROVE  ServingAccepts'
  <2>1. t \in DOMAIN io' /\ io'[t] = "accepting"
    BY <1>6 DEF HandleAccept, HandleAcceptError, Runs
  <2> QED
    BY <2>1
<1>7. ASSUME NEW t \in 1..MaxThreads, AcceptAgain(t)
      PROVE  ServingAccepts'
  BY <1>7 DEF AcceptAgain, Rearm
<1>10. ASSUME NEW t \in 1..MaxThreads, HandleAcceptThrows(t)
       PROVE  ServingAccepts'
  BY <1>2, <1>10 DEF HandleAcceptThrows
<1>8. ASSUME NEW f \in Files, StartCommand(f)
      PROVE  ServingAccepts'
  BY <1>2, <1>8 DEF StartCommand
<1>9. CASE Quit \/ RaiseToHandler \/ RaiseToSet \/ UNCHANGED vars
  BY <1>1, <1>2, <1>9 DEF Quit, RaiseToHandler, RaiseToSet, Destroyed, serverVars, vars
<1> QED
  BY <1>3, <1>4, <1>5, <1>6, <1>7, <1>8, <1>9, <1>10 DEF Next, IoThread

\* While a server serves and has not been told to stop, an accept is pending or
\* the handler of the last one is about to start it.
THEOREM ServingAcceptsHolds == Spec => []ServingAccepts
<1>1. Init => ServingAccepts
  BY DEF Init, ServingAccepts
<1> QED
  BY <1>1, AcceptStep, PTL DEF Spec

-----------------------------------------------------------------------------
(* The port.                                                               *)

\* For a document that is accepted: the port read through text is the one read
\* as a number, or the default where the text is no number.
LEMMA PortsAgree ==
    ASSUME NEW f \in Files, Accepts(f.doc), config = Loaded(f.doc)
    PROVE  /\ ServedPort = IF PortIsNoInt THEN 8080 ELSE config.settings.server.listen_port
           /\ ServedPort \in PortNumbers
<1>0. 8080 \in PortNumbers
  BY DEF PortNumbers, MaxPort
<1> DEFINE doc == f.doc
           port == Settings(doc).server.listen_port
<1>1. config.settings.server.listen_port = port /\ config.m_config_json = doc
  BY DEF Loaded
<1>2. port \in PortNumbers
  BY DEF Accepts, ValidateConfig, ValidateServerConfig
<1>3. "server" \in Sections /\ "listen_port" \in DOMAIN Defaults["server"]
  BY DEF Sections, Defaults
<1>4. port = IF Given(doc, "server", "listen_port")
             THEN Converted("server", "listen_port", doc["server"]["listen_port"])
             ELSE 8080
  <2>1. Defaults["server"]["listen_port"] = 8080
    BY DEF Defaults
  <2> QED
    BY <1>3, <2>1 DEF Settings
<1>5. CASE ~Given(doc, "server", "listen_port")
  BY <1>0, <1>1, <1>4, <1>5 DEF ServedPort, GetInt, PortIsNoInt
<1>6. CASE Given(doc, "server", "listen_port")
  <2>1. doc["server"]["listen_port"] # IllTyped
    BY <1>3, <1>6 DEF Accepts, WellTyped
  <2>2. CASE doc["server"]["listen_port"] = JsonTrue
    BY <1>0, <1>1, <1>6, <2>2 DEF ServedPort, GetInt, PortIsNoInt
  <2>3. CASE doc["server"]["listen_port"] # JsonTrue
    <3>1. port = doc["server"]["listen_port"] % 65536
      BY <1>4, <1>6, <2>3 DEF Converted, PortFields
    <3>2. ServedPort = doc["server"]["listen_port"] % 65536
      BY <1>1, <1>6, <2>1, <2>3 DEF ServedPort, GetInt
    <3> QED
      BY <1>1, <1>2, <2>3, <3>1, <3>2 DEF PortIsNoInt
  <2> QED
    BY <2>2, <2>3
<1> QED
  BY <1>5, <1>6 DEF Given

\* From the load on the configuration is that of an accepted document, and the
\* port of a server that was initialized comes from it.
PortInv ==
    /\ main = "loading" => file \in Files
    /\ main \in {"loaded", "created", "initialized", "starting", "registered", "serving"} =>
          \E f \in Files : Accepts(f.doc) /\ config = Loaded(f.doc)
    /\ main \in {"initialized", "starting", "registered", "serving"} =>
          m_listen_port = ServedPort

LEMMA PortStep ==
    ASSUME PortInv, [Next]_vars
    PROVE  PortInv'
<1> USE DEF PortInv
<1>1. CASE UNCHANGED <<file, config, m_listen_port>> /\ (UNCHANGED main \/ ~Alive')
  <2>1. UNCHANGED ServedPort
    BY <1>1 DEF ServedPort
  <2> QED
    BY <1>1, <2>1 DEF Alive
<1>2. CASE main' \in {"shell", "exited", "terminated"}
  BY <1>2
<1>3. ASSUME NEW f \in Files, StartCommand(f)
      PROVE  PortInv'
  BY <1>3 DEF StartCommand
<1>4. CASE LoadAccepted
  BY <1>4 DEF LoadAccepted
<1>5. CASE CreateServer
  BY <1>5 DEF CreateServer, configVars
<1>6. CASE Initialize
  <2>1. main' = "initialized" /\ config' = config /\ m_listen_port' = ServedPort
    BY <1>6 DEF Initialize, configVars
  <2>2. ServedPort' = ServedPort
    BY <2>1 DEF ServedPort
  <2> QED
    BY <1>6, <2>1, <2>2 DEF Initialize
<1>7. CASE Start \/ StartIoThread \/ RegisterSignalHandlers \/ StartAccept
  <2>1. /\ main \in {"initialized", "starting", "registered"}
        /\ main' \in {"starting", "registered", "serving"}
        /\ config' = config /\ m_listen_port' = m_listen_port
    BY <1>7 DEF Start, StartIoThread, RegisterSignalHandlers, StartAccept, configVars,
                serverVars
  <2>2. ServedPort' = ServedPort
    BY <2>1 DEF ServedPort
  <2> QED
    BY <2>1, <2>2
<1>8. CASE \/ LoadRejected \/ CreateServerTerminates \/ InitializeFails \/ StartFails
           \/ Wake \/ Quit \/ RaiseToHandler
  BY <1>2, <1>8 DEF LoadRejected, CreateServerTerminates, InitializeFails, StartFails,
                    Wake, Quit, RaiseToHandler, Destroyed, Return
<1>9. CASE RaiseToSet \/ UNCHANGED vars
  BY <1>1, <1>9 DEF RaiseToSet, configVars, serverVars, vars
<1>10. ASSUME NEW t \in 1..MaxThreads, IoThread(t)
       PROVE  PortInv'
  BY <1>1, <1>10 DEF IoThread, HandleSignal, StopCloses, HandleAccept,
                     HandleAcceptThrows, HandleAcceptError, AcceptAgain, configVars
<1> QED
  BY <1>3, <1>4, <1>5, <1>6, <1>7, <1>8, <1>9, <1>10 DEF Next, MainSteps

\* Whatever the file says, the port that is served is the one that was
\* validated, the default only where the document's is no number to stoi, and a
\* real one.
THEOREM ServedPortIsValidatedHolds == Spec => []ServedPortIsValidated
<1>1. Init => PortInv
  BY DEF Init, PortInv
<1>2. PortInv => ServedPortIsValidated
  BY PortsAgree DEF PortInv, ServedPortIsValidated
<1> QED
  BY <1>1, <1>2, PortStep, PTL DEF Spec

-----------------------------------------------------------------------------
(* Types, and who has the accept.                                          *)

\* A server that is being made has no threads, one that is being started none
\* in the handler of an accept, and signals come to its set only afterwards.
LifeInv ==
    /\ main \in {"created", "initialized"} => io = << >>
    /\ main \in {"created", "initialized", "starting", "registered"} =>
          accept = "none" /\ \A t \in DOMAIN io : io[t] # "accepting"
    /\ \/ main = "starting"
       \/ /\ main \in {"shell", "loading", "loaded", "created", "initialized"}
          /\ io = << >>
       => signals = "c_handler"
    /\ main = "starting" => m_running
    /\ main \in {"registered", "serving"} /\ ~m_running => io # << >>

ServerInv == TypeOK /\ PortInv /\ LifeInv

\* A server as its constructor leaves it: a port, and no threads.
LEMMA DefaultsTyped ==
    /\ 8080 \in PortNumbers
    /\ << >> \in Seq({"run", "stopping", "accepting", "returned"})
    /\ Len(<< >>) = 0 /\ DOMAIN << >> = {}
BY DEF PortNumbers, MaxPort

\* The threads of a server are started one by one; they do nothing yet, or run.
LEMMA ThreadAdded ==
    ASSUME TypeOK, StartIoThread
    PROVE  /\ io' \in Seq({"run", "stopping", "accepting", "returned"})
           /\ Len(io') = Len(io) + 1
           /\ \A t \in DOMAIN io' : \/ t \in DOMAIN io /\ io'[t] = io[t]
                                    \/ io'[t] \in {"run", "returned"}
<1> DEFINE state == IF HasWork THEN "run" ELSE "returned"
<1>1. io' = Append(io, state) /\ state \in {"run", "returned"}
  BY DEF StartIoThread
<1> HIDE DEF state
<1>2. io \in Seq({"run", "stopping", "accepting", "returned"})
  BY DEF TypeOK
<1> QED
  BY <1>1, <1>2

\* Only one thread at a time changes what it does.
LEMMA ThreadChanged ==
    ASSUME TypeOK, NEW t \in DOMAIN io,
           NEW state \in {"run", "stopping", "accepting"},
           io' = [io EXCEPT ![t] = state]
    PROVE  /\ io' \in Seq({"run", "stopping", "accepting", "returned"})
           /\ Len(io') = Len(io) /\ DOMAIN io' = DOMAIN io
           /\ io'[t] = state
           /\ \A v \in DOMAIN io \ {t} : io'[v] = io[v]
BY DEF TypeOK

\* What the files give a server is a number of threads.
LEMMA ThreadCountTyped ==
    ASSUME PortInv, main = "created"
    PROVE  ThreadCount \in Nat
<1>1. PICK f \in Files : config = Loaded(f.doc)
  BY DEF PortInv
<1>2. config.m_config_json = f.doc
  BY <1>1 DEF Loaded
<1>3. GetInt(f.doc, "server", "thread_count", DefaultThreadCount) \in Int
  BY GatewayServerAssumption DEF GatewayServerAssumption, GetInt
<1> QED
  BY <1>2, <1>3, GatewayServerAssumption DEF GatewayServerAssumption, ThreadCount

LEMMA MainStep ==
    ASSUME ServerInv, MainSteps
    PROVE  TypeOK' /\ LifeInv'
<1> USE GatewayServerAssumption DEF GatewayServerAssumption, ServerInv, TypeOK, LifeInv
<1>1. CASE LoadRejected \/ LoadAccepted
  BY <1>1 DEF LoadRejected, LoadAccepted, serverVars, PortInv
<1>2. CASE CreateServer
  <2>1. /\ io' = << >> /\ m_listen_port' = 8080 /\ m_total_connections' = 0
        /\ m_thread_count' = DefaultThreadCount /\ accept' = "none"
        /\ m_running' = FALSE /\ m_work_guard' = FALSE /\ m_acceptor' = "none"
        /\ main' = "created" /\ io = << >> /\ UNCHANGED <<file, signals>>
    BY <1>2 DEF CreateServer, NewServer, configVars
  <2>2. \A t \in DOMAIN io' : FALSE
    BY <2>1, DefaultsTyped
  <2>3. m_listen_port' \in PortNumbers \cup {0}
    BY <2>1, DefaultsTyped
  <2>4. io' \in Seq({"run", "stopping", "accepting", "returned"}) /\ Len(io') <= MaxThreads
    BY <2>1, DefaultsTyped
  <2>5. m_total_connections' \in 0..MaxConnections
    BY <2>1
  <2>6. TypeOK'
    <3>1. /\ main' = "created" /\ accept' = "none" /\ m_acceptor' = "none"
          /\ m_running' = FALSE /\ m_work_guard' = FALSE
          /\ m_thread_count' = DefaultThreadCount /\ UNCHANGED <<file, signals>>
      BY <2>1
    <3> QED
      BY <2>2, <2>3, <2>4, <2>5, <3>1
  <2>7. LifeInv'
    BY <1>2, <2>1, <2>2 DEF CreateServer
  <2> QED
    BY <2>6, <2>7
<1>3. CASE CreateServerTerminates
  BY <1>3 DEF CreateServerTerminates, Destroyed, configVars
<1>4. CASE Initialize \/ InitializeFails
  <2>1. ServedPort \in PortNumbers /\ ThreadCount \in Nat
    BY <1>4, PortsAgree, ThreadCountTyped DEF Initialize, InitializeFails, PortInv
  <2>2. CASE Initialize
    BY <2>1, <2>2 DEF Initialize, configVars
  <2>3. CASE InitializeFails
    BY <2>1, <2>3 DEF InitializeFails, Return
  <2> QED
    BY <1>4, <2>2, <2>3
<1>5. CASE Start
  BY <1>5 DEF Start, configVars
<1>6. CASE StartIoThread
  BY <1>6, ThreadAdded DEF StartIoThread, configVars
<1>7. CASE StartFails
  BY <1>7 DEF StartFails, Return
<1>8. CASE RegisterSignalHandlers
  <2>1. \A t \in DOMAIN io : io[t] # "stopping"
    BY <1>8 DEF RegisterSignalHandlers
  <2>2. m_running
    BY <1>8 DEF RegisterSignalHandlers
  <2> QED
    BY <1>8, <2>1, <2>2 DEF RegisterSignalHandlers, configVars, serverVars
<1>9. CASE StartAccept
  BY <1>9 DEF StartAccept, Rearm, configVars
<1>10. CASE Wake
  BY <1>10 DEF Wake, Return, serverVars
<1> QED
  BY <1>1, <1>2, <1>3, <1>4, <1>5, <1>6, <1>7, <1>8, <1>9, <1>10 DEF MainSteps

LEMMA IoStep ==
    ASSUME ServerInv, NEW t \in 1..MaxThreads, IoThread(t)
    PROVE  TypeOK' /\ LifeInv'
<1> USE DEF ServerInv, LifeInv
<1>1. CASE HandleSignal(t)
  <2> DEFINE state == IF m_running THEN "stopping" ELSE "run"
  <2>1. t \in DOMAIN io /\ io' = [io EXCEPT ![t] = state] /\ state \in {"run", "stopping"}
    BY <1>1 DEF HandleSignal, Runs
  <2> HIDE DEF state
  <2>2. /\ io' \in Seq({"run", "stopping", "accepting", "returned"})
        /\ Len(io') = Len(io) /\ DOMAIN io' = DOMAIN io
        /\ io'[t] = state
        /\ \A v \in DOMAIN io \ {t} : io'[v] = io[v]
    BY <2>1, ThreadChanged
  <2>3. \A v \in DOMAIN io : io[v] # "stopping"
    BY <1>1 DEF HandleSignal, TypeOK
  <2>4. \A v \in DOMAIN io' :
          /\ io'[v] = "accepting" => accept' = "none"
          /\ io'[v] = "stopping" => signals' = "handled" /\ ~m_running'
          /\ \A w \in DOMAIN io' :
                io'[v] = io'[w] /\ io'[v] # "run" => v = w \/ io'[v] = "returned"
    BY <1>1, <2>1, <2>2, <2>3 DEF HandleSignal, TypeOK
  <2>5. TypeOK'
    BY <1>1, <2>2, <2>4 DEF HandleSignal, TypeOK, configVars
  <2>6. LifeInv'
    BY <1>1, <2>1, <2>2 DEF HandleSignal, TypeOK, configVars
  <2> QED
    BY <2>5, <2>6
<1>2. CASE StopCloses(t)
  BY <1>2, ThreadChanged DEF StopCloses, TypeOK, configVars
<1>3. CASE HandleAccept(t)
  <2>1. t \in DOMAIN io /\ io' = [io EXCEPT ![t] = "accepting"]
    BY <1>3 DEF HandleAccept, Runs
  <2>2. /\ io' \in Seq({"run", "stopping", "accepting", "returned"})
        /\ Len(io') = Len(io) /\ DOMAIN io' = DOMAIN io
        /\ io'[t] = "accepting"
        /\ \A v \in DOMAIN io \ {t} : io'[v] = io[v]
    BY <2>1, ThreadChanged
  <2>3. \A v \in DOMAIN io : io[v] # "accepting"
    BY <1>3 DEF HandleAccept, TypeOK
  <2>4. m_total_connections' \in 0..MaxConnections
    BY <1>3, GatewayServerAssumption DEF HandleAccept, TypeOK, GatewayServerAssumption
  <2>5. TypeOK'
    BY <1>3, <2>1, <2>2, <2>3, <2>4 DEF HandleAccept, TypeOK, configVars
  <2>6. LifeInv'
    BY <1>3, <2>1, <2>2 DEF HandleAccept, TypeOK, configVars
  <2> QED
    BY <2>5, <2>6
<1>4. CASE HandleAcceptError(t)
  BY <1>4, ThreadChanged DEF HandleAcceptError, Runs, TypeOK, configVars
<1>5. CASE AcceptAgain(t)
  BY <1>5, ThreadChanged DEF AcceptAgain, Rearm, TypeOK, configVars
<1>6. CASE HandleAcceptThrows(t)
  <2>1. m_total_connections' \in 0..MaxConnections
    BY <1>6, GatewayServerAssumption DEF HandleAcceptThrows, TypeOK, GatewayServerAssumption
  <2> QED
    BY <1>6, <2>1 DEF HandleAcceptThrows, TypeOK, configVars
<1> QED
  BY <1>1, <1>2, <1>3, <1>4, <1>5, <1>6 DEF IoThread

LEMMA ServerInvStep ==
    ASSUME ServerInv, [Next]_vars
    PROVE  ServerInv'
<1> USE DEF ServerInv, TypeOK, LifeInv
<1>1. PortInv'
  BY PortStep
<1>2. CASE MainSteps
  BY <1>1, <1>2, MainStep
<1>3. ASSUME NEW t \in 1..MaxThreads, IoThread(t)
      PROVE  ServerInv'
  BY <1>1, <1>3, IoStep
<1>4. ASSUME NEW f \in Files, StartCommand(f)
      PROVE  ServerInv'
  BY <1>1, <1>4 DEF StartCommand, serverVars
<1>5. CASE Quit \/ RaiseToHandler
  BY <1>1, <1>5 DEF Quit, RaiseToHandler, Destroyed, configVars
<1>6. CASE RaiseToSet \/ UNCHANGED vars
  BY <1>1, <1>6 DEF RaiseToSet, configVars, serverVars, vars
<1> QED
  BY <1>2, <1>3, <1>4, <1>5, <1>6 DEF Next

\* Every reachable state is well typed; the accept is pending or in the handler
\* of one thread, and one thread at most is inside stop().
THEOREM TypeCorrect == Spec => []TypeOK
<1>1. Init => ServerInv
  <2> SUFFICES ASSUME Init PROVE ServerInv
    OBVIOUS
  <2>1. io = << >> /\ m_listen_port = 8080 /\ m_total_connections = 0
    BY DEF Init
  <2>2. \A t \in DOMAIN io : FALSE
    BY <2>1, DefaultsTyped
  <2>3. m_listen_port \in PortNumbers \cup {0}
    BY <2>1, DefaultsTyped
  <2>4. io \in Seq({"run", "stopping", "accepting", "returned"}) /\ Len(io) <= MaxThreads
    BY <2>1, DefaultsTyped, GatewayServerAssumption DEF GatewayServerAssumption
  <2>5. m_total_connections \in 0..MaxConnections
    BY <2>1, GatewayServerAssumption DEF GatewayServerAssumption
  <2>6. /\ main = "shell" /\ file = NoFile /\ accept = "none" /\ m_acceptor = "none"
        /\ m_running = FALSE /\ m_work_guard = FALSE
        /\ m_thread_count = DefaultThreadCount /\ signals = "c_handler"
    BY DEF Init
  <2> QED
    BY <2>2, <2>3, <2>4, <2>5, <2>6, GatewayServerAssumption
       DEF GatewayServerAssumption, ServerInv, TypeOK, PortInv, LifeInv
<1>2. ServerInv => TypeOK
  BY DEF ServerInv
<1> QED
  BY <1>1, <1>2, ServerInvStep, PTL DEF Spec

--------------------------------------------------------------------------
(* What is saved loads back.                                               *)

\* A finite set of natural numbers that is not empty has a greatest one.
LEMMA Greatest ==
    ASSUME NEW n \in Nat, NEW T, T \subseteq 1..n, T # {}
    PROVE  \E i \in T : \A j \in T : j <= i
<1> DEFINE D == {n - i : i \in T}
<1>1. D \subseteq Nat /\ D # {}
  <2>1. \A i \in T : n - i \in Nat
    OBVIOUS
  <2> QED
    BY <2>1, ZenonT(30)
<1>2. PICK d \in D : \A e \in D : ~(<<e, d>> \in OpToRel(<, Nat))
  <2> HIDE DEF D
  <2> QED
    BY <1>1, WFMin, NatLessThanWellFounded
<1>3. \A e \in D : ~(e < d)
  <2> HIDE DEF D
  <2> QED
    BY <1>1, <1>2 DEF OpToRel
<1>4. PICK i \in T : d = n - i
  OBVIOUS
<1>5. \A j \in T : ~(n - j < n - i)
  BY <1>3, <1>4
<1> QED
  BY <1>5

\* SetToSeq lists a finite set, every element at one place.
LEMMA Listing ==
    ASSUME NEW S, IsFiniteSet(S)
    PROVE  /\ Cardinality(S) \in Nat
           /\ SetToSeq(S) \in Bijection(1..Cardinality(S), S)
<1> DEFINE D == 1..Cardinality(S)
           sq == SetToSeq(S)
<1>1. Cardinality(S) \in Nat /\ ExistsBijection(D, S)
  BY FS_CardinalityType
<1>2. \E f \in [D -> S] : IsInjective(f)
  BY <1>1 DEF ExistsBijection, Bijection, Injection
<1>3. sq \in [D -> S] /\ IsInjective(sq)
  BY <1>2 DEF SetToSeq
<1>4. sq \in Injection(D, S)
  BY <1>3 DEF Injection
<1>5. Cardinality(D) = Cardinality(S)
  BY <1>1, FS_Interval
<1>6. sq \in Surjection(D, S)
  <2> HIDE DEF D, sq
  <2> QED
    BY <1>4, <1>5, FS_Injection
<1> QED
  BY <1>1, <1>4, <1>6 DEF Bijection

\* The services that are kept are among the first to the last of the list.
LEMMA PlacesAreNumbers ==
    ASSUME NEW doc, ListedServices(doc) \in Seq(Services)
    PROVE  /\ Len(ListedServices(doc)) \in Nat
           /\ ParsedServices(doc) \subseteq 1..Len(ListedServices(doc))
<1>1. DOMAIN ListedServices(doc) = 1..Len(ListedServices(doc)) /\ Len(ListedServices(doc)) \in Nat
  OBVIOUS
<1>2. ParsedServices(doc) \subseteq DOMAIN ListedServices(doc)
  BY DEF ParsedServices
<1> QED
  BY <1>1, <1>2

\* For a name that is kept there is a last service of that name.
LEMMA LastIsKept ==
    ASSUME NEW doc, ListedServices(doc) \in Seq(Services), NEW n,
           \E i \in ParsedServices(doc) : ListedServices(doc)[i].name = n
    PROVE  /\ LastNamed(doc, n) \in ParsedServices(doc)
           /\ ListedServices(doc)[LastNamed(doc, n)].name = n
<1> DEFINE list == ListedServices(doc)
           T == {i \in ParsedServices(doc) : list[i].name = n}
<1>1. Len(list) \in Nat /\ ParsedServices(doc) \subseteq 1..Len(list)
  BY PlacesAreNumbers
<1>2. T \subseteq 1..Len(list) /\ T # {}
  BY <1>1
<1>3. \E i \in T : \A j \in T : j <= i
  <2> HIDE DEF T
  <2> QED
    BY <1>1, <1>2, Greatest
<1>4. \E i \in ParsedServices(doc) :
        list[i].name = n /\ \A j \in ParsedServices(doc) : list[j].name = n => j <= i
  BY <1>3
<1> QED
  BY <1>4 DEF LastNamed

\* A service that is kept has a host, a real port and roles that are roles.
LEMMA KeptIsSound ==
    ASSUME NEW doc, ListedServices(doc) \in Seq(Services),
           NEW n \in DOMAIN ParseTargetServices(doc)
    PROVE  \E host, port, roles :
              /\ ParseTargetServices(doc)[n] = [host |-> host, port |-> port, roles |-> roles]
              /\ host # NoText /\ port \in PortNumbers /\ roles \subseteq Roles
<1> DEFINE last == ListedServices(doc)[LastNamed(doc, n)]
           roles == {StringToRole(r) : r \in last.roles}
<1>1. n \in {ListedServices(doc)[i].name : i \in ParsedServices(doc)}
  BY DEF ParseTargetServices
<1>2. \E i \in ParsedServices(doc) : ListedServices(doc)[i].name = n
  BY <1>1, Zenon
<1>3. LastNamed(doc, n) \in ParsedServices(doc)
  BY <1>2, LastIsKept
<1>4. IsComplete(last)
  BY <1>3 DEF ParsedServices
<1>5. ParseTargetServices(doc)[n] = [host |-> last.host, port |-> last.port, roles |-> roles]
  BY <1>1 DEF ParseTargetServices
<1>6. \A r : StringToRole(r) \in Roles
  BY DEF StringToRole, Roles
<1>7. roles \subseteq Roles
  BY <1>6, Zenon
<1>8. last.host # NoText /\ last.port \in PortNumbers
  BY <1>4 DEF IsComplete
<1> HIDE DEF last, roles
<1> QED
  BY <1>5, <1>7, <1>8

\* parse_target_services keeps finitely many services.
LEMMA FinitelyParsed ==
    ASSUME NEW doc, ListedServices(doc) \in Seq(Services)
    PROVE  IsFiniteSet(DOMAIN ParseTargetServices(doc))
<1> DEFINE list == ListedServices(doc)
           kept == ParsedServices(doc)
           names == {list[i].name : i \in kept}
<1>1. Len(list) \in Nat /\ kept \subseteq 1..Len(list)
  BY PlacesAreNumbers
<1>2. IsFiniteSet(kept)
  <2>1. IsFiniteSet(1..Len(list))
    BY <1>1, FS_Interval
  <2> HIDE DEF kept
  <2> QED
    BY <1>1, <2>1, FS_Subset
<1>3. [i \in kept |-> list[i].name] \in Surjection(kept, names)
  BY DEF Surjection
<1>4. DOMAIN ParseTargetServices(doc) = names
  BY DEF ParseTargetServices
<1> HIDE DEF kept, names
<1> QED
  BY <1>2, <1>3, <1>4, FS_Surjection

\* The services are saved as a list of all of them, in some order; it parses to
\* the same services.
LEMMA ServicesComeBack ==
    ASSUME NEW given, ListedServices(given) \in Seq(Services)
    PROVE  ParseTargetServices(SaveConfig(Loaded(given))) = ParseTargetServices(given)
<1> DEFINE P == ParseTargetServices(given)
           K == Cardinality(DOMAIN P)
           sq == SetToSeq(DOMAIN P)
           doc == SaveConfig(Loaded(given))
           list == ListedServices(doc)
           kept == ParsedServices(doc)
<1>1. K \in Nat /\ sq \in Bijection(1..K, DOMAIN P)
  BY FinitelyParsed, Listing
<1>2. /\ sq \in [1..K -> DOMAIN P]
      /\ \A i, j \in 1..K : sq[i] = sq[j] => i = j
      /\ \A n \in DOMAIN P : \E i \in 1..K : sq[i] = n
  BY <1>1 DEF Bijection, Injection, Surjection, IsInjective
<1>3. list = [i \in 1..K |-> [name |-> sq[i], host |-> P[sq[i]].host,
                              port |-> P[sq[i]].port, roles |-> P[sq[i]].roles]]
  BY DEF SaveConfig, ListedServices, Loaded, Sections, Defaults
<1>4. \A n \in DOMAIN P :
         /\ P[n] = [host |-> P[n].host, port |-> P[n].port, roles |-> P[n].roles]
         /\ P[n].host # NoText /\ P[n].port \in PortNumbers
         /\ P[n].roles \subseteq Roles
  <2> SUFFICES ASSUME NEW n \in DOMAIN P
               PROVE  /\ P[n] = [host |-> P[n].host, port |-> P[n].port, roles |-> P[n].roles]
                      /\ P[n].host # NoText /\ P[n].port \in PortNumbers
                      /\ P[n].roles \subseteq Roles
    OBVIOUS
  <2>1. PICK host, port, roles :
              /\ P[n] = [host |-> host, port |-> port, roles |-> roles]
              /\ host # NoText /\ port \in PortNumbers /\ roles \subseteq Roles
    BY KeptIsSound
  <2> HIDE DEF P
  <2> QED
    BY <2>1
<1>5. P = [n \in DOMAIN P |-> P[n]]
  BY DEF ParseTargetServices
<1>6. ParseTargetServices(doc) =
         [n \in {list[i].name : i \in kept} |->
            [host |-> list[LastNamed(doc, n)].host, port |-> list[LastNamed(doc, n)].port,
             roles |-> {StringToRole(r) : r \in list[LastNamed(doc, n)].roles}]]
  BY DEF ParseTargetServices
<1>7. kept = {i \in DOMAIN list : IsComplete(list[i])}
  BY DEF ParsedServices
<1>8. \A n : LastNamed(doc, n) = CHOOSE i \in kept :
                                   /\ list[i].name = n
                                   /\ \A j \in kept : list[j].name = n => j <= i
  BY DEF LastNamed
<1> HIDE DEF P, K, sq, doc, list, kept
<1>9. kept = 1..K
  <2>1. \A i \in 1..K : IsComplete(list[i])
    BY <1>2, <1>3, <1>4 DEF IsComplete
  <2> QED
    BY <1>3, <1>7, <2>1
<1>10. {list[i].name : i \in kept} = DOMAIN P
  <2>1. \A i \in kept : list[i].name = sq[i] /\ sq[i] \in DOMAIN P
    BY <1>2, <1>3, <1>9
  <2>2. \A n \in DOMAIN P : \E i \in kept : n = list[i].name
    BY <1>2, <1>9, <2>1
  <2> QED
    BY <2>1, <2>2, Zenon
<1>11. ASSUME NEW n \in DOMAIN P
       PROVE  /\ list[LastNamed(doc, n)].host = P[n].host
              /\ list[LastNamed(doc, n)].port = P[n].port
              /\ list[LastNamed(doc, n)].roles = P[n].roles
  <2>1. PICK i \in 1..K : sq[i] = n
    BY <1>2
  <2>2. \A j \in 1..K : list[j].name = n <=> j = i
    BY <1>2, <1>3, <2>1
  <2>3. i <= i
    BY <1>1
  <2>4. LastNamed(doc, n) = i
    <3>1. /\ i \in kept /\ list[i].name = n
          /\ \A j \in kept : list[j].name = n => j <= i
      BY <1>9, <2>2, <2>3
    <3>2. LastNamed(doc, n) \in kept /\ list[LastNamed(doc, n)].name = n
      BY <1>8, <3>1
    <3> QED
      BY <1>9, <2>2, <3>2
  <2> QED
    BY <1>3, <2>1, <2>4
<1>12. ASSUME NEW n \in DOMAIN P
       PROVE  {StringToRole(r) : r \in P[n].roles} = P[n].roles
  <2>1. \A r \in P[n].roles : StringToRole(r) = r
    BY <1>4 DEF StringToRole
  <2> QED
    BY <2>1
<1>13. ParseTargetServices(doc) =
         [n \in DOMAIN P |-> [host |-> P[n].host, port |-> P[n].port, roles |-> P[n].roles]]
  BY <1>6, <1>10, <1>11, <1>12
<1> QED
  BY <1>4, <1>5, <1>13 DEF P, doc

\* A number that is a port is not changed when it is cut to 16 bits.
LEMMA PortsFit ==
    ASSUME NEW port \in PortNumbers
    PROVE  port \in Int /\ port % 65536 = port
<1>1. MaxPort = 65535
  BY DEF MaxPort
<1>2. MaxPort \in Int
  BY <1>1
<1>3. port \in Int /\ 1 <= port /\ port <= MaxPort
  BY <1>2 DEF PortNumbers
<1> QED
  BY <1>1, <1>3

\* The settings of an accepted document are of the types of their fields, and
\* converting them again changes nothing.
LEMMA SettingsAreTyped ==
    ASSUME NEW given, Accepts(given), NEW s \in Sections, NEW f \in DOMAIN Defaults[s]
    PROVE  LET v == Settings(given)[s][f]
           IN  v \notin {IllTyped, JsonTrue} /\ Converted(s, f, v) = v
<1> DEFINE v == Settings(given)[s][f]
<1> SUFFICES v \notin {IllTyped, JsonTrue} /\ Converted(s, f, v) = v
  OBVIOUS
<1>1. v = IF Given(given, s, f) THEN Converted(s, f, given[s][f]) ELSE Defaults[s][f]
  BY DEF Settings
<1>2. Given(given, s, f) => given[s][f] # IllTyped
  BY DEF Accepts, WellTyped
<1>3. <<s, f>> \in PortFields => v \in PortNumbers
  <2>1. <<s, f>> \in PortFields =>
            \/ s = "server" /\ f = "listen_port"
            \/ s = "database" /\ f = "port"
    BY DEF PortFields
  <2>2. /\ Settings(given)["server"]["listen_port"] \in PortNumbers
        /\ Settings(given)["database"]["port"] \in PortNumbers
    BY DEF Accepts, ValidateConfig, ValidateServerConfig, ValidateDatabaseConfig
  <2> QED
    BY <2>1, <2>2
<1> HIDE DEF v
<1>4. CASE <<s, f>> \in PortFields
  <2>1. v \in Int /\ v % 65536 = v
    BY <1>3, <1>4, PortsFit
  <2>2. v \notin {IllTyped, JsonTrue}
    BY <2>1, ConfigManagerAssumption DEF ConfigManagerAssumption
  <2> QED
    BY <1>4, <2>1, <2>2 DEF Converted
<1>5. CASE <<s, f>> \notin PortFields
  <2>1. CASE Given(given, s, f) /\ given[s][f] = JsonTrue
    <3>1. v = 1
      BY <1>1, <2>1 DEF Converted
    <3> QED
      BY <1>5, <3>1, ConfigManagerAssumption DEF ConfigManagerAssumption, Converted
  <2>2. CASE Given(given, s, f) /\ given[s][f] # JsonTrue
    BY <1>1, <1>2, <1>5, <2>2 DEF Converted
  <2>3. CASE ~Given(given, s, f)
    BY <1>1, <1>5, <2>3, ConfigManagerAssumption DEF ConfigManagerAssumption, Converted
  <2> QED
    BY <2>1, <2>2, <2>3
<1> QED
  BY <1>4, <1>5

\* What is saved has every field of every section, of its type, and is read as
\* the settings it was written from.
LEMMA SettingsComeBack ==
    ASSUME NEW given, Accepts(given)
    PROVE  LET doc == SaveConfig(Loaded(given))
           IN  WellTyped(doc) /\ Settings(doc) = Settings(given)
<1> DEFINE doc == SaveConfig(Loaded(given))
<1>1. \A s \in Sections : s \in DOMAIN doc /\ doc[s] = Settings(given)[s]
  BY DEF SaveConfig, Loaded
<1>2. \A s \in Sections : DOMAIN Settings(given)[s] = DOMAIN Defaults[s]
  BY DEF Settings
<1>3. \A d : /\ Settings(d) = [s \in Sections |-> Settings(d)[s]]
             /\ \A s \in Sections :
                   Settings(d)[s] = [f \in DOMAIN Defaults[s] |-> Settings(d)[s][f]]
  BY DEF Settings
<1>4. \A s \in Sections : \A f \in DOMAIN Defaults[s] :
         Given(doc, s, f) => Settings(doc)[s][f] = Converted(s, f, doc[s][f])
  BY DEF Settings
<1> HIDE DEF doc
<1>5. ASSUME NEW s \in Sections, NEW f \in DOMAIN Defaults[s]
      PROVE  /\ Given(doc, s, f) /\ doc[s][f] # IllTyped
             /\ Converted(s, f, doc[s][f]) = Settings(given)[s][f]
  <2>1. Given(doc, s, f) /\ doc[s][f] = Settings(given)[s][f]
    BY <1>1, <1>2 DEF Given
  <2> QED
    BY <2>1, SettingsAreTyped
<1>6. WellTyped(doc)
  BY <1>5 DEF WellTyped
<1>7. Settings(doc) = Settings(given)
  <2>1. ASSUME NEW s \in Sections
        PROVE  Settings(doc)[s] = Settings(given)[s]
    <3>1. \A f \in DOMAIN Defaults[s] : Settings(doc)[s][f] = Settings(given)[s][f]
      BY <1>4, <1>5
    <3>2. /\ Settings(doc)[s] = [f \in DOMAIN Defaults[s] |-> Settings(doc)[s][f]]
          /\ Settings(given)[s] = [f \in DOMAIN Defaults[s] |-> Settings(given)[s][f]]
      BY <1>3
    <3> QED
      BY <3>1, <3>2
  <2>2. /\ Settings(doc) = [s \in Sections |-> Settings(doc)[s]]
        /\ Settings(given) = [s \in Sections |-> Settings(given)[s]]
    BY <1>3
  <2> QED
    BY <2>1, <2>2
<1> QED
  BY <1>6, <1>7 DEF doc

\* A configuration is that of a document which was accepted.
ConfigInv ==
    /\ main = "loading" => file \in Files
    /\ config # NoConfig => \E f \in Files : Accepts(f.doc) /\ config = Loaded(f.doc)

LEMMA ConfigStep ==
    ASSUME ConfigInv, [Next]_vars
    PROVE  ConfigInv'
<1> USE DEF ConfigInv
<1>1. CASE UNCHANGED config /\ (main' = "loading" => UNCHANGED <<main, file>>)
  BY <1>1
<1>2. CASE main' # "loading" /\ config' = NoConfig
  BY <1>2
<1>3. ASSUME NEW f \in Files, StartCommand(f)
      PROVE  ConfigInv'
  BY <1>3 DEF StartCommand
<1>4. CASE LoadAccepted
  BY <1>4 DEF LoadAccepted
<1>5. CASE StartFails \/ Wake \/ InitializeFails
  BY <1>2, <1>5 DEF StartFails, Wake, InitializeFails, Return
<1>6. CASE \/ LoadRejected \/ CreateServer \/ CreateServerTerminates \/ Initialize
           \/ Start \/ StartIoThread \/ RegisterSignalHandlers \/ StartAccept
  BY <1>1, <1>6 DEF LoadRejected, CreateServer, CreateServerTerminates, Destroyed,
                    Initialize, Start, StartIoThread, RegisterSignalHandlers, StartAccept,
                    configVars
<1>7. CASE Quit \/ RaiseToHandler \/ RaiseToSet \/ UNCHANGED vars
  BY <1>1, <1>7 DEF Quit, RaiseToHandler, RaiseToSet, Destroyed, configVars, vars
<1>8. ASSUME NEW t \in 1..MaxThreads, IoThread(t)
      PROVE  ConfigInv'
  BY <1>1, <1>8 DEF IoThread, HandleSignal, StopCloses, HandleAccept,
                    HandleAcceptThrows, HandleAcceptError, AcceptAgain, configVars
<1> QED
  BY <1>3, <1>4, <1>5, <1>6, <1>7, <1>8 DEF Next, MainSteps

\* Whatever document was accepted, the one save_config writes is accepted by a
\* new manager, and gives it the same settings and the same services.
THEOREM SavedLoadsBackHolds == Spec => []SavedLoadsBack
<1>1. Init => ConfigInv
  BY DEF Init, ConfigInv
<1>2. ConfigInv => SavedLoadsBack
  <2> SUFFICES ASSUME ConfigInv, config # NoConfig
               PROVE  LET doc == SaveConfig(config)
                      IN  /\ Accepts(doc)
                          /\ Loaded(doc).settings = config.settings
                          /\ Loaded(doc).services = config.services
    BY DEF SavedLoadsBack
  <2>1. PICK f \in Files : Accepts(f.doc) /\ config = Loaded(f.doc)
    BY DEF ConfigInv
  <2> DEFINE doc == SaveConfig(config)
  <2>2. ListedServices(f.doc) \in Seq(Services)
    BY GatewayServerAssumption DEF GatewayServerAssumption
  <2>3. ParseTargetServices(doc) = ParseTargetServices(f.doc)
    BY <2>1, <2>2, ServicesComeBack
  <2>4. WellTyped(doc) /\ Settings(doc) = Settings(f.doc)
    BY <2>1, SettingsComeBack
  <2> HIDE DEF doc
  <2>5. Accepts(doc)
    BY <2>1, <2>3, <2>4 DEF Accepts
  <2>6. /\ Loaded(doc).settings = Loaded(f.doc).settings
        /\ Loaded(doc).services = Loaded(f.doc).services
    BY <2>3, <2>4 DEF Loaded
  <2> QED
    BY <2>1, <2>5, <2>6 DEF doc
<1> QED
  BY <1>1, <1>2, ConfigStep, PTL DEF Spec
=============================================================================
