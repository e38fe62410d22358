--------------------------- MODULE AppServerProofs ---------------------------
(***************************************************************************)
(* Proofs about AppServer, for any number of callers: the process exits 0  *)
(* only after its container stopped, or on an interrupt of its main        *)
(* thread; at most one container is started, however restarts overlap;     *)
(* and a server whose restarts and shutdowns were orderly serves or has    *)
(* released everything; a server that was stopped in time, or shut down    *)
(* gracefully while it ran, ends its process.                              *)
(***************************************************************************)
EXTENDS AppServer, TLAPS

(* Where each thread may be, and how far start is.                         *)

Starting == {"configure", "connect", "attach", "startup", "latch", "declare"}

PlaceInv ==
  /\ pc[Main] \in StartSteps \cup {"gone", "woken"}
  /\ \A t \in Stoppers : pc[t] \in {"out"} \cup RestartSteps \cup ShutdownSteps
  /\ pc[Main] \in Starting => serverState = "INITIALIZING"
  /\ serverState = "INITIALIZING" => counted = {} /\ \A t \in Stoppers : pc[t] = "out"
  /\ process = "up" /\ serverState = "INITIALIZING" => pc[Main] \in Starting
  /\ pc[Main] \in {"configure", "connect"} => server = 0
  /\ pc[Main] \in {"attach", "startup", "latch", "declare"} => server = 1
  /\ process = "up" /\ pc[Main] \notin {"configure", "connect"} => server > 0
  /\ serverState # "INITIALIZING" \/ pc[Main] = "declare" => shutdownLatch > 0
  /\ process = "exit0" /\ pc[Main] # "woken" => awaited \in counted

\* The Server of start has stopped once a thread has got past its stop: the
\* latch is counted down, and another Server made, only after that.
PastStop == {"r.count", "r.connect", "r.attach", "r.startup", "r.latch",
             "s.detach", "s.declare", "s.count"}

FirstInv ==
  /\ pc[Main] \in {"latch", "declare"} => jetty[1] = "started"
  /\ serverState # "INITIALIZING" => jetty[1] \in {"started", "stopped", "failed"}
  /\ server > 1 => jetty[1] = "stopped"
  /\ counted # {} => jetty[1] = "stopped"
  /\ \A t \in Stoppers :
       /\ pc[t] \in PastStop => jetty[1] = "stopped"
       /\ pc[t] \in {"r.attach", "r.startup", "r.latch"} => server > 1

IInv == TypeOK /\ PlaceInv /\ FirstInv

(* The container, the delegates and the latch of an orderly server.        *)

Serving == jetty[server] = "started" /\ port = server
Down == jetty[server] = "stopped" /\ port = 0
Joined == jetty[server] = "connected" /\ port = server
Released == delegate = "null" /\ apiProxyLocal = "null"
Live == apiClient = "open" /\ {apiProxyLocal, delegate, attached} = {"proxy"}

\* Before start has returned.
StartInv ==
  /\ pc[Main] \in {"attach", "startup"} => Joined
  /\ pc[Main] \in {"startup", "latch", "declare"} => Live
  /\ pc[Main] \in {"latch", "declare"} => Serving

\* While t restarts, it is alone.
RestartInv == \A t \in Stoppers : Restarting(t) =>
  /\ \A u \in Stoppers \ {t} : ~Inside(u)
  /\ serverState = "RUNNING" /\ Live
  /\ pc[t] \in {"r.stop", "r.latch"} => Serving
  /\ pc[t] \in {"r.count", "r.connect"} => Down
  /\ pc[t] \in {"r.attach", "r.startup"} => Joined
  /\ pc[t] = "r.stop" => shutdownLatch \notin counted

\* Any number of threads may shut the server down.
ShutdownInv ==
  /\ \A t \in Stoppers :
       /\ pc[t] \in ShutdownSteps => serverState # "INITIALIZING"
       /\ pc[t] \in {"s.detach", "s.declare", "s.count", "s.close"} => Down
       /\ pc[t] \in {"s.declare", "s.count", "s.close"} => Released
       /\ pc[t] \in {"s.count", "s.close"} => serverState = "SHUTDOWN"
       /\ pc[t] = "s.close" => shutdownLatch \in counted
  /\ serverState = "RUNNING" =>
       \/ Serving /\ Live /\ shutdownLatch \notin counted
       \/ \E t \in Stoppers : Restarting(t) \/ pc[t] \in {"s.detach", "s.declare"}
  /\ serverState = "SHUTDOWN" =>
       /\ Down /\ Released
       /\ shutdownLatch \in counted \/ \E t \in Stoppers : pc[t] = "s.count"
       /\ apiClient = "closed" \/ \E t \in Stoppers : pc[t] \in {"s.count", "s.close"}

OldStopped ==
  \A s \in Servers : s # server => jetty[s] = IF s < server THEN "stopped" ELSE "none"

OrderlyInv == orderly =>
  StartInv /\ RestartInv /\ ShutdownInv /\ OldStopped

-----------------------------------------------------------------------------
(* IInv is inductive, without any word about orderly servers.              *)

\* It holds before start.
LEMMA Initial == Init => IInv
<1> SUFFICES ASSUME Init PROVE IInv
  OBVIOUS
<1>1. TypeOK
  BY BoundAssumption DEF Init, TypeOK, States, JettyStates, StartSteps, Servers
<1>2. /\ pc[Main] = "configure" /\ \A t \in Stoppers : pc[t] = "out"
      /\ serverState = "INITIALIZING" /\ server = 0 /\ process = "up" /\ counted = {}
  BY ThreadAssumption DEF Init, Stoppers, Threads
<1>3. PlaceInv
  BY <1>2 DEF PlaceInv, StartSteps, Starting
<1>4. FirstInv
  BY <1>2 DEF FirstInv, PastStop
<1> QED
  BY <1>1, <1>3, <1>4 DEF IInv

\* What a step does to the places of the threads.
Places == {"out", "gone", "woken"} \cup StartSteps \cup RestartSteps \cup ShutdownSteps

MainMoves(from, to) ==
  /\ process = "up" /\ pc[Main] = from
  /\ pc' \in [Threads -> Places]
  /\ pc'[Main] = to /\ \A u \in Stoppers : pc'[u] = pc[u]

Moves(t, from, to) ==
  /\ process = "up" /\ pc[t] = from
  /\ pc' \in [Threads -> Places]
  /\ pc'[Main] = pc[Main]
  /\ pc'[t] = to /\ \A u \in Stoppers : u # t => pc'[u] = pc[u]

\* The moves are what Goes says.
LEMMA MainGoes ==
  ASSUME TypeOK, NEW from, NEW to \in Places, Goes(Main, from, to)
  PROVE  MainMoves(from, to)
BY ThreadAssumption DEF Goes, TypeOK, Places, Threads, Stoppers, MainMoves

\* The same for a thread that restarts or shuts down.
LEMMA StopperGoes ==
  ASSUME TypeOK, NEW t \in Stoppers, NEW from, NEW to \in Places, Goes(t, from, to)
  PROVE  Moves(t, from, to)
BY ThreadAssumption DEF Goes, TypeOK, Places, Threads, Stoppers, Moves

\* The steps of Main preserve IInv.
LEMMA StartPreserves ==
  ASSUME IInv, StartStep \/ ExitInterrupted
  PROVE  IInv'
<1> USE BoundAssumption DEF IInv, container, api, latches, MainMoves, Moves, Places,
       Starting, StartSteps, Servers
<1>1. CASE Configure
  <2>1. MainMoves("configure", "connect")
    BY <1>1, MainGoes DEF Configure
  <2>2. TypeOK'
    BY <1>1, <2>1 DEF Configure, TypeOK, PlaceInv, States, JettyStates
  <2>3. PlaceInv'
    BY <1>1, <2>1 DEF Configure, TypeOK, PlaceInv
  <2>4. FirstInv'
    BY <1>1, <2>1 DEF Configure, TypeOK, PlaceInv, FirstInv, PastStop
  <2> QED
    BY <2>2, <2>3, <2>4
<1>2. CASE StartConnect
  <2>1. MainMoves("connect", "attach")
    BY <1>2, MainGoes DEF StartConnect
  <2>2. TypeOK'
    BY <1>2, <2>1 DEF StartConnect, Connect, TypeOK, PlaceInv, States, JettyStates
  <2>3. PlaceInv'
    BY <1>2, <2>1 DEF StartConnect, Connect, TypeOK, PlaceInv
  <2>4. jetty \in [Servers -> JettyStates] /\ server \in 0..MaxServers
    BY DEF TypeOK
  <2>5. FirstInv'
    BY <1>2, <2>1, <2>4 DEF StartConnect, Connect, PlaceInv, FirstInv, PastStop
  <2> QED
    BY <2>2, <2>3, <2>5
<1>3. CASE StartConnectFails
  <2>1. MainMoves("connect", "gone")
    BY <1>3, MainGoes DEF StartConnectFails
  <2>2. TypeOK'
    BY <1>3, <2>1 DEF StartConnectFails, ConnectFails, TypeOK, PlaceInv, States,
        JettyStates
  <2>3. PlaceInv'
    BY <1>3, <2>1 DEF StartConnectFails, ConnectFails, TypeOK, PlaceInv
  <2>4. jetty \in [Servers -> JettyStates] /\ server \in 0..MaxServers
    BY DEF TypeOK
  <2>5. FirstInv'
    BY <1>3, <2>1, <2>4 DEF StartConnectFails, ConnectFails, PlaceInv, FirstInv,
        PastStop
  <2> QED
    BY <2>2, <2>3, <2>5
<1>4. CASE Attach
  <2>1. MainMoves("attach", "startup")
    BY <1>4, MainGoes DEF Attach
  <2>2. TypeOK'
    BY <1>4, <2>1 DEF Attach, TypeOK, PlaceInv, States, JettyStates
  <2>3. PlaceInv'
    BY <1>4, <2>1 DEF Attach, TypeOK, PlaceInv
  <2>4. FirstInv'
    BY <1>4, <2>1 DEF Attach, TypeOK, PlaceInv, FirstInv, PastStop
  <2> QED
    BY <2>2, <2>3, <2>4
<1>5. CASE StartStartup
  <2>1. MainMoves("startup", "latch")
    BY <1>5, MainGoes DEF StartStartup
  <2>2. TypeOK'
    BY <1>5, <2>1 DEF StartStartup, Startup, TypeOK, PlaceInv, States, JettyStates
  <2>3. PlaceInv'
    BY <1>5, <2>1 DEF StartStartup, Startup, TypeOK, PlaceInv
  <2>4. jetty \in [Servers -> JettyStates] /\ server \in 0..MaxServers
    BY DEF TypeOK
  <2>5. FirstInv'
    BY <1>5, <2>1, <2>4 DEF StartStartup, Startup, PlaceInv, FirstInv, PastStop
  <2> QED
    BY <2>2, <2>3, <2>5
<1>6. CASE StartThrows
  <2>1. /\ \/ MainMoves("configure", "gone") /\ UNCHANGED <<container, api>>
           \/ MainMoves("connect", "gone") /\ ConnectThrows /\ UNCHANGED api
           \/ MainMoves("attach", "gone") /\ AttachThrows /\ UNCHANGED container
           \/ MainMoves("startup", "gone") /\ (StartupFails \/ Startup) /\ UNCHANGED api
        /\ process' = "exit1" /\ UNCHANGED <<serverState, latches, scheduled, orderly>>
    BY <1>6, MainGoes DEF StartThrows
  <2>2. /\ server \in 0..MaxServers /\ port \in 0..server /\ jetty \in [Servers -> JettyStates]
        /\ port # 0 => jetty[port] \in {"connected", "started", "failed"}
        /\ pc[Main] = "connect" => server = 0
        /\ pc[Main] = "startup" => server = 1
    BY DEF TypeOK, PlaceInv
  <2>3. /\ server' \in 0..MaxServers /\ port' \in 0..server'
        /\ jetty' \in [Servers -> JettyStates]
        /\ port' # 0 => jetty'[port'] \in {"connected", "started", "failed"}
        /\ server' > 1 => server > 1
        /\ jetty[1] = "stopped" => jetty'[1] = "stopped" \/ pc[Main] \in {"connect", "startup"}
    BY <2>1, <2>2 DEF ConnectThrows, ConnectFails, StartupFails, Startup, JettyStates
  <2>4. /\ apiClient' \in {"none", "open", "closed"}
        /\ {apiProxyLocal', delegate', attached'} \subseteq {"null", "proxy"}
    BY <2>1 DEF AttachThrows, TypeOK
  <2>5. TypeOK'
    BY <2>1, <2>3, <2>4 DEF TypeOK
  <2>6. serverState = "INITIALIZING" /\ counted = {} /\ \A t \in Stoppers : pc[t] = "out"
    BY <2>1 DEF PlaceInv
  <2>7. PlaceInv' /\ FirstInv'
    BY <2>1, <2>2, <2>3, <2>6 DEF PlaceInv, FirstInv, PastStop
  <2> QED
    BY <2>5, <2>7
<1>7. CASE StartLatch
  <2>1. MainMoves("latch", "declare")
    BY <1>7, MainGoes DEF StartLatch
  <2>2. TypeOK'
    BY <1>7, <2>1 DEF StartLatch, NewLatch, TypeOK, PlaceInv, States, JettyStates
  <2>3. PlaceInv'
    BY <1>7, <2>1 DEF StartLatch, NewLatch, TypeOK, PlaceInv
  <2>4. FirstInv'
    BY <1>7, <2>1 DEF StartLatch, NewLatch, TypeOK, PlaceInv, FirstInv, PastStop
  <2> QED
    BY <2>2, <2>3, <2>4
<1>8. CASE StartDeclare
  <2>1. MainMoves("declare", "return")
    BY <1>8, MainGoes DEF StartDeclare
  <2>2. TypeOK'
    BY <1>8, <2>1 DEF StartDeclare, TypeOK, PlaceInv, States, JettyStates
  <2>3. PlaceInv'
    BY <1>8, <2>1 DEF StartDeclare, TypeOK, PlaceInv
  <2>4. FirstInv'
    BY <1>8, <2>1 DEF StartDeclare, TypeOK, PlaceInv, FirstInv, PastStop
  <2> QED
    BY <2>2, <2>3, <2>4
<1>9. CASE StartReturn
  <2>1. MainMoves("return", "await")
    BY <1>9, MainGoes DEF StartReturn
  <2>2. TypeOK'
    BY <1>9, <2>1 DEF StartReturn, TypeOK, PlaceInv, States, JettyStates
  <2>3. PlaceInv'
    BY <1>9, <2>1 DEF StartReturn, TypeOK, PlaceInv
  <2>4. FirstInv'
    BY <1>9, <2>1 DEF StartReturn, TypeOK, PlaceInv, FirstInv, PastStop
  <2> QED
    BY <2>2, <2>3, <2>4
<1>10. CASE Exit
  <2>1. MainMoves("await", "gone")
    BY <1>10, MainGoes DEF Exit
  <2>2. TypeOK'
    BY <1>10, <2>1 DEF Exit, TypeOK, PlaceInv, States, JettyStates
  <2>3. PlaceInv'
    BY <1>10, <2>1 DEF Exit, TypeOK, PlaceInv
  <2>4. FirstInv'
    BY <1>10, <2>1 DEF Exit, TypeOK, PlaceInv, FirstInv, PastStop
  <2> QED
    BY <2>2, <2>3, <2>4
<1>11. CASE ExitInterrupted
  <2>1. \/ MainMoves("await", "woken") /\ UNCHANGED container
        \/ MainMoves("startup", "woken") /\ StartupFails
    BY <1>11, MainGoes DEF ExitInterrupted
  <2>2. TypeOK'
    BY <1>11, <2>1 DEF ExitInterrupted, StartupFails, TypeOK, PlaceInv, States, JettyStates
  <2>3. PlaceInv'
    BY <1>11, <2>1 DEF ExitInterrupted, StartupFails, TypeOK, PlaceInv
  <2>4. jetty \in [Servers -> JettyStates] /\ server \in 0..MaxServers
    BY DEF TypeOK
  <2>5. FirstInv'
    BY <1>11, <2>1, <2>4 DEF ExitInterrupted, StartupFails, PlaceInv, FirstInv, PastStop
  <2> QED
    BY <2>2, <2>3, <2>5
<1> QED
  BY <1>1, <1>2, <1>3, <1>4, <1>5, <1>6, <1>7, <1>8, <1>9, <1>10, <1>11 DEF StartStep

\* The steps of restart() preserve it.
LEMMA RestartPreserves ==
  ASSUME IInv, NEW t \in Stoppers, RestartStep(t)
  PROVE  IInv'
<1> USE BoundAssumption DEF IInv, container, api, latches, MainMoves, Moves, Places,
       Starting, RestartSteps, Servers
<1>1. CASE RestartStop(t)
  <2>1. Moves(t, "r.stop", "r.count")
    BY <1>1, StopperGoes DEF RestartStop
  <2>2. TypeOK'
    BY <1>1, <2>1 DEF RestartStop, Stop, Stoppable, Stopped, TypeOK, PlaceInv, States,
        JettyStates
  <2>3. PlaceInv'
    BY <1>1, <2>1 DEF RestartStop, Stop, Stoppable, Stopped, TypeOK, PlaceInv,
        StartSteps
  <2>4. FirstInv'
    BY <1>1, <2>1 DEF RestartStop, Stop, Stoppable, Stopped, TypeOK, PlaceInv, FirstInv,
        PastStop
  <2> QED
    BY <2>2, <2>3, <2>4
<1>2. CASE RestartThrows(t)
  <2>1. \/ Moves(t, "r.stop", "out")
        \/ Moves(t, "r.connect", "out")
        \/ Moves(t, "r.startup", "out")
    BY <1>2, StopperGoes DEF RestartThrows
  <2>2. TypeOK'
    <3>1. /\ server' \in 0..MaxServers /\ port' \in 0..server'
          /\ jetty' \in [Servers -> JettyStates]
          /\ port' # 0 => jetty'[port'] \in {"connected", "started", "failed"}
      <4>1. /\ server \in 0..MaxServers /\ port \in 0..server
            /\ jetty \in [Servers -> JettyStates]
            /\ port # 0 => jetty[port] \in {"connected", "started", "failed"}
            /\ server > 0
        BY <2>1 DEF TypeOK, PlaceInv
      <4> QED
        BY <1>2, <4>1 DEF RestartThrows, StopFails, Stoppable, Stopped, ConnectThrows,
            ConnectFails, StartupFails, JettyStates
    <3> QED
      BY <1>2, <2>1, <3>1 DEF RestartThrows, TypeOK
  <2>3. PlaceInv'
    BY <1>2, <2>1 DEF RestartThrows, StopFails, Stoppable, Stopped, ConnectThrows,
        ConnectFails, StartupFails, TypeOK, PlaceInv, StartSteps
  <2>4. jetty \in [Servers -> JettyStates] /\ server \in 0..MaxServers
    BY DEF TypeOK
  <2>5. \/ /\ jetty'[1] = jetty[1]
           /\ server' > 1 => server > 1 \/ jetty[1] = "stopped"
           /\ server > 1 => server' > 1
        \/ jetty[1] \in {"started", "failed"} /\ jetty'[1] = "failed" /\ server' = server
    <3>1. /\ server > 0
          /\ pc[t] = "r.connect" => jetty[1] = "stopped"
          /\ pc[t] = "r.startup" => server > 1
      BY <2>1 DEF PlaceInv, FirstInv, PastStop
    <3> QED
      BY <1>2, <2>4, <3>1 DEF RestartThrows, StopFails, Stoppable, Stopped,
          ConnectThrows, ConnectFails, StartupFails, Goes
  <2>6. serverState' = serverState /\ counted' = counted
    BY <1>2 DEF RestartThrows
  <2>7. FirstInv'
    BY <2>1, <2>4, <2>5, <2>6 DEF PlaceInv, FirstInv, PastStop
  <2> QED
    BY <2>2, <2>3, <2>7
<1>3. CASE RestartCount(t)
  <2>1. Moves(t, "r.count", "r.connect")
    BY <1>3, StopperGoes DEF RestartCount
  <2>2. TypeOK'
    BY <1>3, <2>1 DEF RestartCount, TypeOK, PlaceInv, States, JettyStates
  <2>3. PlaceInv'
    BY <1>3, <2>1 DEF RestartCount, TypeOK, PlaceInv, StartSteps
  <2>4. FirstInv'
    BY <1>3, <2>1 DEF RestartCount, TypeOK, PlaceInv, FirstInv, PastStop
  <2> QED
    BY <2>2, <2>3, <2>4
<1>4. CASE RestartConnect(t)
  <2>1. Moves(t, "r.connect", "r.attach")
    BY <1>4, StopperGoes DEF RestartConnect
  <2>2. TypeOK'
    BY <1>4, <2>1 DEF RestartConnect, Connect, TypeOK, PlaceInv, States, JettyStates
  <2>3. PlaceInv'
    BY <1>4, <2>1 DEF RestartConnect, Connect, TypeOK, PlaceInv, StartSteps
  <2>4. FirstInv'
    BY <1>4, <2>1 DEF RestartConnect, Connect, TypeOK, PlaceInv, FirstInv, PastStop
  <2> QED
    BY <2>2, <2>3, <2>4
<1>5. CASE RestartAttach(t)
  <2>1. Moves(t, "r.attach", "r.startup")
    BY <1>5, StopperGoes DEF RestartAttach
  <2>2. TypeOK'
    BY <1>5, <2>1 DEF RestartAttach, TypeOK, PlaceInv, States, JettyStates
  <2>3. PlaceInv'
    BY <1>5, <2>1 DEF RestartAttach, TypeOK, PlaceInv, StartSteps
  <2>4. FirstInv'
    BY <1>5, <2>1 DEF RestartAttach, TypeOK, PlaceInv, FirstInv, PastStop
  <2> QED
    BY <2>2, <2>3, <2>4
<1>6. CASE RestartStartup(t)
  <2>1. Moves(t, "r.startup", "r.latch")
    BY <1>6, StopperGoes DEF RestartStartup
  <2>2. TypeOK'
    <3>1. /\ server' \in 0..MaxServers /\ port' \in 0..server'
          /\ jetty' \in [Servers -> JettyStates]
          /\ port' # 0 => jetty'[port'] \in {"connected", "started", "failed"}
      <4>1. /\ server \in 0..MaxServers /\ port \in 0..server
            /\ jetty \in [Servers -> JettyStates]
            /\ port # 0 => jetty[port] \in {"connected", "started", "failed"}
            /\ server > 0
        BY <2>1 DEF TypeOK, PlaceInv
      <4> QED
        BY <1>6, <4>1 DEF RestartStartup, Startup, JettyStates
    <3> QED
      BY <1>6, <2>1, <3>1 DEF RestartStartup, TypeOK
  <2>3. PlaceInv'
    BY <1>6, <2>1 DEF RestartStartup, Startup, TypeOK, PlaceInv, StartSteps
  <2>4. FirstInv'
    BY <1>6, <2>1 DEF RestartStartup, Startup, TypeOK, PlaceInv, FirstInv, PastStop
  <2> QED
    BY <2>2, <2>3, <2>4
<1>7. CASE RestartLatch(t)
  <2>1. Moves(t, "r.latch", "out")
    BY <1>7, StopperGoes DEF RestartLatch
  <2>2. TypeOK'
    BY <1>7, <2>1 DEF RestartLatch, NewLatch, TypeOK, PlaceInv, States, JettyStates
  <2>3. PlaceInv'
    BY <1>7, <2>1 DEF RestartLatch, NewLatch, TypeOK, PlaceInv, StartSteps
  <2>4. FirstInv'
    BY <1>7, <2>1 DEF RestartLatch, NewLatch, TypeOK, PlaceInv, FirstInv, PastStop
  <2> QED
    BY <2>2, <2>3, <2>4
<1> QED
  BY <1>1, <1>2, <1>3, <1>4, <1>5, <1>6, <1>7 DEF RestartStep

\* The steps of shutdown() preserve it.
LEMMA ShutdownPreserves ==
  ASSUME IInv, NEW t \in Stoppers, ShutdownStep(t)
  PROVE  IInv'
<1> USE BoundAssumption DEF IInv, container, api, latches, MainMoves, Moves, Places,
       Starting, ShutdownSteps, Servers
<1>1. CASE ShutdownStop(t)
  <2>1. Moves(t, "s.stop", "s.detach")
    BY <1>1, StopperGoes DEF ShutdownStop
  <2>2. TypeOK'
    BY <1>1, <2>1 DEF ShutdownStop, Stop, Stoppable, Stopped, TypeOK, PlaceInv, States,
        JettyStates
  <2>3. PlaceInv'
    BY <1>1, <2>1 DEF ShutdownStop, Stop, Stoppable, Stopped, TypeOK, PlaceInv,
        StartSteps
  <2>4. FirstInv'
    BY <1>1, <2>1 DEF ShutdownStop, Stop, Stoppable, Stopped, TypeOK, PlaceInv,
        FirstInv, PastStop
  <2> QED
    BY <2>2, <2>3, <2>4
<1>2. CASE ShutdownThrows(t)
  <2>1. Moves(t, "s.stop", "s.close")
    BY <1>2, StopperGoes DEF ShutdownThrows
  <2>2. TypeOK'
    <3>1. /\ server' \in 0..MaxServers /\ port' \in 0..server'
          /\ jetty' \in [Servers -> JettyStates]
          /\ port' # 0 => jetty'[port'] \in {"connected", "started", "failed"}
      <4>1. /\ server \in 0..MaxServers /\ port \in 0..server
            /\ jetty \in [Servers -> JettyStates]
            /\ port # 0 => jetty[port] \in {"connected", "started", "failed"}
            /\ server > 0
        BY <2>1 DEF TypeOK, PlaceInv
      <4> QED
        BY <1>2, <4>1 DEF ShutdownThrows, StopFails, Stoppable, Stopped, JettyStates
    <3> QED
      BY <1>2, <2>1, <3>1 DEF ShutdownThrows, TypeOK
  <2>3. PlaceInv'
    BY <1>2, <2>1 DEF ShutdownThrows, StopFails, Stoppable, Stopped, TypeOK, PlaceInv,
        StartSteps
  <2>4. FirstInv'
    BY <1>2, <2>1 DEF ShutdownThrows, StopFails, Stoppable, Stopped, TypeOK, PlaceInv,
        FirstInv, PastStop
  <2> QED
    BY <2>2, <2>3, <2>4
<1>3. CASE ShutdownDetach(t)
  <2>1. Moves(t, "s.detach", "s.declare")
    BY <1>3, StopperGoes DEF ShutdownDetach
  <2>2. TypeOK'
    BY <1>3, <2>1 DEF ShutdownDetach, TypeOK, PlaceInv, States, JettyStates
  <2>3. PlaceInv'
    BY <1>3, <2>1 DEF ShutdownDetach, TypeOK, PlaceInv, StartSteps
  <2>4. FirstInv'
    BY <1>3, <2>1 DEF ShutdownDetach, TypeOK, PlaceInv, FirstInv, PastStop
  <2> QED
    BY <2>2, <2>3, <2>4
<1>4. CASE ShutdownDeclare(t)
  <2>1. Moves(t, "s.declare", "s.count")
    BY <1>4, StopperGoes DEF ShutdownDeclare
  <2>2. TypeOK'
    BY <1>4, <2>1 DEF ShutdownDeclare, TypeOK, PlaceInv, States, JettyStates
  <2>3. PlaceInv'
    BY <1>4, <2>1 DEF ShutdownDeclare, TypeOK, PlaceInv, StartSteps
  <2>4. FirstInv'
    BY <1>4, <2>1 DEF ShutdownDeclare, TypeOK, PlaceInv, FirstInv, PastStop
  <2> QED
    BY <2>2, <2>3, <2>4
<1>5. CASE ShutdownCount(t)
  <2>1. Moves(t, "s.count", "s.close")
    BY <1>5, StopperGoes DEF ShutdownCount
  <2>2. TypeOK'
    BY <1>5, <2>1 DEF ShutdownCount, TypeOK, PlaceInv, States, JettyStates
  <2>3. PlaceInv'
    BY <1>5, <2>1 DEF ShutdownCount, TypeOK, PlaceInv, StartSteps
  <2>4. FirstInv'
    BY <1>5, <2>1 DEF ShutdownCount, TypeOK, PlaceInv, FirstInv, PastStop
  <2> QED
    BY <2>2, <2>3, <2>4
<1>6. CASE ShutdownClose(t)
  <2>1. Moves(t, "s.close", "out")
    BY <1>6, StopperGoes DEF ShutdownClose
  <2>2. TypeOK'
    BY <1>6, <2>1 DEF ShutdownClose, TypeOK, PlaceInv, States, JettyStates
  <2>3. PlaceInv'
    BY <1>6, <2>1 DEF ShutdownClose, TypeOK, PlaceInv, StartSteps
  <2>4. FirstInv'
    BY <1>6, <2>1 DEF ShutdownClose, TypeOK, PlaceInv, FirstInv, PastStop
  <2> QED
    BY <2>2, <2>3, <2>4
<1> QED
  BY <1>1, <1>2, <1>3, <1>4, <1>5, <1>6 DEF ShutdownStep

\* So do the first steps of restart and shutdown.
LEMMA BeginPreserves ==
  ASSUME IInv, NEW t \in Stoppers, RestartBegin(t) \/ ShutdownBegin(t)
  PROVE  IInv'
<1> USE BoundAssumption DEF IInv, container, api, latches, MainMoves, Moves, Places,
       Starting, RestartSteps, ShutdownSteps, Servers
<1>1. CASE RestartBegin(t)
  <2>1. Moves(t, "out", "r.stop")
    BY <1>1, StopperGoes DEF RestartBegin
  <2>2. TypeOK'
    BY <1>1, <2>1 DEF RestartBegin, TypeOK, PlaceInv, States, JettyStates
  <2>3. PlaceInv'
    BY <1>1, <2>1 DEF RestartBegin, TypeOK, PlaceInv, StartSteps
  <2>4. FirstInv'
    BY <1>1, <2>1 DEF RestartBegin, TypeOK, PlaceInv, FirstInv, PastStop
  <2> QED
    BY <2>2, <2>3, <2>4
<1>2. CASE ShutdownBegin(t)
  <2>1. Moves(t, "out", "s.stop")
    BY <1>2, StopperGoes DEF ShutdownBegin
  <2>2. TypeOK'
    <3>1. scheduled' \in 0..MaxPending
      BY <1>2 DEF ShutdownBegin, TypeOK
    <3> QED
      BY <1>2, <2>1, <3>1 DEF ShutdownBegin, TypeOK
  <2>3. PlaceInv'
    BY <1>2, <2>1 DEF ShutdownBegin, TypeOK, PlaceInv, StartSteps
  <2>4. FirstInv'
    BY <1>2, <2>1 DEF ShutdownBegin, TypeOK, PlaceInv, FirstInv, PastStop
  <2> QED
    BY <2>2, <2>3, <2>4
<1> QED
  BY <1>1, <1>2

\* So do gracefulShutdown and a scheduled shutdown that is dropped.
LEMMA SchedulePreserves ==
  ASSUME IInv, GracefulShutdown \/ ShutdownDropped
  PROVE  IInv'
<1> USE BoundAssumption DEF GracefulShutdown, ShutdownDropped, container, api, latches,
       IInv
<1>1. TypeOK'
  <2>1. scheduled' \in 0..MaxPending
    BY DEF TypeOK
  <2> QED
    BY <2>1 DEF TypeOK
<1>2. PlaceInv'
  BY DEF PlaceInv
<1>3. FirstInv'
  BY DEF FirstInv
<1> QED
  BY <1>1, <1>2, <1>3

\* Every step, of any thread, preserves it.
LEMMA Inductive == IInv /\ [Next]_vars => IInv'
<1> SUFFICES ASSUME IInv, [Next]_vars PROVE IInv'
  OBVIOUS
<1>1. CASE UNCHANGED vars
  BY <1>1 DEF vars, container, api, latches, IInv, TypeOK, PlaceInv, FirstInv
<1> QED
  BY <1>1, StartPreserves, RestartPreserves, ShutdownPreserves, BeginPreserves,
      SchedulePreserves DEF Next, Stoppers

\* The places of the threads, and what the first Server has gone through.
THEOREM Invariance == Spec => []IInv
BY Initial, Inductive, PTL DEF Spec

\* Every variable keeps its type, and only a Server with an open connector has
\* the port.
THEOREM TypeCorrect == Spec => []TypeOK
BY Invariance, PTL DEF IInv

\* The process exits with status 0 only after the Server of start has stopped, or
\* on an interrupt of its main thread.  PlaceInv ties the exit to a latch that was
\* counted down, and FirstInv every count-down to the stop that came before it.
THEOREM ExitsStopped == Spec => []ExitAfterStop
<1>1. IInv => ExitAfterStop
  BY DEF IInv, PlaceInv, FirstInv, ExitAfterStop
<1> QED
  BY <1>1, Invariance, PTL

-----------------------------------------------------------------------------
(* OrderlyInv is inductive too.                                            *)

\* Stopping the container, also one that is stopped, leaves it stopped.
LEMMA StopLeaves ==
  ASSUME TypeOK, server > 0, Serving \/ Down, OldStopped, Stop
  PROVE  Down' /\ OldStopped'
<1>1. CASE Serving
  <2>1. server \in Servers /\ jetty \in [Servers -> JettyStates]
    BY DEF TypeOK, Servers
  <2>2. Down'
    BY <1>1, <2>1 DEF Serving, Down, Stop, Stoppable, Stopped
  <2>3. OldStopped'
    BY <1>1, <2>1 DEF Serving, OldStopped, Stop, Stoppable, Stopped
  <2> QED
    BY <2>2, <2>3
<1>2. CASE Down
  BY <1>2 DEF Down, OldStopped, Stop, Stoppable, container
<1> QED
  BY <1>1, <1>2

\* Connecting leaves a new Server that has the port, and the others stopped.
LEMMA ConnectLeaves ==
  ASSUME TypeOK, server < MaxServers, server = 0 \/ Down, OldStopped, Connect
  PROVE  Joined' /\ OldStopped'
<1>1. server \in 0..MaxServers /\ jetty \in [Servers -> JettyStates]
  BY DEF TypeOK
<1>2. Joined'
  BY <1>1, BoundAssumption DEF Joined, Connect, Servers
<1>3. OldStopped'
  BY <1>1, BoundAssumption DEF Down, OldStopped, Connect, Servers
<1> QED
  BY <1>2, <1>3

\* Starting a connected container leaves it serving.
LEMMA StartupLeaves ==
  ASSUME TypeOK, server > 0, Joined, OldStopped, Startup
  PROVE  Serving' /\ OldStopped'
BY DEF TypeOK, Serving, Joined, OldStopped, Startup, Servers

\* A failure of start leaves no Server but the one it made.
LEMMA StartFailureLeaves ==
  ASSUME TypeOK, OldStopped, BoundAssumption,
         \/ server = 0 /\ ConnectFails
         \/ server > 0 /\ StartupFails
  PROVE  OldStopped'
BY DEF TypeOK, OldStopped, ConnectFails, StartupFails, Servers, BoundAssumption

\* What a step that is no call to the container leaves as it is.
ContainerKept ==
  /\ Serving => Serving'
  /\ Down => Down'
  /\ Joined => Joined'
  /\ OldStopped => OldStopped'

\* What a step leaves of the rest.
RestKept ==
  /\ UNCHANGED <<serverState, apiClient, shutdownLatch, counted>>
  /\ Live => Live'
  /\ Released => Released'

\* A step that leaves the container alone keeps what is said of it.
LEMMA ContainerSame ==
  ASSUME UNCHANGED container
  PROVE  ContainerKept
BY DEF container, Serving, Down, Joined, OldStopped, ContainerKept

\* It holds before start.
LEMMA InitialOrderly == Init => OrderlyInv
<1> SUFFICES ASSUME Init PROVE OrderlyInv
  OBVIOUS
<1>1. /\ pc[Main] = "configure" /\ \A t \in Stoppers : pc[t] = "out"
      /\ serverState = "INITIALIZING"
  BY ThreadAssumption DEF Init, Stoppers, Threads
<1>2. OldStopped
  BY DEF Init, OldStopped, Servers
<1>3. StartInv /\ RestartInv /\ ShutdownInv
  BY <1>1 DEF StartInv, RestartInv, ShutdownInv, Restarting, RestartSteps, ShutdownSteps
<1> QED
  BY <1>2, <1>3 DEF OrderlyInv

\* OrderlyInv of an orderly server.
AllInv == StartInv /\ RestartInv /\ ShutdownInv /\ OldStopped

\* The steps of Main preserve OrderlyInv.
LEMMA StartOrderly ==
  ASSUME IInv, AllInv, StartStep \/ ExitInterrupted
  PROVE  AllInv'
<1> USE BoundAssumption DEF IInv, AllInv, MainMoves, Moves, Starting, Restarting, Inside,
       RestartSteps, ShutdownSteps, ContainerKept, RestKept
<1>1. CASE Configure
  <2>1. MainMoves("configure", "connect")
    BY <1>1, MainGoes DEF Configure, Places, StartSteps
  <2>2. serverState = "INITIALIZING"
    BY <1>1, <2>1 DEF Configure, PlaceInv, StartInv, RestartInv, ShutdownInv
  <2>3. ContainerKept
    BY <1>1, <2>2, ContainerSame DEF Configure
  <2>4. RestKept
    BY <1>1, <2>2 DEF Configure, RestKept, Live, Released, latches, api
  <2>5. StartInv'
    BY <2>1, <2>2, <2>3, <2>4 DEF StartInv, PlaceInv
  <2>6. RestartInv'
    BY <2>1, <2>2, <2>3, <2>4 DEF RestartInv, PlaceInv
  <2>7. ShutdownInv'
    BY <2>1, <2>2, <2>3, <2>4 DEF ShutdownInv, RestartInv, PlaceInv
  <2> QED
    BY <2>3, <2>5, <2>6, <2>7
<1>2. CASE StartConnect
  <2>1. MainMoves("connect", "attach")
    BY <1>2, MainGoes DEF StartConnect, Places, StartSteps
  <2>2. serverState = "INITIALIZING" /\ server = 0 /\ server < MaxServers
    BY <1>2, <2>1 DEF StartConnect, PlaceInv, StartInv, RestartInv, ShutdownInv
  <2>3. Joined' /\ OldStopped'
    BY <1>2, <2>2, ConnectLeaves DEF StartConnect
  <2>4. RestKept
    BY <1>2, <2>2 DEF StartConnect, RestKept, Live, Released, latches, api
  <2>5. StartInv'
    BY <2>1, <2>2, <2>3, <2>4 DEF StartInv, PlaceInv
  <2>6. RestartInv'
    BY <2>1, <2>2, <2>3, <2>4 DEF RestartInv, PlaceInv
  <2>7. ShutdownInv'
    BY <2>1, <2>2, <2>3, <2>4 DEF ShutdownInv, RestartInv, PlaceInv
  <2> QED
    BY <2>3, <2>5, <2>6, <2>7
<1>3. CASE StartConnectFails
  <2>1. MainMoves("connect", "gone")
    BY <1>3, MainGoes DEF StartConnectFails, Places, StartSteps
  <2>2. serverState = "INITIALIZING" /\ server = 0
    BY <1>3, <2>1 DEF StartConnectFails, PlaceInv, StartInv, RestartInv, ShutdownInv
  <2>3. OldStopped'
    BY <1>3, <2>2, StartFailureLeaves DEF StartConnectFails
  <2>4. RestKept
    BY <1>3, <2>2 DEF StartConnectFails, RestKept, Live, Released, latches, api
  <2>5. StartInv'
    BY <2>1, <2>2, <2>3, <2>4 DEF StartInv, PlaceInv
  <2>6. RestartInv'
    BY <2>1, <2>2, <2>3, <2>4 DEF RestartInv, PlaceInv
  <2>7. ShutdownInv'
    BY <2>1, <2>2, <2>3, <2>4 DEF ShutdownInv, RestartInv, PlaceInv
  <2> QED
    BY <2>3, <2>5, <2>6, <2>7
<1>4. CASE Attach
  <2>1. MainMoves("attach", "startup")
    BY <1>4, MainGoes DEF Attach, Places, StartSteps
  <2>2. serverState = "INITIALIZING" /\ Joined
    BY <1>4, <2>1 DEF Attach, PlaceInv, StartInv, RestartInv, ShutdownInv
  <2>3. ContainerKept
    BY <1>4, <2>2, ContainerSame DEF Attach
  <2>4. Live' /\ serverState' = serverState
    BY <1>4, <2>2 DEF Attach, Live
  <2>5. StartInv'
    BY <2>1, <2>2, <2>3, <2>4 DEF StartInv, PlaceInv
  <2>6. RestartInv'
    BY <2>1, <2>2, <2>3, <2>4 DEF RestartInv, PlaceInv
  <2>7. ShutdownInv'
    BY <2>1, <2>2, <2>3, <2>4 DEF ShutdownInv, RestartInv, PlaceInv
  <2> QED
    BY <2>3, <2>5, <2>6, <2>7
<1>5. CASE StartStartup
  <2>1. MainMoves("startup", "latch")
    BY <1>5, MainGoes DEF StartStartup, Places, StartSteps
  <2>2. serverState = "INITIALIZING" /\ Joined /\ server > 0
    BY <1>5, <2>1 DEF StartStartup, PlaceInv, StartInv, RestartInv, ShutdownInv
  <2>3. Serving' /\ OldStopped'
    BY <1>5, <2>2, StartupLeaves DEF StartStartup
  <2>4. RestKept
    BY <1>5, <2>2 DEF StartStartup, RestKept, Live, Released, latches, api
  <2>5. StartInv'
    BY <2>1, <2>2, <2>3, <2>4 DEF StartInv, PlaceInv
  <2>6. RestartInv'
    BY <2>1, <2>2, <2>3, <2>4 DEF RestartInv, PlaceInv
  <2>7. ShutdownInv'
    BY <2>1, <2>2, <2>3, <2>4 DEF ShutdownInv, RestartInv, PlaceInv
  <2> QED
    BY <2>3, <2>5, <2>6, <2>7
<1>6. CASE StartThrows
  <2>1. /\ \/ MainMoves("configure", "gone") /\ UNCHANGED container
           \/ MainMoves("connect", "gone") /\ ConnectThrows
           \/ MainMoves("attach", "gone") /\ UNCHANGED container
           \/ MainMoves("startup", "gone") /\ (StartupFails \/ Startup)
        /\ serverState' = serverState
    BY <1>6, MainGoes DEF StartThrows, Places, StartSteps
  <2>2. /\ serverState = "INITIALIZING" /\ \A u \in Stoppers : pc[u] = "out"
        /\ pc[Main] = "connect" => server = 0
        /\ pc[Main] = "startup" => server > 0 /\ Joined
    BY <2>1 DEF PlaceInv, StartInv
  <2>3. OldStopped'
    BY <2>1, <2>2, ContainerSame, StartFailureLeaves, StartupLeaves
       DEF ContainerKept, ConnectThrows
  <2>4. StartInv' /\ RestartInv' /\ ShutdownInv'
    BY <2>1, <2>2 DEF StartInv, RestartInv, ShutdownInv
  <2> QED
    BY <2>3, <2>4
<1>7. CASE StartLatch
  <2>1. MainMoves("latch", "declare")
    BY <1>7, MainGoes DEF StartLatch, Places, StartSteps
  <2>2. serverState = "INITIALIZING" /\ Serving
    BY <1>7, <2>1 DEF StartLatch, PlaceInv, StartInv, RestartInv, ShutdownInv
  <2>3. ContainerKept
    BY <1>7, <2>2, ContainerSame DEF StartLatch
  <2>4. serverState' = serverState /\ (Live => Live')
    BY <1>7, <2>2 DEF StartLatch, Live, api
  <2>5. StartInv'
    BY <2>1, <2>2, <2>3, <2>4 DEF StartInv, PlaceInv
  <2>6. RestartInv'
    BY <2>1, <2>2, <2>3, <2>4 DEF RestartInv, PlaceInv
  <2>7. ShutdownInv'
    BY <2>1, <2>2, <2>3, <2>4 DEF ShutdownInv, RestartInv, PlaceInv
  <2> QED
    BY <2>3, <2>5, <2>6, <2>7
<1>8. CASE StartDeclare
  <2>1. MainMoves("declare", "return")
    BY <1>8, MainGoes DEF StartDeclare, Places, StartSteps
  <2>2. serverState = "INITIALIZING" /\ Serving /\ Live /\ counted = {}
    BY <1>8, <2>1 DEF StartDeclare, PlaceInv, StartInv, RestartInv, ShutdownInv
  <2>3. ContainerKept
    BY <1>8, <2>2, ContainerSame DEF StartDeclare
  <2>4. serverState' = "RUNNING" /\ (Live => Live') /\ counted' = counted
    BY <1>8, <2>2 DEF StartDeclare, Live, api, latches
  <2>5. StartInv'
    BY <2>1, <2>2, <2>3, <2>4 DEF StartInv, PlaceInv
  <2>6. RestartInv'
    BY <2>1, <2>2, <2>3, <2>4 DEF RestartInv, PlaceInv
  <2>7. ShutdownInv'
    BY <2>1, <2>2, <2>3, <2>4 DEF ShutdownInv, RestartInv, PlaceInv
  <2> QED
    BY <2>3, <2>5, <2>6, <2>7
<1>9. CASE StartReturn
  <2>1. MainMoves("return", "await")
    BY <1>9, MainGoes DEF StartReturn, Places, StartSteps
  <2>2. serverState # "INITIALIZING"
    BY <1>9, <2>1 DEF StartReturn, PlaceInv, StartInv, RestartInv, ShutdownInv
  <2>3. ContainerKept
    BY <1>9, <2>2, ContainerSame DEF StartReturn
  <2>4. RestKept
    BY <1>9, <2>2 DEF StartReturn, RestKept, Live, Released, latches, api
  <2>5. StartInv'
    BY <2>1, <2>2, <2>3, <2>4 DEF StartInv, PlaceInv
  <2>6. RestartInv'
    BY <2>1, <2>2, <2>3, <2>4 DEF RestartInv, PlaceInv
  <2>7. ShutdownInv'
    BY <2>1, <2>2, <2>3, <2>4 DEF ShutdownInv, RestartInv, PlaceInv
  <2> QED
    BY <2>3, <2>5, <2>6, <2>7
<1>10. CASE Exit
  <2>1. MainMoves("await", "gone")
    BY <1>10, MainGoes DEF Exit, Places, StartSteps
  <2>2. serverState # "INITIALIZING"
    BY <1>10, <2>1 DEF Exit, PlaceInv, StartInv, RestartInv, ShutdownInv
  <2>3. ContainerKept
    BY <1>10, <2>2, ContainerSame DEF Exit
  <2>4. RestKept
    BY <1>10, <2>2 DEF Exit, RestKept, Live, Released, latches, api
  <2>5. StartInv'
    BY <2>1, <2>2, <2>3, <2>4 DEF StartInv, PlaceInv
  <2>6. RestartInv'
    BY <2>1, <2>2, <2>3, <2>4 DEF RestartInv, PlaceInv
  <2>7. ShutdownInv'
    BY <2>1, <2>2, <2>3, <2>4 DEF ShutdownInv, RestartInv, PlaceInv
  <2> QED
    BY <2>3, <2>5, <2>6, <2>7
<1>11. CASE ExitInterrupted
  <2>1. /\ \/ MainMoves("await", "woken") /\ UNCHANGED container
           \/ MainMoves("startup", "woken") /\ StartupFails
        /\ UNCHANGED <<serverState, api, latches>>
    BY <1>11, MainGoes DEF ExitInterrupted, Places, StartSteps
  <2>2. /\ pc[Main] = "await" => serverState # "INITIALIZING"
        /\ pc[Main] = "startup" =>
             /\ serverState = "INITIALIZING" /\ \A u \in Stoppers : pc[u] = "out"
             /\ server > 0
    BY <2>1 DEF PlaceInv
  <2>3. RestKept
    BY <2>1 DEF Live, Released, latches, api
  <2>4. CASE pc[Main] = "startup"
    <3>1. OldStopped'
      BY <2>1, <2>2, <2>4, StartFailureLeaves
    <3>2. StartInv' /\ RestartInv' /\ ShutdownInv'
      BY <2>1, <2>2, <2>4 DEF StartInv, RestartInv, ShutdownInv
    <3> QED
      BY <3>1, <3>2
  <2>5. CASE pc[Main] = "await"
    <3>1. ContainerKept
      BY <2>1, <2>5, ContainerSame
    <3>2. StartInv'
      BY <2>1 DEF StartInv
    <3>3. RestartInv'
      BY <2>1, <2>3, <3>1 DEF RestartInv, PlaceInv
    <3>4. ShutdownInv'
      BY <2>1, <2>2, <2>3, <2>5, <3>1 DEF ShutdownInv, RestartInv, PlaceInv
    <3> QED
      BY <3>1, <3>2, <3>3, <3>4
  <2> QED
    BY <2>1, <2>4, <2>5
<1> QED
  BY <1>1, <1>2, <1>3, <1>4, <1>5, <1>6, <1>7, <1>8, <1>9, <1>10, <1>11 DEF StartStep

\* restart(), which a failed step would make disorderly.
LEMMA RestartOrderly ==
  ASSUME IInv, AllInv, NEW t \in Stoppers, RestartStep(t), ~RestartThrows(t)
  PROVE  AllInv'
<1> USE BoundAssumption DEF IInv, AllInv, MainMoves, Moves, Starting, Restarting, Inside,
       RestartSteps, ShutdownSteps, ContainerKept, RestKept
<1>1. CASE RestartStop(t)
  <2>1. Moves(t, "r.stop", "r.count")
    BY <1>1, StopperGoes DEF RestartStop, Places, RestartSteps
  <2>2. /\ serverState = "RUNNING"
        /\ Live
        /\ server > 0
        /\ (\A u \in Stoppers \ {t} : pc[u] = "out")
        /\ pc[Main] \notin Starting
        /\ Serving
    BY <1>1, <2>1 DEF RestartStop, PlaceInv, StartInv, RestartInv, ShutdownInv
  <2>3. Down' /\ OldStopped'
    BY <1>1, <2>2, StopLeaves DEF RestartStop
  <2>4. RestKept
    BY <1>1, <2>2 DEF RestartStop, RestKept, Live, Released, latches, api
  <2>5. StartInv'
    BY <2>1, <2>2, <2>3, <2>4 DEF StartInv, PlaceInv
  <2>6. RestartInv'
    BY <2>1, <2>2, <2>3, <2>4 DEF RestartInv, PlaceInv
  <2>7. ShutdownInv'
    BY <2>1, <2>2, <2>3, <2>4 DEF ShutdownInv, RestartInv, PlaceInv
  <2> QED
    BY <2>3, <2>5, <2>6, <2>7
<1>2. CASE RestartCount(t)
  <2>1. Moves(t, "r.count", "r.connect")
    BY <1>2, StopperGoes DEF RestartCount, Places, RestartSteps
  <2>2. /\ serverState = "RUNNING"
        /\ Live
        /\ server > 0
        /\ (\A u \in Stoppers \ {t} : pc[u] = "out")
        /\ pc[Main] \notin Starting
        /\ Down
    BY <1>2, <2>1 DEF RestartCount, PlaceInv, StartInv, RestartInv, ShutdownInv
  <2>3. ContainerKept
    BY <1>2, <2>2, ContainerSame DEF RestartCount
  <2>4. serverState' = serverState /\ (Live => Live')
    BY <1>2, <2>2 DEF RestartCount, Live, api
  <2>5. StartInv'
    BY <2>1, <2>2, <2>3, <2>4 DEF StartInv, PlaceInv
  <2>6. RestartInv'
    BY <2>1, <2>2, <2>3, <2>4 DEF RestartInv, PlaceInv
  <2>7. ShutdownInv'
    BY <2>1, <2>2, <2>3, <2>4 DEF ShutdownInv, RestartInv, PlaceInv
  <2> QED
    BY <2>3, <2>5, <2>6, <2>7
<1>3. CASE RestartConnect(t)
  <2>1. Moves(t, "r.connect", "r.attach")
    BY <1>3, StopperGoes DEF RestartConnect, Places, RestartSteps
  <2>2. /\ serverState = "RUNNING"
        /\ Live
        /\ server > 0
        /\ (\A u \in Stoppers \ {t} : pc[u] = "out")
        /\ pc[Main] \notin Starting
        /\ Down
        /\ server < MaxServers
    BY <1>3, <2>1 DEF RestartConnect, PlaceInv, StartInv, RestartInv, ShutdownInv
  <2>3. Joined' /\ OldStopped'
    BY <1>3, <2>2, ConnectLeaves DEF RestartConnect
  <2>4. RestKept
    BY <1>3, <2>2 DEF RestartConnect, RestKept, Live, Released, latches, api
  <2>5. StartInv'
    BY <2>1, <2>2, <2>3, <2>4 DEF StartInv, PlaceInv
  <2>6. RestartInv'
    BY <2>1, <2>2, <2>3, <2>4 DEF RestartInv, PlaceInv
  <2>7. ShutdownInv'
    BY <2>1, <2>2, <2>3, <2>4 DEF ShutdownInv, RestartInv, PlaceInv
  <2> QED
    BY <2>3, <2>5, <2>6, <2>7
<1>4. CASE RestartAttach(t)
  <2>1. Moves(t, "r.attach", "r.startup")
    BY <1>4, StopperGoes DEF RestartAttach, Places, RestartSteps
  <2>2. /\ serverState = "RUNNING"
        /\ Live
        /\ server > 0
        /\ (\A u \in Stoppers \ {t} : pc[u] = "out")
        /\ pc[Main] \notin Starting
        /\ Joined
    BY <1>4, <2>1 DEF RestartAttach, PlaceInv, StartInv, RestartInv, ShutdownInv
  <2>3. ContainerKept
    BY <1>4, <2>2, ContainerSame DEF RestartAttach
  <2>4. serverState' = serverState /\ Live'
    BY <1>4, <2>2 DEF RestartAttach, Live
  <2>5. StartInv'
    BY <2>1, <2>2, <2>3, <2>4 DEF StartInv, PlaceInv
  <2>6. RestartInv'
    BY <2>1, <2>2, <2>3, <2>4 DEF RestartInv, PlaceInv
  <2>7. ShutdownInv'
    BY <2>1, <2>2, <2>3, <2>4 DEF ShutdownInv, RestartInv, PlaceInv
  <2> QED
    BY <2>3, <2>5, <2>6, <2>7
<1>5. CASE RestartStartup(t)
  <2>1. Moves(t, "r.startup", "r.latch")
    BY <1>5, StopperGoes DEF RestartStartup, Places, RestartSteps
  <2>2. /\ serverState = "RUNNING"
        /\ Live
        /\ server > 0
        /\ (\A u \in Stoppers \ {t} : pc[u] = "out")
        /\ pc[Main] \notin Starting
        /\ Joined
    BY <1>5, <2>1 DEF RestartStartup, PlaceInv, StartInv, RestartInv, ShutdownInv
  <2>3. Serving' /\ OldStopped'
    BY <1>5, <2>2, StartupLeaves DEF RestartStartup
  <2>4. RestKept
    BY <1>5, <2>2 DEF RestartStartup, RestKept, Live, Released, latches, api
  <2>5. StartInv'
    BY <2>1, <2>2, <2>3, <2>4 DEF StartInv, PlaceInv
  <2>6. RestartInv'
    BY <2>1, <2>2, <2>3, <2>4 DEF RestartInv, PlaceInv
  <2>7. ShutdownInv'
    BY <2>1, <2>2, <2>3, <2>4 DEF ShutdownInv, RestartInv, PlaceInv
  <2> QED
    BY <2>3, <2>5, <2>6, <2>7
<1>6. CASE RestartLatch(t)
  <2>1. Moves(t, "r.latch", "out")
    BY <1>6, StopperGoes DEF RestartLatch, Places, RestartSteps
  <2>2. /\ serverState = "RUNNING"
        /\ Live
        /\ server > 0
        /\ (\A u \in Stoppers \ {t} : pc[u] = "out")
        /\ pc[Main] \notin Starting
        /\ Serving
    BY <1>6, <2>1 DEF RestartLatch, PlaceInv, StartInv, RestartInv, ShutdownInv
  <2>3. ContainerKept
    BY <1>6, <2>2, ContainerSame DEF RestartLatch
  <2>4. serverState' = serverState /\ (Live => Live') /\ shutdownLatch' \notin counted'
    BY <1>6, <2>2 DEF RestartLatch, Live, api, NewLatch, TypeOK
  <2>5. StartInv'
    BY <2>1, <2>2, <2>3, <2>4 DEF StartInv, PlaceInv
  <2>6. RestartInv'
    BY <2>1, <2>2, <2>3, <2>4 DEF RestartInv, PlaceInv
  <2>7. ShutdownInv'
    BY <2>1, <2>2, <2>3, <2>4 DEF ShutdownInv, RestartInv, PlaceInv
  <2> QED
    BY <2>3, <2>5, <2>6, <2>7
<1> QED
  BY <1>1, <1>2, <1>3, <1>4, <1>5, <1>6 DEF RestartStep

\* shutdown(), which a failed stop would make disorderly.
LEMMA ShutdownOrderly ==
  ASSUME IInv, AllInv, NEW t \in Stoppers, ShutdownStep(t), ~ShutdownThrows(t)
  PROVE  AllInv'
<1> USE BoundAssumption DEF IInv, AllInv, MainMoves, Moves, Starting, Restarting, Inside,
       RestartSteps, ShutdownSteps, ContainerKept, RestKept
<1>1. CASE ShutdownStop(t)
  <2>1. Moves(t, "s.stop", "s.detach")
    BY <1>1, StopperGoes DEF ShutdownStop, Places, ShutdownSteps
  <2>2. /\ pc[Main] \notin Starting
        /\ (\A u \in Stoppers : ~Restarting(u))
        /\ (Serving \/ Down)
        /\ server > 0
    <3>1. pc[Main] \notin Starting /\ (\A u \in Stoppers : ~Restarting(u)) /\ server > 0
      BY <2>1 DEF PlaceInv, RestartInv
    <3>2. serverState \in {"RUNNING", "SHUTDOWN"}
      BY <2>1 DEF TypeOK, States, PlaceInv
    <3>3. Serving \/ Down
      BY <3>1, <3>2 DEF ShutdownInv
    <3> QED
      BY <3>1, <3>3
  <2>3. Down' /\ OldStopped'
    BY <1>1, <2>2, StopLeaves DEF ShutdownStop
  <2>4. RestKept
    BY <1>1, <2>2 DEF ShutdownStop, RestKept, Live, Released, latches, api
  <2>5. StartInv'
    BY <2>1, <2>2, <2>3, <2>4 DEF StartInv, PlaceInv
  <2>6. RestartInv'
    BY <2>1, <2>2, <2>3, <2>4 DEF RestartInv, PlaceInv
  <2>7. ShutdownInv'
    BY <2>1, <2>2, <2>3, <2>4 DEF ShutdownInv, RestartInv, PlaceInv
  <2> QED
    BY <2>3, <2>5, <2>6, <2>7
<1>2. CASE ShutdownDetach(t)
  <2>1. Moves(t, "s.detach", "s.declare")
    BY <1>2, StopperGoes DEF ShutdownDetach, Places, ShutdownSteps
  <2>2. pc[Main] \notin Starting /\ (\A u \in Stoppers : ~Restarting(u)) /\ Down
    BY <1>2, <2>1 DEF ShutdownDetach, PlaceInv, StartInv, RestartInv, ShutdownInv
  <2>3. ContainerKept
    BY <1>2, <2>2, ContainerSame DEF ShutdownDetach
  <2>4. /\ serverState' = serverState
        /\ Released'
        /\ shutdownLatch' = shutdownLatch
        /\ counted' = counted
        /\ apiClient' = apiClient
    BY <1>2, <2>2 DEF ShutdownDetach, Released, latches
  <2>5. StartInv'
    BY <2>1, <2>2, <2>3, <2>4 DEF StartInv, PlaceInv
  <2>6. RestartInv'
    BY <2>1, <2>2, <2>3, <2>4 DEF RestartInv, PlaceInv
  <2>7. ShutdownInv'
    BY <2>1, <2>2, <2>3, <2>4 DEF ShutdownInv, RestartInv, PlaceInv
  <2> QED
    BY <2>3, <2>5, <2>6, <2>7
<1>3. CASE ShutdownDeclare(t)
  <2>1. Moves(t, "s.declare", "s.count")
    BY <1>3, StopperGoes DEF ShutdownDeclare, Places, ShutdownSteps
  <2>2. /\ pc[Main] \notin Starting
        /\ (\A u \in Stoppers : ~Restarting(u))
        /\ Down
        /\ Released
    BY <1>3, <2>1 DEF ShutdownDeclare, PlaceInv, StartInv, RestartInv, ShutdownInv
  <2>3. ContainerKept
    BY <1>3, <2>2, ContainerSame DEF ShutdownDeclare
  <2>4. /\ serverState' = "SHUTDOWN"
        /\ (Released => Released')
        /\ shutdownLatch' = shutdownLatch
        /\ counted' = counted
    BY <1>3, <2>2 DEF ShutdownDeclare, Released, api, latches
  <2>5. StartInv'
    BY <2>1, <2>2, <2>3, <2>4 DEF StartInv, PlaceInv
  <2>6. RestartInv'
    BY <2>1, <2>2, <2>3, <2>4 DEF RestartInv, PlaceInv
  <2>7. ShutdownInv'
    BY <2>1, <2>2, <2>3, <2>4 DEF ShutdownInv, RestartInv, PlaceInv
  <2> QED
    BY <2>3, <2>5, <2>6, <2>7
<1>4. CASE ShutdownCount(t)
  <2>1. Moves(t, "s.count", "s.close")
    BY <1>4, StopperGoes DEF ShutdownCount, Places, ShutdownSteps
  <2>2. /\ pc[Main] \notin Starting
        /\ (\A u \in Stoppers : ~Restarting(u))
        /\ Down
        /\ Released
        /\ serverState = "SHUTDOWN"
    BY <1>4, <2>1 DEF ShutdownCount, PlaceInv, StartInv, RestartInv, ShutdownInv
  <2>3. ContainerKept
    BY <1>4, <2>2, ContainerSame DEF ShutdownCount
  <2>4. /\ serverState' = serverState
        /\ (Released => Released')
        /\ shutdownLatch' \in counted'
    BY <1>4, <2>2 DEF ShutdownCount, Released, api
  <2>5. StartInv'
    BY <2>1, <2>2, <2>3, <2>4 DEF StartInv, PlaceInv
  <2>6. RestartInv'
    BY <2>1, <2>2, <2>3, <2>4 DEF RestartInv, PlaceInv
  <2>7. ShutdownInv'
    BY <2>1, <2>2, <2>3, <2>4 DEF ShutdownInv, RestartInv, PlaceInv
  <2> QED
    BY <2>3, <2>5, <2>6, <2>7
<1>5. CASE ShutdownClose(t)
  <2>1. Moves(t, "s.close", "out")
    BY <1>5, StopperGoes DEF ShutdownClose, Places, ShutdownSteps
  <2>2. /\ pc[Main] \notin Starting
        /\ (\A u \in Stoppers : ~Restarting(u))
        /\ Down
        /\ Released
        /\ serverState = "SHUTDOWN"
        /\ shutdownLatch \in counted
    BY <1>5, <2>1 DEF ShutdownClose, PlaceInv, StartInv, RestartInv, ShutdownInv
  <2>3. ContainerKept
    BY <1>5, <2>2, ContainerSame DEF ShutdownClose
  <2>4. /\ serverState' = serverState
        /\ (Released => Released')
        /\ shutdownLatch' = shutdownLatch
        /\ counted' = counted
        /\ apiClient' = "closed"
    BY <1>5, <2>2 DEF ShutdownClose, Released, latches
  <2>5. StartInv'
    BY <2>1, <2>2, <2>3, <2>4 DEF StartInv, PlaceInv
  <2>6. RestartInv'
    BY <2>1, <2>2, <2>3, <2>4 DEF RestartInv, PlaceInv
  <2>7. ShutdownInv'
    BY <2>1, <2>2, <2>3, <2>4 DEF ShutdownInv, RestartInv, PlaceInv
  <2> QED
    BY <2>3, <2>5, <2>6, <2>7
<1> QED
  BY <1>1, <1>2, <1>3, <1>4, <1>5 DEF ShutdownStep

\* restart and shutdown begin in order when no restart is on its way.
LEMMA BeginOrderly ==
  ASSUME IInv, AllInv, NEW t \in Stoppers, RestartBegin(t) \/ ShutdownBegin(t), orderly'
  PROVE  AllInv'
<1> USE BoundAssumption DEF IInv, AllInv, MainMoves, Moves, Starting, Restarting, Inside,
       RestartSteps, ShutdownSteps, ContainerKept, RestKept
<1>1. CASE RestartBegin(t)
  <2>1. Moves(t, "out", "r.stop")
    BY <1>1, StopperGoes DEF RestartBegin, Places, RestartSteps
  <2>2. /\ serverState = "RUNNING"
        /\ (\A u \in Stoppers : pc[u] = "out")
        /\ Serving
        /\ Live
        /\ shutdownLatch \notin counted
        /\ pc[Main] \notin Starting
    BY <1>1, <2>1 DEF RestartBegin, PlaceInv, StartInv, RestartInv, ShutdownInv
  <2>3. ContainerKept
    BY <1>1, <2>2, ContainerSame DEF RestartBegin
  <2>4. RestKept
    BY <1>1, <2>2 DEF RestartBegin, RestKept, Live, Released, latches, api
  <2>5. StartInv'
    BY <2>1, <2>2, <2>3, <2>4 DEF StartInv, PlaceInv
  <2>6. RestartInv'
    BY <2>1, <2>2, <2>3, <2>4 DEF RestartInv, PlaceInv
  <2>7. ShutdownInv'
    BY <2>1, <2>2, <2>3, <2>4 DEF ShutdownInv, RestartInv, PlaceInv
  <2> QED
    BY <2>3, <2>5, <2>6, <2>7
<1>2. CASE ShutdownBegin(t)
  <2>1. Moves(t, "out", "s.stop")
    BY <1>2, StopperGoes DEF ShutdownBegin, Places, ShutdownSteps
  <2>2. /\ serverState = "RUNNING"
        /\ pc[Main] \notin Starting
        /\ (\A u \in Stoppers : ~Restarting(u))
    BY <1>2, <2>1 DEF ShutdownBegin, PlaceInv, StartInv, RestartInv, ShutdownInv
  <2>3. ContainerKept
    BY <1>2, <2>2, ContainerSame DEF ShutdownBegin
  <2>4. RestKept
    BY <1>2, <2>2 DEF ShutdownBegin, RestKept, Live, Released, latches, api
  <2>5. StartInv'
    BY <2>1, <2>2, <2>3, <2>4 DEF StartInv, PlaceInv
  <2>6. RestartInv'
    BY <2>1, <2>2, <2>3, <2>4 DEF RestartInv, PlaceInv
  <2>7. ShutdownInv'
    BY <2>1, <2>2, <2>3, <2>4 DEF ShutdownInv, RestartInv, PlaceInv
  <2> QED
    BY <2>3, <2>5, <2>6, <2>7
<1> QED
  BY <1>1, <1>2

\* Every step after which the server is still orderly preserves it.
LEMMA OrderlyInductive == IInv /\ OrderlyInv /\ [Next]_vars => OrderlyInv'
<1> SUFFICES ASSUME IInv, OrderlyInv, [Next]_vars, orderly' PROVE AllInv'
  BY DEF OrderlyInv, AllInv
<1>1. CASE UNCHANGED vars
  BY <1>1 DEF vars, container, api, latches, OrderlyInv, AllInv, StartInv, RestartInv,
      ShutdownInv,
      OldStopped, Restarting, Inside, Serving, Down, Joined, Released, Live
<1>2. CASE GracefulShutdown \/ ShutdownDropped
  <2>1. UNCHANGED <<serverState, pc, container, api, latches, orderly>>
    BY <1>2 DEF GracefulShutdown, ShutdownDropped
  <2> QED
    BY <2>1 DEF container, api, latches, OrderlyInv, AllInv, StartInv, RestartInv,
        ShutdownInv,
        OldStopped, Restarting, Inside, Serving, Down, Joined, Released, Live
<1>3. CASE StartStep \/ ExitInterrupted
  <2>1. orderly
    BY <1>3 DEF StartStep, Configure, StartConnect, StartConnectFails, Attach,
        StartStartup,
        StartThrows, StartLatch, StartDeclare, StartReturn, Exit, ExitInterrupted
  <2> QED
    BY <1>3, <2>1, StartOrderly DEF OrderlyInv, AllInv
<1>4. ASSUME NEW t \in Stoppers, RestartStep(t) PROVE AllInv'
  <2>1. ~RestartThrows(t)
    BY DEF RestartThrows
  <2>2. orderly
    BY <1>4, <2>1 DEF RestartStep, RestartStop, RestartCount, RestartConnect,
        RestartAttach,
        RestartStartup, RestartLatch
  <2> QED
    BY <1>4, <2>1, <2>2, RestartOrderly DEF OrderlyInv, AllInv
<1>5. ASSUME NEW t \in Stoppers, ShutdownStep(t) PROVE AllInv'
  <2>1. ~ShutdownThrows(t)
    BY DEF ShutdownThrows
  <2>2. orderly
    BY <1>5, <2>1 DEF ShutdownStep, ShutdownStop, ShutdownDetach, ShutdownDeclare,
        ShutdownCount,
        ShutdownClose
  <2> QED
    BY <1>5, <2>1, <2>2, ShutdownOrderly DEF OrderlyInv, AllInv
<1>6. ASSUME NEW t \in Stoppers, RestartBegin(t) \/ ShutdownBegin(t) PROVE AllInv'
  <2>1. orderly
    BY <1>6 DEF RestartBegin, ShutdownBegin
  <2> QED
    BY <1>6, <2>1, BeginOrderly DEF OrderlyInv, AllInv
<1> QED
  BY <1>1, <1>2, <1>3, <1>4, <1>5, <1>6 DEF Next, Stoppers

\* A server that had no failure and no restart among others is one of: starting,
\* serving, restarting, shutting down, released.
THEOREM OrderlyInvariance == Spec => []OrderlyInv
BY InitialOrderly, OrderlyInductive, Invariance, PTL DEF Spec

\* A server that is said to run, and that nobody restarts or shuts down, has its
\* container, its API client and a latch still to be counted down.
THEOREM RunningServer == Spec => []RunningServes
<1>1. OrderlyInv => RunningServes
  BY DEF OrderlyInv, RunningServes, ShutdownInv, Quiet, Inside, Restarting,
      RestartSteps, Serving, Live
<1> QED
  BY <1>1, OrderlyInvariance, PTL

\* A server that is said to be shut down, and that nobody shuts down any more,
\* has released everything: no step was left to somebody who did not take it.
THEOREM ShutdownServer == Spec => []ShutdownReleases
<1>1. IInv /\ OrderlyInv => ShutdownReleases
  <2> SUFFICES ASSUME IInv, OrderlyInv, orderly, Quiet, serverState = "SHUTDOWN"
               PROVE  /\ port = 0 /\ \A s \in Servers : jetty[s] \in {"none", "stopped"}
                      /\ apiClient = "closed"
                      /\ delegate = "null" /\ apiProxyLocal = "null"
                      /\ shutdownLatch \in counted
    BY DEF ShutdownReleases
  <2>1. /\ Down
        /\ Released
        /\ apiClient = "closed"
        /\ shutdownLatch \in counted
        /\ OldStopped
    BY DEF OrderlyInv, ShutdownInv, Quiet, Inside
  <2> QED
    BY <2>1 DEF Down, Released, OldStopped
<1> QED
  BY <1>1, Invariance, OrderlyInvariance, PTL

-----------------------------------------------------------------------------
(* OneContainer: the port is the only lock, and it holds.                  *)

\* The threads that have connected and not yet started a container.
Joins(t) == pc[t] \in {"attach", "startup", "r.attach", "r.startup"}

Started(s) == jetty[s] = "started"

\* One thread at most is between connect and startup, with the port; nothing is
\* started then.  A Server that is started has the port, or was made while an
\* older one, never started, had it and kept it for ever.
PortInv ==
  /\ \A t, u \in Threads : Joins(t) /\ Joins(u) => t = u
  /\ \A t \in Threads : Joins(t) =>
       /\ port # 0 /\ jetty[port] = "connected"
       /\ \A s \in Servers : ~Started(s)
  /\ \A s \in Servers : Started(s) => port \in 1..s /\ s <= server
  /\ \A s, u \in Servers : Started(s) /\ Started(u) => s = u

\* It holds before start.
LEMMA InitialPort == Init => PortInv
<1> SUFFICES ASSUME Init PROVE PortInv
  OBVIOUS
<1>1. \A t \in Threads : ~Joins(t)
  BY DEF Init, Joins, Threads
<1>2. \A s \in Servers : ~Started(s)
  BY DEF Init, Started
<1> QED
  BY <1>1, <1>2 DEF PortInv

\* A step that goes on without the container, and not past connect, keeps it.
LEMMA PortKept ==
  ASSUME PortInv, UNCHANGED container, \A t \in Threads : Joins(t)' => Joins(t)
  PROVE  PortInv'
BY DEF PortInv, container, Started

\* A new Server is bare and not started.
LEMMA ConnectFailsKeeps ==
  ASSUME TypeOK, PortInv, ConnectFails, \A t \in Threads : Joins(t)' => Joins(t)
  PROVE  PortInv'
<1>1. server \in 0..MaxServers /\ port \in 0..server /\ server' = server + 1 /\ port' = port
  BY DEF TypeOK, ConnectFails
<1>2. \A s \in Servers : Started(s)' => Started(s)
  BY DEF TypeOK, ConnectFails, Started
<1>3. port # 0 => port # server + 1
  BY <1>1
<1>4. port # 0 /\ jetty[port] = "connected" => jetty'[port] = "connected"
  BY <1>3, <1>1, BoundAssumption DEF TypeOK, ConnectFails, Servers
<1> QED
  BY <1>1, <1>2, <1>4 DEF PortInv, Servers

\* Who gets the port was alone: before, nobody had it.
LEMMA ConnectTakes ==
  ASSUME TypeOK, PortInv, Connect, server < MaxServers, NEW t \in Threads,
         \A u \in Threads : u # t /\ Joins(u)' => Joins(u)
  PROVE  PortInv'
<1>1. \A u \in Threads : ~Joins(u)
  BY DEF PortInv, Connect
<1>2. \A s \in Servers : ~Started(s)
  BY DEF PortInv, Connect, Servers
<1>3. /\ port' \in Servers /\ port' # 0 /\ jetty'[port'] = "connected"
      /\ \A s \in Servers : ~Started(s)'
  BY <1>2, BoundAssumption DEF Connect, TypeOK, Started, Servers
<1> QED
  BY <1>1, <1>3 DEF PortInv

\* Who starts the container was the one with the port, and is not any more.
LEMMA StartupGives ==
  ASSUME TypeOK, PortInv, Startup, server > 0, NEW t \in Threads, Joins(t), ~Joins(t)',
         \A u \in Threads : u # t /\ Joins(u)' => Joins(u)
  PROVE  PortInv'
<1>1. \A u \in Threads : ~Joins(u)'
  BY DEF PortInv
<1>2. server \in Servers /\ port \in 1..server /\ port' = port /\ server' = server
  BY DEF PortInv, TypeOK, Startup, Servers
<1>3. \A s \in Servers : Started(s)' => s = server
  BY <1>2 DEF PortInv, TypeOK, Startup, Started
<1> QED
  BY <1>1, <1>2, <1>3 DEF PortInv, Servers

\* A container that did not start holds nobody up.
LEMMA StartupFailsKeeps ==
  ASSUME TypeOK, PortInv, StartupFails, server > 0, NEW t \in Threads, Joins(t), ~Joins(t)',
         \A u \in Threads : u # t /\ Joins(u)' => Joins(u)
  PROVE  PortInv'
<1>1. \A u \in Threads : ~Joins(u)'
  BY DEF PortInv
<1>2. \A s \in Servers : ~Started(s)'
  BY DEF PortInv, TypeOK, StartupFails, Started
<1> QED
  BY <1>1, <1>2 DEF PortInv

\* Stopping the last Server frees the port only when nothing is started then.
LEMMA StopFrees ==
  ASSUME TypeOK, PortInv, server > 0, \A t \in Threads : Joins(t)' => Joins(t),
         Stop \/ StopFails
  PROVE  PortInv'
<1>1. CASE UNCHANGED container
  BY <1>1, PortKept
<1>2. ASSUME NEW how \in {"stopped", "failed"}, Stoppable, Stopped(how) PROVE PortInv'
  <2>1. /\ server \in Servers /\ port \in 0..server /\ server' = server
        /\ jetty[server] \in {"started", "failed"}
    BY <1>2 DEF TypeOK, Stoppable, Stopped, Servers
  <2>2. \A s \in Servers : Started(s)' => Started(s) /\ s # server
    BY <1>2, <2>1 DEF TypeOK, Stopped, Started
  <2>3. \A s \in Servers : s < server => jetty'[s] = jetty[s]
    BY <1>2, <2>1 DEF TypeOK, Stopped, Servers
  <2>4. ASSUME NEW s \in Servers, Started(s)' PROVE port' \in 1..s /\ s <= server'
    <3>1. port \in 1..s /\ s <= server /\ s # server
      BY <2>2, <2>4 DEF PortInv
    <3>2. port' = port
      BY <1>2, <2>1, <3>1 DEF Stopped, Servers
    <3> QED
      BY <3>1, <3>2, <2>1
  <2>5. ASSUME NEW t \in Threads, Joins(t)'
        PROVE  port' # 0 /\ jetty'[port'] = "connected" /\ \A s \in Servers : ~Started(s)'
    <3>1. port # 0 /\ jetty[port] = "connected" /\ \A s \in Servers : ~Started(s)
      BY <2>5 DEF PortInv
    <3>2. port # server
      BY <2>1, <3>1
    <3>3. port \in Servers /\ port < server
      BY <2>1, <3>1, <3>2, BoundAssumption DEF Servers
    <3>4. port' = port
      BY <1>2, <3>2 DEF Stopped
    <3> QED
      BY <2>2, <2>3, <3>1, <3>3, <3>4
  <2> QED
    BY <2>2, <2>4, <2>5 DEF PortInv
<1> QED
  BY <1>1, <1>2 DEF Stop, StopFails

\* The steps of Main keep the port with its thread.
LEMMA StartPort ==
  ASSUME IInv, PortInv, StartStep \/ ExitInterrupted
  PROVE  PortInv'
<1> USE DEF IInv, MainMoves
<1>1. Main \in Threads /\ \A u \in Threads : u # Main => u \in Stoppers
  BY DEF Threads
<1>2. CASE StartConnect
  <2>1. MainMoves("connect", "attach") /\ Connect /\ server = 0
    BY <1>2, MainGoes DEF StartConnect, Places, StartSteps, PlaceInv
  <2> QED
    BY <2>1, <1>1, ConnectTakes, BoundAssumption DEF Joins
<1>3. CASE StartConnectFails
  <2>1. MainMoves("connect", "gone") /\ ConnectFails
    BY <1>3, MainGoes DEF StartConnectFails, Places
  <2> QED
    BY <2>1, <1>1, ConnectFailsKeeps DEF Joins
<1>4. CASE StartStartup
  <2>1. MainMoves("startup", "latch") /\ Startup /\ server > 0
    BY <1>4, MainGoes DEF StartStartup, Places, StartSteps, PlaceInv
  <2> QED
    BY <2>1, <1>1, StartupGives DEF Joins
<1>5. CASE StartThrows \/ ExitInterrupted
  <2>1. \/ \E from \in {"configure", "connect", "attach"} :
             MainMoves(from, "gone") /\ UNCHANGED container
        \/ MainMoves("await", "woken") /\ UNCHANGED container
        \/ MainMoves("connect", "gone") /\ ConnectFails
        \/ \E to \in {"gone", "woken"} :
             MainMoves("startup", to) /\ (StartupFails \/ Startup) /\ server > 0
    BY <1>5, MainGoes DEF StartThrows, ExitInterrupted, ConnectThrows, Places, PlaceInv
  <2>2. CASE UNCHANGED container
    BY <2>1, <2>2, <1>1, PortKept DEF Joins
  <2>3. CASE MainMoves("connect", "gone") /\ ConnectFails
    BY <2>3, <1>1, ConnectFailsKeeps DEF Joins
  <2>4. CASE \E to \in {"gone", "woken"} :
               MainMoves("startup", to) /\ (StartupFails \/ Startup) /\ server > 0
    BY <2>4, <1>1, StartupFailsKeeps, StartupGives DEF Joins
  <2> QED
    BY <2>1, <2>2, <2>3, <2>4
<1>6. CASE Configure \/ Attach \/ StartLatch \/ StartDeclare \/ StartReturn \/ Exit
  <2>1. /\ UNCHANGED container
        /\ \/ MainMoves("configure", "connect") \/ MainMoves("attach", "startup")
           \/ MainMoves("latch", "declare") \/ MainMoves("declare", "return")
           \/ MainMoves("return", "await") \/ MainMoves("await", "gone")
    BY <1>6, MainGoes DEF Configure, Attach, StartLatch, StartDeclare, StartReturn, Exit,
       Places, StartSteps
  <2> QED
    BY <2>1, <1>1, PortKept DEF Joins
<1> QED
  BY <1>2, <1>3, <1>4, <1>5, <1>6 DEF StartStep

\* The steps of restart() do.
LEMMA RestartPort ==
  ASSUME IInv, PortInv, NEW t \in Stoppers, RestartStep(t)
  PROVE  PortInv'
<1> USE DEF IInv, Moves
<1>1. t \in Threads /\ \A u \in Threads : u = Main \/ u \in Stoppers
  BY DEF Threads
<1>2. server > 0
  BY DEF RestartStep, RestartStop, RestartThrows, RestartCount, RestartConnect, RestartAttach,
     RestartStartup, RestartLatch, Goes, PlaceInv, Starting
<1>3. CASE RestartStop(t)
  <2>1. Moves(t, "r.stop", "r.count") /\ Stop
    BY <1>3, StopperGoes DEF RestartStop, Places, RestartSteps
  <2> QED
    BY <2>1, <1>1, <1>2, StopFrees DEF Joins
<1>4. CASE RestartThrows(t)
  <2>1. \/ Moves(t, "r.stop", "out") /\ StopFails
        \/ Moves(t, "r.connect", "out") /\ (ConnectFails \/ UNCHANGED container)
        \/ Moves(t, "r.startup", "out") /\ StartupFails
    BY <1>4, StopperGoes DEF RestartThrows, ConnectThrows, Places
  <2>2. CASE Moves(t, "r.stop", "out") /\ StopFails
    BY <2>2, <1>1, <1>2, StopFrees DEF Joins
  <2>3. CASE Moves(t, "r.connect", "out") /\ (ConnectFails \/ UNCHANGED container)
    BY <2>3, <1>1, ConnectFailsKeeps, PortKept DEF Joins
  <2>4. CASE Moves(t, "r.startup", "out") /\ StartupFails
    BY <2>4, <1>1, <1>2, StartupFailsKeeps DEF Joins
  <2> QED
    BY <2>1, <2>2, <2>3, <2>4
<1>5. CASE RestartConnect(t)
  <2>1. Moves(t, "r.connect", "r.attach") /\ Connect /\ server < MaxServers
    BY <1>5, StopperGoes DEF RestartConnect, Places, RestartSteps
  <2> QED
    BY <2>1, <1>1, ConnectTakes DEF Joins
<1>6. CASE RestartStartup(t)
  <2>1. Moves(t, "r.startup", "r.latch") /\ Startup
    BY <1>6, StopperGoes DEF RestartStartup, Places, RestartSteps
  <2> QED
    BY <2>1, <1>1, <1>2, StartupGives DEF Joins
<1>7. CASE RestartCount(t) \/ RestartAttach(t) \/ RestartLatch(t)
  <2>1. /\ UNCHANGED container
        /\ \/ Moves(t, "r.count", "r.connect") \/ Moves(t, "r.attach", "r.startup")
           \/ Moves(t, "r.latch", "out")
    BY <1>7, StopperGoes DEF RestartCount, RestartAttach, RestartLatch, Places, RestartSteps
  <2> QED
    BY <2>1, <1>1, PortKept DEF Joins
<1> QED
  BY <1>3, <1>4, <1>5, <1>6, <1>7 DEF RestartStep

\* Those of shutdown() and of whoever begins one may free it.
LEMMA ShutdownPort ==
  ASSUME IInv, PortInv, NEW t \in Stoppers,
         ShutdownStep(t) \/ RestartBegin(t) \/ ShutdownBegin(t)
  PROVE  PortInv'
<1> USE DEF IInv, Moves
<1>1. t \in Threads /\ \A u \in Threads : u = Main \/ u \in Stoppers
  BY DEF Threads
<1>2. CASE ShutdownStop(t) \/ ShutdownThrows(t)
  <2>1. \/ Moves(t, "s.stop", "s.detach") /\ Stop
        \/ Moves(t, "s.stop", "s.close") /\ StopFails
    BY <1>2, StopperGoes DEF ShutdownStop, ShutdownThrows, Places, ShutdownSteps
  <2>2. server > 0
    BY <2>1 DEF PlaceInv, Starting
  <2> QED
    BY <2>1, <2>2, <1>1, StopFrees DEF Joins
<1>3. CASE ShutdownDetach(t) \/ ShutdownDeclare(t) \/ ShutdownCount(t) \/ ShutdownClose(t)
  <2>1. /\ UNCHANGED container
        /\ \/ Moves(t, "s.detach", "s.declare") \/ Moves(t, "s.declare", "s.count")
           \/ Moves(t, "s.count", "s.close") \/ Moves(t, "s.close", "out")
    BY <1>3, StopperGoes DEF ShutdownDetach, ShutdownDeclare, ShutdownCount, ShutdownClose,
       Places, ShutdownSteps
  <2> QED
    BY <2>1, <1>1, PortKept DEF Joins
<1>4. CASE RestartBegin(t) \/ ShutdownBegin(t)
  <2>1. /\ UNCHANGED container
        /\ Moves(t, "out", "r.stop") \/ Moves(t, "out", "s.stop")
    BY <1>4, StopperGoes DEF RestartBegin, ShutdownBegin, Places, RestartSteps, ShutdownSteps
  <2> QED
    BY <2>1, <1>1, PortKept DEF Joins
<1> QED
  BY <1>2, <1>3, <1>4 DEF ShutdownStep

\* The port is held as PortInv says, however restarts overlap and fail.
LEMMA PortInvariance == Spec => []PortInv
<1>1. IInv /\ PortInv /\ [Next]_vars => PortInv'
  <2> SUFFICES ASSUME IInv, PortInv, [Next]_vars PROVE PortInv'
    OBVIOUS
  <2>1. CASE GracefulShutdown \/ ShutdownDropped \/ UNCHANGED vars
    <3>1. UNCHANGED <<pc, container>>
      BY <2>1 DEF GracefulShutdown, ShutdownDropped, vars
    <3> QED
      BY <3>1, PortKept DEF Joins
  <2> QED
    BY <2>1, StartPort, RestartPort, ShutdownPort DEF Next, Stoppers
<1> QED
  BY <1>1, InitialPort, Invariance, PTL DEF Spec

\* At most one container is started, though nothing but the port keeps the
\* restarts of several threads apart.
THEOREM OneStarted == Spec => []OneContainer
<1>1. PortInv => OneContainer
  BY DEF PortInv, OneContainer, Started, Servers
<1> QED
  BY <1>1, PortInvariance, PTL

-----------------------------------------------------------------------------
(* Who counts Main's latch down.                                           *)

\* Where a thread is between its stop of the container and its countDown().
CountSteps == {"r.count", "s.detach", "s.declare", "s.count"}

\* Main waits for a latch of start or restart.  The first latch is counted
\* down before there is a second one; when the Server of start has stopped it
\* is counted down, or somebody is about to.  The scheduler never restarts.
WaitInv ==
  /\ process = "up" => pc[Main] \notin {"gone", "woken"}
  /\ pc[Main] = "await" => awaited > 0
  /\ awaited # 0 => pc[Main] \in {"await", "gone", "woken"}
  /\ pc[Main] \in {"configure", "connect", "attach", "startup", "latch"} =>
       shutdownLatch = 0
  /\ shutdownLatch > 1 => 1 \in counted
  /\ \A t \in Stoppers :
       pc[t] \in {"r.connect", "r.attach", "r.startup", "r.latch"} => 1 \in counted
  /\ jetty[1] = "stopped" => 1 \in counted \/ \E t \in Stoppers : pc[t] \in CountSteps
  /\ pc[Scheduler] \notin RestartSteps

\* It holds before start.
LEMMA InitialWait == Init => WaitInv
<1> SUFFICES ASSUME Init PROVE WaitInv
  OBVIOUS
<1>1. /\ pc[Main] = "configure" /\ \A t \in Stoppers : pc[t] = "out"
      /\ awaited = 0 /\ shutdownLatch = 0
  BY ThreadAssumption DEF Init, Stoppers, Threads
<1>2. jetty[1] # "stopped"
  BY BoundAssumption DEF Init, Servers
<1> QED
  BY <1>1, <1>2 DEF WaitInv, Stoppers, RestartSteps

\* The steps of Main preserve it.
LEMMA StartWait ==
  ASSUME IInv, WaitInv, StartStep \/ ExitInterrupted
  PROVE  WaitInv'
<1> USE BoundAssumption DEF IInv, MainMoves, WaitInv, CountSteps
<1>1. Scheduler \in Stoppers /\ 1 \in Servers
  BY DEF Stoppers, Servers
<1>2. jetty \in [Servers -> JettyStates] /\ server \in 0..MaxServers
  BY DEF TypeOK
<1>3. CASE Configure \/ Attach \/ StartDeclare
  <2>1. /\ UNCHANGED <<container, latches, process>>
        /\ \/ MainMoves("configure", "connect") \/ MainMoves("attach", "startup")
           \/ MainMoves("declare", "return")
    BY <1>3, MainGoes DEF Configure, Attach, StartDeclare, Places, StartSteps
  <2> QED
    BY <2>1, <1>1 DEF container, latches
<1>4. CASE StartConnect
  <2>1. MainMoves("connect", "attach") /\ Connect /\ server = 0 /\ UNCHANGED <<latches, process>>
    BY <1>4, MainGoes DEF StartConnect, Places, StartSteps, PlaceInv
  <2>2. jetty'[1] = "connected"
    BY <2>1, <1>1, <1>2 DEF Connect
  <2> QED
    BY <2>1, <2>2, <1>1 DEF latches
<1>5. CASE StartConnectFails \/ StartThrows \/ ExitInterrupted
  <2>1. /\ process' # "up" /\ UNCHANGED latches
        /\ \/ \E from \in {"configure", "connect", "attach"} :
                MainMoves(from, "gone") /\ UNCHANGED container
           \/ MainMoves("await", "woken") /\ UNCHANGED container
           \/ MainMoves("connect", "gone") /\ ConnectFails /\ server = 0
           \/ \E to \in {"gone", "woken"} :
                MainMoves("startup", to) /\ (StartupFails \/ Startup) /\ server = 1
    BY <1>5, MainGoes DEF StartConnectFails, StartThrows, ExitInterrupted, ConnectThrows, Places,
       PlaceInv
  <2>2. jetty'[1] = "stopped" => jetty[1] = "stopped"
    BY <2>1, <1>1, <1>2 DEF ConnectFails, StartupFails, Startup, container
  <2> QED
    BY <2>1, <2>2, <1>1 DEF latches
<1>6. CASE StartStartup
  <2>1. /\ MainMoves("startup", "latch") /\ Startup /\ server = 1
        /\ UNCHANGED <<latches, process>>
    BY <1>6, MainGoes DEF StartStartup, Places, StartSteps, PlaceInv
  <2>2. jetty'[1] = "started"
    BY <2>1, <1>1, <1>2 DEF Startup
  <2> QED
    BY <2>1, <2>2, <1>1 DEF latches
<1>7. CASE StartLatch
  <2>1. /\ MainMoves("latch", "declare") /\ NewLatch
        /\ UNCHANGED <<container, counted, awaited, process>>
    BY <1>7, MainGoes DEF StartLatch, Places, StartSteps
  <2> QED
    BY <2>1, <1>1 DEF container, NewLatch
<1>8. CASE StartReturn
  <2>1. /\ MainMoves("return", "await") /\ awaited' = shutdownLatch
        /\ UNCHANGED <<container, shutdownLatch, counted, process>>
    BY <1>8, MainGoes DEF StartReturn, Places, StartSteps
  <2>2. awaited' > 0
    BY <2>1 DEF PlaceInv, Starting, TypeOK
  <2> QED
    BY <2>1, <2>2, <1>1 DEF container
<1>9. CASE Exit
  <2>1. MainMoves("await", "gone") /\ process' # "up" /\ UNCHANGED <<container, latches>>
    BY <1>9, MainGoes DEF Exit, Places
  <2> QED
    BY <2>1, <1>1 DEF container, latches
<1> QED
  BY <1>3, <1>4, <1>5, <1>6, <1>7, <1>8, <1>9 DEF StartStep

\* Those of restart() do.
LEMMA RestartWait ==
  ASSUME IInv, WaitInv, NEW t \in Stoppers, RestartStep(t)
  PROVE  WaitInv'
<1> USE BoundAssumption DEF IInv, Moves, WaitInv, CountSteps
<1>1. Scheduler \in Stoppers /\ 1 \in Servers
  BY DEF Stoppers, Servers
<1>2. jetty \in [Servers -> JettyStates] /\ server \in 0..MaxServers /\ shutdownLatch \in Nat
  BY DEF TypeOK
<1>3. t # Scheduler /\ serverState # "INITIALIZING" /\ server > 0 /\ shutdownLatch > 0
  BY DEF RestartStep, RestartStop, RestartThrows, RestartCount, RestartConnect, RestartAttach,
     RestartStartup, RestartLatch, Goes, PlaceInv, Starting, RestartSteps
<1>4. UNCHANGED <<awaited, process>> /\ pc[Main] \notin Starting
  BY <1>3 DEF RestartStep, RestartStop, RestartThrows, RestartCount, RestartConnect,
     RestartAttach, RestartStartup, RestartLatch, PlaceInv, latches
<1>5. CASE RestartStop(t)
  <2>1. Moves(t, "r.stop", "r.count") /\ UNCHANGED latches
    BY <1>5, StopperGoes DEF RestartStop, Places, RestartSteps
  <2> QED
    BY <2>1, <1>1, <1>3, <1>4 DEF latches, RestartSteps, Starting
<1>6. CASE RestartThrows(t)
  <2>1. /\ UNCHANGED latches
        /\ \/ Moves(t, "r.stop", "out") /\ StopFails
           \/ Moves(t, "r.connect", "out") /\ (ConnectFails \/ UNCHANGED container)
           \/ Moves(t, "r.startup", "out") /\ StartupFails
    BY <1>6, StopperGoes DEF RestartThrows, ConnectThrows, Places
  <2>2. jetty'[1] = "stopped" => jetty[1] = "stopped"
    BY <2>1, <1>1, <1>2, <1>3 DEF StopFails, Stopped, ConnectFails, StartupFails, container
  <2> QED
    BY <2>1, <2>2, <1>1, <1>3, <1>4 DEF latches, RestartSteps, Starting
<1>7. CASE RestartCount(t)
  <2>1. /\ Moves(t, "r.count", "r.connect") /\ counted' = counted \cup {shutdownLatch}
        /\ UNCHANGED <<container, shutdownLatch>>
    BY <1>7, StopperGoes DEF RestartCount, Places, RestartSteps
  <2>2. 1 \in counted'
    BY <2>1, <1>2, <1>3
  <2> QED
    BY <2>1, <2>2, <1>1, <1>3, <1>4 DEF container, Starting
<1>8. CASE RestartConnect(t)
  <2>1. Moves(t, "r.connect", "r.attach") /\ UNCHANGED latches
    BY <1>8, StopperGoes DEF RestartConnect, Places, RestartSteps
  <2> QED
    BY <2>1, <1>1, <1>3, <1>4 DEF latches, Starting
<1>9. CASE RestartAttach(t)
  <2>1. Moves(t, "r.attach", "r.startup") /\ UNCHANGED latches
    BY <1>9, StopperGoes DEF RestartAttach, Places, RestartSteps
  <2> QED
    BY <2>1, <1>1, <1>3, <1>4 DEF latches, Starting
<1>10. CASE RestartStartup(t)
  <2>1. Moves(t, "r.startup", "r.latch") /\ UNCHANGED latches
    BY <1>10, StopperGoes DEF RestartStartup, Places, RestartSteps
  <2> QED
    BY <2>1, <1>1, <1>3, <1>4 DEF latches, Starting
<1>11. CASE RestartLatch(t)
  <2>1. Moves(t, "r.latch", "out") /\ NewLatch /\ UNCHANGED <<container, counted>>
    BY <1>11, StopperGoes DEF RestartLatch, Places
  <2> QED
    BY <2>1, <1>1, <1>3, <1>4 DEF container, NewLatch, Starting
<1> QED
  BY <1>5, <1>6, <1>7, <1>8, <1>9, <1>10, <1>11 DEF RestartStep

\* Those of shutdown(), and the first steps of both, do.
LEMMA ShutdownWait ==
  ASSUME IInv, WaitInv, NEW t \in Stoppers, ShutdownStep(t) \/ ShutdownBegin(t)
  PROVE  WaitInv'
<1> USE BoundAssumption DEF IInv, Moves, WaitInv, CountSteps, RestartSteps
<1>1. Scheduler \in Stoppers /\ 1 \in Servers
  BY DEF Stoppers, Servers
<1>2. jetty \in [Servers -> JettyStates] /\ server \in 0..MaxServers /\ shutdownLatch \in Nat
  BY DEF TypeOK
<1>3. UNCHANGED <<awaited, process, shutdownLatch>>
  BY DEF ShutdownStep, ShutdownStop, ShutdownThrows, ShutdownDetach, ShutdownDeclare,
     ShutdownCount, ShutdownClose, ShutdownBegin, latches
<1>4. CASE ShutdownStop(t)
  <2>1. Moves(t, "s.stop", "s.detach") /\ UNCHANGED latches
    BY <1>4, StopperGoes DEF ShutdownStop, Places, ShutdownSteps
  <2> QED
    BY <2>1, <1>1, <1>3 DEF latches
<1>5. CASE ShutdownThrows(t)
  <2>1. Moves(t, "s.stop", "s.close") /\ StopFails /\ UNCHANGED latches /\ server > 0
    BY <1>5, StopperGoes DEF ShutdownThrows, Places, ShutdownSteps, PlaceInv, Starting
  <2>2. jetty'[1] = "stopped" => jetty[1] = "stopped"
    BY <2>1, <1>1, <1>2 DEF StopFails, Stopped
  <2> QED
    BY <2>1, <2>2, <1>1, <1>3 DEF latches
<1>6. CASE ShutdownCount(t)
  <2>1. /\ Moves(t, "s.count", "s.close") /\ counted' = counted \cup {shutdownLatch}
        /\ UNCHANGED container /\ shutdownLatch > 0
    BY <1>6, StopperGoes DEF ShutdownCount, Places, ShutdownSteps, PlaceInv
  <2>2. 1 \in counted'
    BY <2>1, <1>2
  <2> QED
    BY <2>1, <2>2, <1>1, <1>3 DEF container
<1>7. CASE ShutdownDetach(t) \/ ShutdownDeclare(t) \/ ShutdownClose(t) \/ ShutdownBegin(t)
  <2>1. /\ UNCHANGED <<container, latches>>
        /\ \/ Moves(t, "s.detach", "s.declare") \/ Moves(t, "s.declare", "s.count")
           \/ Moves(t, "s.close", "out") \/ Moves(t, "out", "s.stop")
    BY <1>7, StopperGoes DEF ShutdownDetach, ShutdownDeclare, ShutdownClose, ShutdownBegin,
       Places, ShutdownSteps
  <2> QED
    BY <2>1, <1>1, <1>3 DEF container, latches
<1> QED
  BY <1>4, <1>5, <1>6, <1>7 DEF ShutdownStep

\* What Main waits for holds from the start, and no step disturbs it.
LEMMA WaitInvariance == Spec => []WaitInv
<1>1. IInv /\ WaitInv /\ [Next]_vars => WaitInv'
  <2> SUFFICES ASSUME IInv, WaitInv, [Next]_vars PROVE WaitInv'
    OBVIOUS
  <2>1. CASE GracefulShutdown \/ ShutdownDropped \/ UNCHANGED vars
    <3>1. UNCHANGED <<pc, container, latches, process>>
      BY <2>1 DEF GracefulShutdown, ShutdownDropped, vars
    <3> QED
      BY <3>1 DEF WaitInv, container, latches
  <2>2. ASSUME NEW t \in Callers, RestartBegin(t) PROVE WaitInv'
    <3>1. t \in Stoppers /\ t # Scheduler /\ Scheduler \in Stoppers
      BY ThreadAssumption DEF Stoppers
    <3>2. Moves(t, "out", "r.stop") /\ UNCHANGED <<container, latches, process>>
      BY <2>2, <3>1, StopperGoes DEF RestartBegin, Places, RestartSteps, IInv
    <3> QED
      BY <3>1, <3>2 DEF Moves, WaitInv, container, latches, CountSteps, RestartSteps
  <2> QED
    BY <2>1, <2>2, StartWait, RestartWait, ShutdownWait DEF Next, Stoppers
<1> QED
  BY <1>1, InitialWait, Invariance, PTL DEF Spec

-----------------------------------------------------------------------------
(* Liveness: the process ends.  Each stage is one thread's next step, taken *)
(* because Fairness says so; what other threads do meanwhile leaves the    *)
(* stage as it is, or ends the process.                                    *)

\* A thread inside restart or shutdown moves by its own steps only.
LEMMA OwnSteps ==
  ASSUME TypeOK, [Next]_vars, NEW t \in Stoppers, pc[t] # "out"
  PROVE  pc'[t] = pc[t] \/ RestartStep(t) \/ ShutdownStep(t)
<1>1. pc \in [Threads -> Places] /\ t \in Threads /\ t # Main
  BY ThreadAssumption DEF TypeOK, Places, Threads, Stoppers
<1>2. CASE StartStep \/ ExitInterrupted
  BY <1>1, <1>2 DEF StartStep, Configure, StartConnect, StartConnectFails, Attach,
     StartStartup, StartThrows, StartLatch, StartDeclare, StartReturn, Exit, ExitInterrupted, Goes
<1>3. ASSUME NEW u \in Stoppers, RestartStep(u), u # t PROVE pc'[t] = pc[t]
  BY <1>1, <1>3 DEF RestartStep, RestartStop, RestartThrows, RestartCount, RestartConnect,
     RestartAttach, RestartStartup, RestartLatch, Goes
<1>4. ASSUME NEW u \in Stoppers, ShutdownStep(u), u # t PROVE pc'[t] = pc[t]
  BY <1>1, <1>4 DEF ShutdownStep, ShutdownStop, ShutdownThrows, ShutdownDetach,
     ShutdownDeclare, ShutdownCount, ShutdownClose, Goes
<1>5. ASSUME NEW u \in Stoppers, RestartBegin(u) \/ ShutdownBegin(u) PROVE pc'[t] = pc[t]
  BY <1>1, <1>5 DEF RestartBegin, ShutdownBegin, Goes
<1>6. CASE GracefulShutdown \/ ShutdownDropped \/ UNCHANGED vars
  BY <1>6 DEF GracefulShutdown, ShutdownDropped, vars
<1> QED
  BY <1>2, <1>3, <1>4, <1>5, <1>6 DEF Next, Stoppers

\* Only Main's steps end the process or read the latch to wait for.
MainIdle == UNCHANGED <<process, awaited>> /\ pc'[Main] = pc[Main]

LEMMA MainSteps ==
  ASSUME TypeOK, [Next]_vars
  PROVE  StartStep \/ ExitInterrupted \/ MainIdle
<1>1. /\ pc \in [Threads -> Places] /\ Main \in Threads
      /\ \A t \in Stoppers : t \in Threads /\ t # Main
  BY ThreadAssumption DEF TypeOK, Places, Threads, Stoppers
<1>2. ASSUME NEW u \in Stoppers, RestartStep(u) PROVE MainIdle
  BY <1>1, <1>2 DEF MainIdle, RestartStep, RestartStop, RestartThrows, RestartCount,
     RestartConnect, RestartAttach, RestartStartup, RestartLatch, Goes, latches
<1>3. ASSUME NEW u \in Stoppers, ShutdownStep(u) PROVE MainIdle
  BY <1>1, <1>3 DEF MainIdle, ShutdownStep, ShutdownStop, ShutdownThrows, ShutdownDetach,
     ShutdownDeclare, ShutdownCount, ShutdownClose, Goes, latches
<1>4. ASSUME NEW u \in Stoppers, RestartBegin(u) \/ ShutdownBegin(u) PROVE MainIdle
  BY <1>1, <1>4 DEF MainIdle, RestartBegin, ShutdownBegin, Goes, latches
<1>5. CASE GracefulShutdown \/ ShutdownDropped \/ UNCHANGED vars
  BY <1>5 DEF MainIdle, GracefulShutdown, ShutdownDropped, vars, latches
<1> QED
  BY <1>2, <1>3, <1>4, <1>5 DEF Next, Stoppers

\* A latch that was counted down stays so.
LEMMA OnlyOnce == [Next]_vars => counted \subseteq counted'
<1> SUFFICES ASSUME [Next]_vars PROVE counted \subseteq counted'
  OBVIOUS
<1>1. CASE StartStep \/ ExitInterrupted
  BY <1>1 DEF StartStep, Configure, StartConnect, StartConnectFails, Attach,
     StartStartup, StartThrows, StartLatch, StartDeclare, StartReturn, Exit, ExitInterrupted, latches
<1>2. ASSUME NEW u \in Stoppers, RestartStep(u) PROVE counted \subseteq counted'
  BY <1>2 DEF RestartStep, RestartStop, RestartThrows, RestartCount, RestartConnect,
     RestartAttach, RestartStartup, RestartLatch, latches
<1>3. ASSUME NEW u \in Stoppers, ShutdownStep(u) PROVE counted \subseteq counted'
  BY <1>3 DEF ShutdownStep, ShutdownStop, ShutdownThrows, ShutdownDetach,
     ShutdownDeclare, ShutdownCount, ShutdownClose, latches
<1>4. ASSUME NEW u \in Stoppers, RestartBegin(u) \/ ShutdownBegin(u)
      PROVE  counted \subseteq counted'
  BY <1>4 DEF RestartBegin, ShutdownBegin, latches
<1>5. CASE GracefulShutdown \/ ShutdownDropped \/ UNCHANGED vars
  BY <1>5 DEF GracefulShutdown, ShutdownDropped, vars, latches
<1> QED
  BY <1>1, <1>2, <1>3, <1>4, <1>5 DEF Next, Stoppers

\* Where the steps of shutdown lead, and who counts down.
LEMMA NextPlace ==
  ASSUME TypeOK, NEW t \in Stoppers, RestartStep(t) \/ ShutdownStep(t)
  PROVE  /\ pc[t] = "s.stop" => pc'[t] = "s.detach" \/ ~orderly'
         /\ pc[t] = "s.detach" => pc'[t] = "s.declare"
         /\ pc[t] = "s.declare" => pc'[t] = "s.count" /\ serverState' = "SHUTDOWN"
         /\ pc[t] \in {"r.count", "s.count"} =>
              counted' = counted \cup {shutdownLatch} /\ shutdownLatch' = shutdownLatch
<1>1. pc \in [Threads -> Places] /\ t \in Threads
  BY DEF TypeOK, Places, Threads
<1>2. CASE RestartStep(t)
  BY <1>1, <1>2 DEF RestartStep, RestartStop, RestartThrows, RestartCount, RestartConnect,
     RestartAttach, RestartStartup, RestartLatch, Goes
<1>3. CASE ShutdownStep(t)
  BY <1>1, <1>3 DEF ShutdownStep, ShutdownStop, ShutdownThrows, ShutdownDetach,
     ShutdownDeclare, ShutdownCount, ShutdownClose, Goes
<1> QED
  BY <1>2, <1>3

\* Main waits for the latch of start; it has been counted down.
Waits == process = "up" /\ awaited = 1
Heard == Waits /\ 1 \in counted
Ended == process # "up"

\* Main waits until it has heard of the latch.
LEMMA WaitsOn ==
  ASSUME IInv, WaitInv, Waits, [Next]_vars
  PROVE  Waits' \/ Ended'
<1>1. pc[Main] = "await"
  BY DEF WaitInv, Waits
<1>2. StartStep \/ ExitInterrupted => process' = "exit0"
  BY <1>1 DEF StartStep, Configure, StartConnect, StartConnectFails, Attach,
     StartStartup, StartThrows, StartLatch, StartDeclare, StartReturn, Exit, ExitInterrupted, Goes
<1> QED
  BY <1>2, MainSteps DEF MainIdle, IInv, Waits, Ended

\* A thread past its stop counts the latch down.
LEMMA CounterCounts ==
  ASSUME NEW t \in Stoppers
  PROVE  FairSpec => ((Waits /\ pc[t] \in CountSteps) ~> (Heard \/ Ended))
<1> DEFINE At(p) == Waits /\ pc[t] = p
           AtLast == Waits /\ pc[t] \in {"r.count", "s.count"}
           Done == Heard \/ Ended
           Going == RestartStep(t) \/ ShutdownStep(t)
<1>1. ASSUME IInv, WaitInv, Waits, pc[t] \in CountSteps, [Next]_vars
      PROVE  /\ Done' \/ (Waits' /\ pc'[t] = pc[t]) \/ Going
             /\ Going => \/ Done'
                         \/ pc[t] = "s.detach" /\ At("s.declare")'
                         \/ pc[t] = "s.declare" /\ At("s.count")'
  <2>1. Waits' \/ Ended'
    BY <1>1, WaitsOn
  <2>2. pc'[t] = pc[t] \/ Going
    BY <1>1, OwnSteps DEF IInv, CountSteps
  <2>3. Going /\ pc[t] \in {"r.count", "s.count"} => 1 \in counted'
    <3>1. shutdownLatch = 1 \/ 1 \in counted
      BY <1>1 DEF IInv, TypeOK, PlaceInv, WaitInv, Waits, Starting, CountSteps
    <3> QED
      BY <1>1, <3>1, NextPlace, OnlyOnce DEF IInv
  <2> QED
    BY <1>1, <2>1, <2>2, <2>3, NextPlace DEF IInv, CountSteps, Heard
<1>2. ASSUME Waits, pc[t] \in CountSteps PROVE MayGoOn(t)
  BY <1>2 DEF Waits, CountSteps, MayGoOn, RestartSteps, ShutdownSteps
<1>3. FairSpec => [](IInv /\ WaitInv) /\ ([]<>~MayGoOn(t) \/ []<><<Going>>_vars)
  <2>1. Fairness => ([]<>~MayGoOn(t) \/ []<><<Going>>_vars)
    BY DEF Fairness
  <2> QED
    BY <2>1, Invariance, WaitInvariance, PTL DEF FairSpec
<1> HIDE DEF Going
<1>4. FairSpec => (AtLast ~> Done)
  <2>1. IInv /\ WaitInv /\ AtLast /\ [Next]_vars => AtLast' \/ Done'
    BY <1>1 DEF CountSteps
  <2>2. IInv /\ WaitInv /\ AtLast /\ <<Going /\ Next>>_vars => Done'
    BY <1>1 DEF CountSteps
  <2>3. AtLast => MayGoOn(t)
    BY <1>2 DEF CountSteps
  <2> HIDE DEF AtLast, Done
  <2> QED
    BY <1>3, <2>1, <2>2, <2>3, PTL DEF FairSpec, Spec
<1>5. FairSpec => (At("s.declare") ~> (At("s.count") \/ Done))
  <2>1. IInv /\ WaitInv /\ At("s.declare") /\ [Next]_vars =>
          At("s.declare")' \/ At("s.count")' \/ Done'
    BY <1>1 DEF CountSteps
  <2>2. IInv /\ WaitInv /\ At("s.declare") /\ <<Going /\ Next>>_vars => At("s.count")' \/ Done'
    BY <1>1 DEF CountSteps
  <2>3. At("s.declare") => MayGoOn(t)
    BY <1>2 DEF CountSteps
  <2> HIDE DEF At, Done
  <2> QED
    BY <1>3, <2>1, <2>2, <2>3, PTL DEF FairSpec, Spec
<1>6. FairSpec => (At("s.detach") ~> (At("s.declare") \/ Done))
  <2>1. IInv /\ WaitInv /\ At("s.detach") /\ [Next]_vars =>
          At("s.detach")' \/ At("s.declare")' \/ Done'
    BY <1>1 DEF CountSteps
  <2>2. IInv /\ WaitInv /\ At("s.detach") /\ <<Going /\ Next>>_vars => At("s.declare")' \/ Done'
    BY <1>1 DEF CountSteps
  <2>3. At("s.detach") => MayGoOn(t)
    BY <1>2 DEF CountSteps
  <2> HIDE DEF At, Done
  <2> QED
    BY <1>3, <2>1, <2>2, <2>3, PTL DEF FairSpec, Spec
<1>7. /\ Waits /\ pc[t] \in CountSteps => At("s.detach") \/ At("s.declare") \/ AtLast
      /\ At("s.count") => AtLast
  BY DEF CountSteps
<1>8. Done => Heard \/ Ended
  OBVIOUS
<1> HIDE DEF At, AtLast, Done
<1> QED
  BY <1>4, <1>5, <1>6, <1>7, <1>8, PTL

\* Main hears of it and exits.
LEMMA HeardEnds == FairSpec => (Heard ~> Ended)
<1>1. IInv /\ WaitInv /\ Heard /\ [Next]_vars => Heard' \/ Ended'
  BY WaitsOn, OnlyOnce DEF Heard
<1>2. IInv /\ WaitInv /\ Heard /\ <<StartStep /\ Next>>_vars => Ended'
  BY DEF WaitInv, Heard, Waits, Ended, StartStep, Configure, StartConnect, StartConnectFails,
     Attach, StartStartup, StartThrows, StartLatch, StartDeclare, StartReturn, Exit, ExitInterrupted, Goes
<1>3. IInv /\ WaitInv /\ Heard => MayStart
  BY DEF WaitInv, Heard, Waits, MayStart, StartSteps
<1> QED
  BY <1>1, <1>2, <1>3, Invariance, WaitInvariance, PTL DEF FairSpec, Fairness, Spec

\* When the Server of start has stopped the process ends, whoever stopped it
\* and whatever failed afterwards.
THEOREM StoppedServerEnds == FairSpec => (FirstStopped ~> process # "up")
<1> DEFINE Counts(t) == Waits /\ pc[t] \in CountSteps
           Done == Heard \/ Ended
<1>1. FairSpec => [](\A t \in Stoppers : (Counts(t) => <>Done))
  <2>1. ASSUME NEW t \in Stoppers PROVE FairSpec => [](Counts(t) => <>Done)
    BY CounterCounts, PTL
  <2>2. FairSpec => \A t \in Stoppers : [](Counts(t) => <>Done)
    BY <2>1
  <2> HIDE DEF Counts, Done
  <2>3. (\A t \in Stoppers : [](Counts(t) => <>Done))
          => [](\A t \in Stoppers : (Counts(t) => <>Done))
    OBVIOUS
  <2> QED
    BY <2>2, <2>3
<1>2. WaitInv /\ FirstStopped =>
        Heard \/ Ended \/ \E t \in Stoppers : Counts(t)
  BY DEF WaitInv, FirstStopped, Heard, Ended, Waits
<1>3. (\A t \in Stoppers : (Counts(t) => <>Done)) =>
        ((\E t \in Stoppers : Counts(t)) => <>Done)
  <2> HIDE DEF Counts, Done
  <2> QED
    OBVIOUS
<1>4. /\ Done <=> Heard \/ Ended
      /\ Ended <=> process # "up"
  BY DEF Ended
<1> HIDE DEF Counts, Done
<1> QED
  BY <1>1, <1>2, <1>3, <1>4, HeardEnds, WaitInvariance, PTL DEF FairSpec

-----------------------------------------------------------------------------
(* Liveness of a graceful shutdown, as long as the server is orderly.      *)

AfterCount == {"r.connect", "r.attach", "r.startup", "r.latch"}

\* Every latch but the last was counted down, and the last before a restart
\* makes another: whichever of them Main waits for, it will hear of a shutdown.
LatchInv == orderly =>
  /\ \A l \in 1 .. shutdownLatch - 1 : l \in counted
  /\ \A t \in Stoppers : pc[t] \in AfterCount => shutdownLatch \in counted

\* Disorder is for ever.
LEMMA OrderlyBefore ==
  ASSUME [Next]_vars, orderly'
  PROVE  orderly
<1>1. CASE StartStep \/ ExitInterrupted
  BY <1>1 DEF StartStep, Configure, StartConnect, StartConnectFails, Attach,
     StartStartup, StartThrows, StartLatch, StartDeclare, StartReturn, Exit, ExitInterrupted
<1>2. ASSUME NEW u \in Stoppers, RestartStep(u) PROVE orderly
  BY <1>2 DEF RestartStep, RestartStop, RestartThrows, RestartCount, RestartConnect,
     RestartAttach, RestartStartup, RestartLatch
<1>3. ASSUME NEW u \in Stoppers, ShutdownStep(u) PROVE orderly
  BY <1>3 DEF ShutdownStep, ShutdownStop, ShutdownThrows, ShutdownDetach,
     ShutdownDeclare, ShutdownCount, ShutdownClose
<1>4. ASSUME NEW u \in Stoppers, RestartBegin(u) \/ ShutdownBegin(u) PROVE orderly
  BY <1>4 DEF RestartBegin, ShutdownBegin
<1>5. CASE GracefulShutdown \/ ShutdownDropped \/ UNCHANGED vars
  BY <1>5 DEF GracefulShutdown, ShutdownDropped, vars
<1> QED
  BY <1>1, <1>2, <1>3, <1>4, <1>5 DEF Next, Stoppers

\* A new latch is made by start or by the end of a restart, and nobody gets past
\* its countDown() but by counting down.
LatchKept ==
  /\ UNCHANGED shutdownLatch
  /\ \A t \in Stoppers :
       pc'[t] \in AfterCount => pc[t] \in AfterCount \/ shutdownLatch \in counted'

LEMMA LatchSteps ==
  ASSUME IInv, [Next]_vars, orderly'
  PROVE  LatchKept \/ StartLatch \/ \E t \in Stoppers : RestartLatch(t)
<1> USE DEF LatchKept, AfterCount, Moves, MainMoves, IInv
<1>1. CASE (StartStep \/ ExitInterrupted) /\ ~StartLatch
  <2>1. /\ UNCHANGED shutdownLatch
        /\ \E from : \E to \in Places : Goes(Main, from, to)
    BY <1>1 DEF StartStep, Configure, StartConnect, StartConnectFails, Attach,
       StartStartup, StartThrows, StartDeclare, StartReturn, Exit, ExitInterrupted, latches, Places, StartSteps
  <2> QED
    BY <2>1, MainGoes
<1>2. ASSUME NEW u \in Stoppers, RestartStep(u), ~RestartLatch(u) PROVE LatchKept
  <2>1. CASE RestartCount(u)
    <3>1. Moves(u, "r.count", "r.connect")
      BY <2>1, StopperGoes DEF RestartCount, Places, RestartSteps
    <3> QED
      BY <2>1, <3>1 DEF RestartCount
  <2>2. CASE ~RestartCount(u)
    <3>1. /\ UNCHANGED shutdownLatch
          /\ \/ Moves(u, "r.stop", "r.count") \/ Moves(u, "r.connect", "r.attach")
             \/ Moves(u, "r.attach", "r.startup") \/ Moves(u, "r.startup", "r.latch")
      BY <1>2, <2>2, StopperGoes DEF RestartStep, RestartStop, RestartThrows, RestartConnect,
         RestartAttach, RestartStartup, latches, Places, RestartSteps
    <3> QED
      BY <3>1
  <2> QED
    BY <2>1, <2>2
<1>3. ASSUME NEW u \in Stoppers, ShutdownStep(u) \/ RestartBegin(u) \/ ShutdownBegin(u)
      PROVE  LatchKept
  <2>1. /\ UNCHANGED shutdownLatch
        /\ \E from : \E to \in {"r.stop", "out"} \cup ShutdownSteps : Goes(u, from, to)
    BY <1>3 DEF ShutdownStep, ShutdownStop, ShutdownThrows, ShutdownDetach, ShutdownDeclare,
       ShutdownCount, ShutdownClose, RestartBegin, ShutdownBegin, latches, ShutdownSteps
  <2> QED
    BY <2>1, StopperGoes DEF Places, RestartSteps, ShutdownSteps
<1>4. CASE GracefulShutdown \/ ShutdownDropped \/ UNCHANGED vars
  BY <1>4 DEF GracefulShutdown, ShutdownDropped, vars, latches
<1> QED
  BY <1>1, <1>2, <1>3, <1>4 DEF Next, Stoppers

\* Latches are counted down in their order.
LEMMA LatchInvariance == Spec => []LatchInv
<1>1. Init => LatchInv
  <2> SUFFICES ASSUME Init PROVE LatchInv
    OBVIOUS
  <2>1. shutdownLatch = 0 /\ \A t \in Stoppers : pc[t] = "out"
    BY ThreadAssumption DEF Init, Stoppers, Threads
  <2> QED
    BY <2>1 DEF LatchInv, AfterCount
<1>2. IInv /\ WaitInv /\ OrderlyInv /\ LatchInv /\ [Next]_vars => LatchInv'
  <2> SUFFICES ASSUME IInv, WaitInv, OrderlyInv, LatchInv, [Next]_vars, orderly'
               PROVE  /\ \A l \in 1 .. shutdownLatch' - 1 : l \in counted'
                      /\ \A t \in Stoppers : pc'[t] \in AfterCount => shutdownLatch' \in counted'
    BY DEF LatchInv
  <2>1. orderly /\ counted \subseteq counted' /\ shutdownLatch \in Nat
    BY OrderlyBefore, OnlyOnce DEF IInv, TypeOK
  <2>2. CASE LatchKept
    BY <2>1, <2>2 DEF LatchInv, LatchKept
  <2>3. CASE StartLatch
    <3>1. MainMoves("latch", "declare") /\ shutdownLatch = 0 /\ shutdownLatch' = 1
      BY <2>3, MainGoes DEF StartLatch, Places, StartSteps, IInv, NewLatch, WaitInv, MainMoves
    <3>2. \A t \in Stoppers : pc'[t] = "out"
      BY <3>1 DEF MainMoves, IInv, PlaceInv, Starting
    <3> QED
      BY <3>1, <3>2 DEF AfterCount
  <2>4. ASSUME NEW t \in Stoppers, RestartLatch(t)
        PROVE  /\ \A l \in 1 .. shutdownLatch' - 1 : l \in counted'
               /\ \A u \in Stoppers : pc'[u] \notin AfterCount
    <3>1. Moves(t, "r.latch", "out") /\ shutdownLatch' = shutdownLatch + 1
      BY <2>4, StopperGoes DEF RestartLatch, Places, IInv, NewLatch
    <3>2. shutdownLatch \in counted /\ \A u \in Stoppers \ {t} : pc[u] = "out"
      BY <2>1, <3>1 DEF Moves, LatchInv, AfterCount, OrderlyInv, RestartInv, Restarting,
         RestartSteps, Inside
    <3> QED
      BY <2>1, <3>1, <3>2 DEF Moves, LatchInv, AfterCount
  <2> QED
    BY <2>2, <2>3, <2>4, LatchSteps
<1> QED
  BY <1>1, <1>2, Invariance, WaitInvariance, OrderlyInvariance, PTL DEF Spec

AllOfIt == IInv /\ WaitInv /\ OrderlyInv /\ LatchInv

\* The stages: the shutdown is scheduled, under way, declared, heard of.
Escaped == process # "up" \/ ~orderly
Ready == scheduled > 0 /\ serverState = "RUNNING" /\ pc[Scheduler] = "out" /\ ~Escaped
Under(t, p) == pc[t] = p /\ ~Escaped
Off == serverState = "SHUTDOWN" /\ ~Escaped
Told == Off /\ shutdownLatch \in counted

\* Only start and shutdown write serverState.
LEMMA StateSteps ==
  ASSUME IInv, [Next]_vars, serverState # "INITIALIZING"
  PROVE  \/ serverState' = serverState
         \/ serverState' = "SHUTDOWN" /\ \E t \in Stoppers : ShutdownDeclare(t)
<1>1. CASE StartStep \/ ExitInterrupted
  <2>1. ~StartDeclare
    BY DEF StartDeclare, Goes, IInv, PlaceInv, Starting
  <2> QED
    BY <1>1, <2>1 DEF StartStep, Configure, StartConnect, StartConnectFails, Attach,
       StartStartup, StartThrows, StartLatch, StartReturn, Exit, ExitInterrupted
<1>2. ASSUME NEW u \in Stoppers, RestartStep(u) PROVE serverState' = serverState
  BY <1>2 DEF RestartStep, RestartStop, RestartThrows, RestartCount, RestartConnect,
     RestartAttach, RestartStartup, RestartLatch
<1>3. ASSUME NEW u \in Stoppers, ShutdownStep(u), ~ShutdownDeclare(u)
      PROVE  serverState' = serverState
  BY <1>3 DEF ShutdownStep, ShutdownStop, ShutdownThrows, ShutdownDetach,
     ShutdownCount, ShutdownClose
<1>4. ASSUME NEW u \in Stoppers, ShutdownDeclare(u) PROVE serverState' = "SHUTDOWN"
  BY <1>4 DEF ShutdownDeclare
<1>5. ASSUME NEW u \in Stoppers, RestartBegin(u) \/ ShutdownBegin(u)
      PROVE  serverState' = serverState
  BY <1>5 DEF RestartBegin, ShutdownBegin
<1>6. CASE GracefulShutdown \/ ShutdownDropped \/ UNCHANGED vars
  BY <1>6 DEF GracefulShutdown, ShutdownDropped, vars
<1> QED
  BY <1>1, <1>2, <1>3, <1>4, <1>5, <1>6 DEF Next, Stoppers

\* A server that was shut down stays so, with its latch.
LEMMA OffStays ==
  ASSUME AllOfIt, Off, [Next]_vars, ~Escaped'
  PROVE  Off' /\ shutdownLatch' = shutdownLatch /\ (Told => Told')
<1>1. Off'
  BY StateSteps DEF AllOfIt, Off
<1>2. ~StartLatch /\ \A t \in Stoppers : ~RestartLatch(t)
  BY DEF AllOfIt, IInv, OrderlyInv, PlaceInv, Starting, RestartInv, Restarting, RestartSteps,
     Off, Escaped, StartLatch, RestartLatch, Goes
<1>3. shutdownLatch' = shutdownLatch
  BY <1>2, LatchSteps DEF AllOfIt, LatchKept, Escaped
<1> QED
  BY <1>1, <1>3, OnlyOnce DEF Told

\* Whoever declared the shutdown counts the latch down.
LEMMA OffTold == FairSpec => (Off ~> (Told \/ Escaped))
<1> DEFINE Declared(t) == Off /\ pc[t] = "s.count"
           Done == Told \/ Escaped
<1>1. ASSUME NEW t \in Stoppers PROVE FairSpec => [](Declared(t) => <>Done)
  <2> DEFINE Going == RestartStep(t) \/ ShutdownStep(t)
  <2>1. AllOfIt /\ Declared(t) /\ [Next]_vars => Declared(t)' \/ Done' \/ Going
    BY OffStays, OwnSteps DEF AllOfIt, IInv
  <2>2. AllOfIt /\ Declared(t) /\ Going /\ [Next]_vars => Done'
    BY OffStays, NextPlace DEF AllOfIt, IInv, Told
  <2>3. Declared(t) => MayGoOn(t)
    BY DEF Off, Escaped, MayGoOn, RestartSteps, ShutdownSteps
  <2>4. Fairness => ([]<>~MayGoOn(t) \/ []<><<Going>>_vars)
    BY DEF Fairness
  <2>5. AllOfIt /\ Declared(t) /\ [Next]_vars => Declared(t)' \/ Done'
    BY <2>1, <2>2
  <2> HIDE DEF Declared, Done, Going
  <2> QED
    BY <2>2, <2>3, <2>4, <2>5, Invariance, WaitInvariance, OrderlyInvariance, LatchInvariance,
       PTL DEF FairSpec, Spec, AllOfIt
<1>2. AllOfIt /\ Off => Done \/ \E t \in Stoppers : Declared(t)
  BY DEF AllOfIt, OrderlyInv, ShutdownInv, Off, Told, Escaped
<1>3. FairSpec => [](\A t \in Stoppers : (Declared(t) => <>Done))
  <2>1. FairSpec => \A t \in Stoppers : [](Declared(t) => <>Done)
    BY <1>1
  <2> HIDE DEF Declared, Done
  <2>2. (\A t \in Stoppers : [](Declared(t) => <>Done))
          => [](\A t \in Stoppers : (Declared(t) => <>Done))
    OBVIOUS
  <2> QED
    BY <2>1, <2>2
<1> HIDE DEF Declared, Done
<1>4. (\A t \in Stoppers : (Declared(t) => <>Done)) =>
        ((\E t \in Stoppers : Declared(t)) => <>Done)
  OBVIOUS
<1>5. Done <=> Told \/ Escaped
  BY DEF Done
<1> QED
  BY <1>2, <1>3, <1>4, <1>5, Invariance, WaitInvariance, OrderlyInvariance, LatchInvariance,
     PTL DEF FairSpec, AllOfIt

\* Main returns from start, hears of the shutdown and exits.
LEMMA ToldEnds == FairSpec => (Told ~> Escaped)
<1> DEFINE Returning == Told /\ pc[Main] = "return"
           Waiting == Told /\ pc[Main] = "await"
<1>1. AllOfIt /\ Told => Returning \/ Waiting
  BY DEF AllOfIt, IInv, PlaceInv, Starting, StartSteps, WaitInv, Told, Off, Escaped
<1>2. AllOfIt /\ Returning => MayStart
  BY DEF MayStart, StartSteps, Told, Off, Escaped
<1>3. AllOfIt /\ Waiting => MayStart
  <2> SUFFICES ASSUME AllOfIt, Waiting PROVE awaited \in counted
    BY DEF MayStart, StartSteps, Told, Off, Escaped
  <2>1. /\ awaited \in 1 .. shutdownLatch /\ shutdownLatch \in counted /\ shutdownLatch \in Nat
        /\ \A l \in 1 .. shutdownLatch - 1 : l \in counted
    BY DEF AllOfIt, IInv, TypeOK, WaitInv, LatchInv, Told, Off, Escaped
  <2> QED
    BY <2>1
<1>4. AllOfIt /\ (Returning \/ Waiting) /\ [Next]_vars /\ ~StartStep =>
        Escaped' \/ (pc'[Main] = pc[Main] /\ Told')
  BY OffStays, MainSteps DEF AllOfIt, IInv, MainIdle, Told, Escaped, ExitInterrupted
<1>5. AllOfIt /\ Returning /\ StartStep /\ [Next]_vars => Waiting' \/ Escaped'
  <2> SUFFICES ASSUME AllOfIt, Returning, StartStep, [Next]_vars PROVE Waiting' \/ Escaped'
    OBVIOUS
  <2>1. MainMoves("return", "await")
    <3>1. Goes(Main, "return", "await")
      BY DEF StartStep, Configure, StartConnect, StartConnectFails, Attach,
         StartStartup, StartThrows, StartLatch, StartDeclare, StartReturn, Exit, ExitInterrupted, Goes
    <3> QED
      BY <3>1, MainGoes DEF AllOfIt, IInv, Places, StartSteps
  <2> QED
    BY <2>1, OffStays DEF MainMoves, Told
<1>6. AllOfIt /\ Waiting /\ StartStep => Escaped'
  BY DEF Escaped, StartStep, Configure, StartConnect, StartConnectFails, Attach,
     StartStartup, StartThrows, StartLatch, StartDeclare, StartReturn, Exit, ExitInterrupted, Goes
<1>7. AllOfIt /\ Returning /\ [Next]_vars => Returning' \/ Waiting' \/ Escaped'
  BY <1>4, <1>5
<1>8. AllOfIt /\ Waiting /\ [Next]_vars => Waiting' \/ Escaped'
  BY <1>4, <1>6
<1> HIDE DEF Returning, Waiting
<1>9. FairSpec => []AllOfIt
  BY Invariance, WaitInvariance, OrderlyInvariance, LatchInvariance, PTL DEF FairSpec, AllOfIt
<1>10. FairSpec => (Waiting ~> Escaped)
  BY <1>3, <1>6, <1>8, <1>9, PTL DEF FairSpec, Fairness, Spec
<1>11. FairSpec => (Returning ~> (Waiting \/ Escaped))
  BY <1>2, <1>5, <1>7, <1>9, PTL DEF FairSpec, Fairness, Spec
<1> QED
  BY <1>1, <1>9, <1>10, <1>11, PTL

\* A shutdown, the scheduler's or another, gets as far as declaring it.
Stopping(t) == Under(t, "s.stop") \/ Under(t, "s.detach") \/ Under(t, "s.declare")

LEMMA UnderDeclares ==
  ASSUME NEW t \in Stoppers
  PROVE  FairSpec => (Stopping(t) ~> (Off \/ Escaped))
<1> DEFINE Going == RestartStep(t) \/ ShutdownStep(t)
           Done == Off \/ Escaped
<1>1. ASSUME NEW p \in {"s.stop", "s.detach", "s.declare"}
      PROVE  /\ AllOfIt /\ Under(t, p) /\ [Next]_vars => Under(t, p)' \/ Escaped' \/ Going
             /\ Under(t, p) => MayGoOn(t)
  BY OwnSteps DEF AllOfIt, IInv, Under, MayGoOn, RestartSteps, ShutdownSteps, Escaped
<1>2. AllOfIt /\ Under(t, "s.stop") /\ Going => Under(t, "s.detach")' \/ Done'
  BY NextPlace DEF AllOfIt, IInv, Under, Escaped
<1>3. AllOfIt /\ Under(t, "s.detach") /\ Going => Under(t, "s.declare")' \/ Done'
  BY NextPlace DEF AllOfIt, IInv, Under
<1>4. AllOfIt /\ Under(t, "s.declare") /\ Going => Done'
  BY NextPlace DEF AllOfIt, IInv, Under, Off
<1>5. FairSpec => []AllOfIt /\ ([]<>~MayGoOn(t) \/ []<><<Going>>_vars)
  <2>1. Fairness => ([]<>~MayGoOn(t) \/ []<><<Going>>_vars)
    BY DEF Fairness
  <2> QED
    BY <2>1, Invariance, WaitInvariance, OrderlyInvariance, LatchInvariance, PTL
       DEF FairSpec, AllOfIt
<1>6. /\ AllOfIt /\ Under(t, "s.stop") /\ [Next]_vars =>
           Under(t, "s.stop")' \/ Under(t, "s.detach")' \/ Done'
      /\ AllOfIt /\ Under(t, "s.detach") /\ [Next]_vars =>
           Under(t, "s.detach")' \/ Under(t, "s.declare")' \/ Done'
      /\ AllOfIt /\ Under(t, "s.declare") /\ [Next]_vars => Under(t, "s.declare")' \/ Done'
  BY <1>1, <1>2, <1>3, <1>4
<1>7. /\ Under(t, "s.stop") => MayGoOn(t)
      /\ Under(t, "s.detach") => MayGoOn(t)
      /\ Under(t, "s.declare") => MayGoOn(t)
  BY <1>1
<1> HIDE DEF Going, Done
<1>8. FairSpec => (Under(t, "s.declare") ~> Done)
  BY <1>4, <1>5, <1>6, <1>7, PTL DEF FairSpec, Spec
<1>9. FairSpec => (Under(t, "s.detach") ~> (Under(t, "s.declare") \/ Done))
  BY <1>3, <1>5, <1>6, <1>7, PTL DEF FairSpec, Spec
<1>10. FairSpec => (Under(t, "s.stop") ~> (Under(t, "s.detach") \/ Done))
  BY <1>2, <1>5, <1>6, <1>7, PTL DEF FairSpec, Spec
<1>11. Done <=> Off \/ Escaped
  BY DEF Done
<1> QED
  BY <1>8, <1>9, <1>10, <1>11, PTL DEF Stopping

\* Whoever it is.
LEMMA UnderOff == FairSpec => ((\E t \in Stoppers : Stopping(t)) ~> (Off \/ Escaped))
<1> DEFINE Done == Off \/ Escaped
<1>1. ASSUME NEW t \in Stoppers PROVE FairSpec => [](Stopping(t) => <>Done)
  BY UnderDeclares, PTL
<1>2. FairSpec => \A t \in Stoppers : [](Stopping(t) => <>Done)
  BY <1>1
<1> HIDE DEF Done
<1>3. (\A t \in Stoppers : [](Stopping(t) => <>Done))
        => [](\A t \in Stoppers : (Stopping(t) => <>Done))
  OBVIOUS
<1>4. (\A t \in Stoppers : (Stopping(t) => <>Done)) =>
        ((\E t \in Stoppers : Stopping(t)) => <>Done)
  OBVIOUS
<1>5. Done <=> Off \/ Escaped
  BY DEF Done
<1> QED
  BY <1>2, <1>3, <1>4, <1>5, PTL

\* The scheduler runs the shutdown it was given, unless another is quicker.
LEMMA ReadyUnder == FairSpec => (Ready ~> (Under(Scheduler, "s.stop") \/ Off \/ Escaped))
<1> DEFINE Done == Under(Scheduler, "s.stop") \/ Off \/ Escaped
           Running == ShutdownBegin(Scheduler) \/ ShutdownDropped
<1>1. AllOfIt /\ Ready /\ [Next]_vars => Ready' \/ Done'
  <2> SUFFICES ASSUME AllOfIt, Ready, [Next]_vars, ~Escaped'
               PROVE  Ready' \/ Under(Scheduler, "s.stop")' \/ Off'
    OBVIOUS
  <2>1. CASE ShutdownBegin(Scheduler)
    <3>1. Moves(Scheduler, "out", "s.stop")
      BY <2>1, StopperGoes DEF ShutdownBegin, Places, ShutdownSteps, AllOfIt, IInv, Stoppers
    <3> QED
      BY <3>1 DEF Moves, Under
  <2>2. CASE ~ShutdownBegin(Scheduler)
    <3>1. serverState' \in {"RUNNING", "SHUTDOWN"}
      BY StateSteps DEF AllOfIt, Ready
    <3>2. pc'[Scheduler] = "out" /\ scheduled' > 0
      <4>1. /\ pc \in [Threads -> Places] /\ Scheduler \in Threads /\ pc[Scheduler] = "out"
            /\ Scheduler # Main /\ Scheduler \notin Callers /\ scheduled \in Nat \ {0}
        BY ThreadAssumption, BoundAssumption DEF AllOfIt, IInv, TypeOK, Places, Ready,
           Threads, Stoppers
      <4>2. CASE StartStep \/ ExitInterrupted
        BY <4>1, <4>2 DEF StartStep, Configure, StartConnect, StartConnectFails, Attach,
           StartStartup, StartThrows, StartLatch, StartDeclare, StartReturn, Exit, ExitInterrupted, Goes
      <4>3. ASSUME NEW u \in Stoppers, RestartStep(u)
            PROVE  pc'[Scheduler] = "out" /\ scheduled' = scheduled
        BY <4>1, <4>3 DEF RestartStep, RestartStop, RestartThrows, RestartCount, RestartConnect,
           RestartAttach, RestartStartup, RestartLatch, Goes
      <4>4. ASSUME NEW u \in Stoppers, ShutdownStep(u)
            PROVE  pc'[Scheduler] = "out" /\ scheduled' = scheduled
        BY <4>1, <4>4 DEF ShutdownStep, ShutdownStop, ShutdownThrows, ShutdownDetach,
           ShutdownDeclare, ShutdownCount, ShutdownClose, Goes
      <4>5. ASSUME NEW u \in Stoppers, u # Scheduler, RestartBegin(u) \/ ShutdownBegin(u)
            PROVE  pc'[Scheduler] = "out" /\ scheduled' = scheduled
        BY <4>1, <4>5 DEF RestartBegin, ShutdownBegin, Goes
      <4>6. CASE GracefulShutdown \/ UNCHANGED vars
        BY <4>1, <4>6 DEF GracefulShutdown, vars
      <4>7. ~ShutdownDropped
        BY DEF ShutdownDropped, Ready
      <4> QED
        BY <2>2, <4>1, <4>2, <4>3, <4>4, <4>5, <4>6, <4>7 DEF Next, Stoppers
    <3> QED
      BY <3>1, <3>2 DEF Ready, Off
  <2> QED
    BY <2>1, <2>2
<1>2. AllOfIt /\ Ready /\ Running => Done'
  <2> SUFFICES ASSUME AllOfIt, Ready, Running PROVE Under(Scheduler, "s.stop")' \/ Escaped'
    OBVIOUS
  <2>1. Moves(Scheduler, "out", "s.stop")
    BY StopperGoes DEF ShutdownBegin, ShutdownDropped, Ready, Places, ShutdownSteps, AllOfIt,
       IInv, Stoppers
  <2> QED
    BY <2>1 DEF Moves, Under
<1>3. Ready => MayRunScheduled
  BY DEF Ready, Escaped, MayRunScheduled
<1>4. FairSpec => []AllOfIt
  BY Invariance, WaitInvariance, OrderlyInvariance, LatchInvariance, PTL DEF FairSpec, AllOfIt
<1> HIDE DEF Done
<1>5. Done <=> Under(Scheduler, "s.stop") \/ Off \/ Escaped
  BY DEF Done
<1> QED
  BY <1>1, <1>2, <1>3, <1>4, <1>5, PTL DEF FairSpec, Fairness, Spec

\* A graceful shutdown of a running server ends the process, whoever else shuts
\* it down meanwhile, unless a step fails or restarts overlap.
THEOREM GracefulShutdownEnds ==
  FairSpec => (scheduled > 0 /\ serverState = "RUNNING" ~> process # "up" \/ ~orderly)
<1>1. AllOfIt /\ scheduled > 0 /\ serverState = "RUNNING" =>
        \/ Escaped \/ Ready
        \/ \E t \in Stoppers : Stopping(t)
  BY DEF Stopping, AllOfIt, IInv, PlaceInv, WaitInv, OrderlyInv, ShutdownInv,
     Stoppers, RestartSteps, ShutdownSteps, Escaped, Ready, Under
<1>2. /\ Escaped <=> process # "up" \/ ~orderly
      /\ Under(Scheduler, "s.stop") => \E t \in Stoppers : Stopping(t)
  BY DEF Escaped, Stopping, Stoppers
<1>3. FairSpec => []AllOfIt
  BY Invariance, WaitInvariance, OrderlyInvariance, LatchInvariance, PTL DEF FairSpec, AllOfIt
<1> QED
  BY <1>1, <1>2, <1>3, ReadyUnder, UnderOff, OffTold, ToldEnds, PTL

\* The process of a server that was stopped, or shut down gracefully while it
\* ran, ends: a failing step can only keep it up while the Server of start runs.
THEOREM StopEndsProcess == FairSpec => ProcessEnds
BY StoppedServerEnds, GracefulShutdownEnds, PTL DEF ProcessEnds

===============================================================================
