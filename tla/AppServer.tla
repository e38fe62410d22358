------------------------------- MODULE AppServer -------------------------------
(***************************************************************************)
(* The life of the server: AppScaleAppServer.start, restart, shutdown and  *)
(* gracefulShutdown over AppScaleModules and the Jetty server of           *)
(* JettyContainerService, and Main, which exits the process when the latch *)
(* that start() returned is counted down or its thread is interrupted.     *)
(*                                                                         *)
(* Nothing is synchronized: every method reads serverState once, on entry, *)
(* and then takes its steps while others take theirs.  A step here is one  *)
(* call made by those methods; connecting and starting a container are one *)
(* step each.                                                              *)
(***************************************************************************)
EXTENDS Integers

CONSTANTS
  Main,        \* the thread that runs Main.StartAction.apply
  Scheduler,   \* the thread of shutdownScheduler
  Callers,     \* threads that call restart, shutdown and gracefulShutdown
  MaxServers,  \* bound of the model: Jetty Server objects
  MaxPending   \* bound of the model: scheduled shutdowns

Stoppers == Callers \cup {Scheduler}
Threads == Stoppers \cup {Main}
Servers == 1..MaxServers

ASSUME ThreadAssumption == Main # Scheduler /\ {Main, Scheduler} \cap Callers = {}
ASSUME BoundAssumption == MaxServers \in Nat \ {0} /\ MaxPending \in Nat

VARIABLES
  serverState,   \* AppScaleAppServer.serverState
  pc,            \* where each thread is
  server,        \* JettyContainerService.server, the last Server made (0: none)
  jetty,         \* the life of each Server
  port,          \* the Server whose connector has the port open (0: none)
  apiClient,     \* AppScaleApiClient: none, open or closed
  apiProxyLocal, \* AppScaleAppServer.apiProxyLocal: null or proxy
  delegate,      \* the delegate of ApiProxy
  attached,      \* the delegate of the container
  shutdownLatch, \* the latch of the field (0: null)
  counted,       \* the latches that were counted down
  awaited,       \* the latch Main waits for
  scheduled,     \* shutdowns scheduled and not yet begun
  process,       \* up, or the status it exited with
  orderly        \* ghost: no step failed, and every restart ran alone

container == <<server, jetty, port>>
api == <<apiClient, apiProxyLocal, delegate, attached>>
latches == <<shutdownLatch, counted, awaited>>
vars == <<serverState, pc, container, api, latches, scheduled, process, orderly>>

States == {"INITIALIZING", "RUNNING", "SHUTDOWN"}
JettyStates == {"none", "bare", "connected", "started", "stopped", "failed"}
StartSteps == {"configure", "connect", "attach", "startup", "latch", "declare",
               "return", "await"}
RestartSteps == {"r.stop", "r.count", "r.connect", "r.attach", "r.startup", "r.latch"}
ShutdownSteps == {"s.stop", "s.detach", "s.declare", "s.count", "s.close"}

Init ==
  /\ serverState = "INITIALIZING"
  /\ pc = [t \in Threads |-> IF t = Main THEN "configure" ELSE "out"]
  /\ server = 0 /\ port = 0
  /\ jetty = [s \in Servers |-> "none"]
  /\ apiClient = "none" /\ apiProxyLocal = "null" /\ delegate = "null" /\ attached = "null"
  /\ shutdownLatch = 0 /\ counted = {} /\ awaited = 0
  /\ scheduled = 0
  /\ process = "up"
  /\ orderly = TRUE

\* Thread t goes from one place to another.
Goes(t, from, to) ==
  /\ process = "up" /\ pc[t] = from
  /\ pc' = [pc EXCEPT ![t] = to]

-----------------------------------------------------------------------------
(* The container.                                                          *)

\* Defect: the port is opened although another Server has it.
ConnectAnyway ==
  /\ server' = server + 1
  /\ jetty' = [jetty EXCEPT ![server + 1] = "connected"]
  /\ port' = server + 1

\* connectContainer: a new Server takes the place of the last one, whatever
\* that was doing, and opens the port.
Connect ==
  /\ port = 0
  /\ server' = server + 1
  /\ jetty' = [jetty EXCEPT ![server + 1] = "connected"]
  /\ port' = server + 1

\* BindException: the port is taken, by an earlier Server or by another
\* process.  The new Server has no connector.
ConnectFails ==
  /\ server' = server + 1
  /\ jetty' = [jetty EXCEPT ![server + 1] = "bare"]
  /\ UNCHANGED port

\* Another exception of connectContainer comes before it makes the Server, from
\* checkEnvironmentVariables, or after.
ConnectThrows == ConnectFails \/ UNCHANGED container

\* startContainer.
Startup ==
  /\ jetty' = [jetty EXCEPT ![server] = "started"]
  /\ UNCHANGED <<server, port>>

\* It throws before server.start() or in it.
StartupFails ==
  /\ \/ UNCHANGED jetty
     \/ jetty' = [jetty EXCEPT ![server] = "failed"]
  /\ UNCHANGED <<server, port>>

\* Only a Server that was started, or failed to, does anything when stopped.
Stoppable == jetty[server] \in {"started", "failed"}

Stopped(how) ==
  /\ jetty' = [jetty EXCEPT ![server] = how]
  /\ port' = IF port = server THEN 0 ELSE port
  /\ UNCHANGED server

\* Defect: the connector stays open.
StopConnected ==
  /\ IF Stoppable THEN jetty' = [jetty EXCEPT ![server] = "stopped"] ELSE UNCHANGED jetty
  /\ UNCHANGED <<server, port>>

\* stopContainer: server.stop() waits for the requests and closes the port.
Stop == IF Stoppable THEN Stopped("stopped") ELSE UNCHANGED container

\* server.stop() closes the port, and throws what it met on the way.
StopFails == Stoppable /\ Stopped("failed")

-----------------------------------------------------------------------------
(* Main: start().await(), and System.exit.                                 *)

\* doStart: any exception before and in startup goes up to Main.
Configure ==
  /\ Goes(Main, "configure", "connect")
  /\ UNCHANGED <<serverState, container, api, latches, scheduled, process, orderly>>

StartConnect ==
  /\ Goes(Main, "connect", "attach")
  /\ Connect
  /\ UNCHANGED <<serverState, api, latches, scheduled, process, orderly>>

\* System.exit(2).
StartConnectFails ==
  /\ Goes(Main, "connect", "gone")
  /\ ConnectFails
  /\ process' = "exit2"
  /\ UNCHANGED <<serverState, api, latches, scheduled, orderly>>

\* The API client, the proxy, and the delegates for the JVM and the container.
Attach ==
  /\ Goes(Main, "attach", "startup")
  /\ apiClient' = "open"
  /\ apiProxyLocal' = "proxy" /\ delegate' = "proxy" /\ attached' = "proxy"
  /\ UNCHANGED <<serverState, container, latches, scheduled, process, orderly>>

StartStartup ==
  /\ Goes(Main, "startup", "latch")
  /\ Startup
  /\ UNCHANGED <<serverState, api, latches, scheduled, process, orderly>>

\* The first n of the assignments of Attach, and then an exception: of the API
\* server's port number, or of the logging service.
AttachThrows == \E n \in 0..3 :
  /\ apiClient' = IF n > 0 THEN "open" ELSE apiClient
  /\ apiProxyLocal' = IF n > 1 THEN "proxy" ELSE apiProxyLocal
  /\ delegate' = IF n > 2 THEN "proxy" ELSE delegate
  /\ UNCHANGED attached

\* An exception of doStart, before the container is started, while it starts or
\* right after: Main's catch block exits the process.
StartThrows ==
  /\ \/ Goes(Main, "configure", "gone") /\ UNCHANGED <<container, api>>
     \/ Goes(Main, "connect", "gone") /\ ConnectThrows /\ UNCHANGED api
     \/ Goes(Main, "attach", "gone") /\ AttachThrows /\ UNCHANGED container
     \/ Goes(Main, "startup", "gone") /\ (StartupFails \/ Startup) /\ UNCHANGED api
  /\ process' = "exit1"
  /\ UNCHANGED <<serverState, latches, scheduled, orderly>>

\* A latch that nobody has, so its number is new.
NewLatch == shutdownLatch' = shutdownLatch + 1

StartLatch ==
  /\ Goes(Main, "latch", "declare")
  /\ NewLatch
  /\ UNCHANGED <<serverState, container, api, counted, awaited, scheduled, process, orderly>>

StartDeclare ==
  /\ Goes(Main, "declare", "return")
  /\ serverState' = "RUNNING"
  /\ UNCHANGED <<container, api, latches, scheduled, process, orderly>>

\* return this.shutdownLatch: the field is read once more.
StartReturn ==
  /\ Goes(Main, "return", "await")
  /\ awaited' = shutdownLatch
  /\ UNCHANGED <<serverState, container, api, shutdownLatch, counted, scheduled, process, orderly>>

Exit ==
  /\ Goes(Main, "await", "gone")
  /\ awaited \in counted
  /\ process' = "exit0"
  /\ UNCHANGED <<serverState, container, api, latches, scheduled, orderly>>

\* catch (InterruptedException ignore): Main takes an interrupt of await(), or of
\* the start of Jetty, for a shutdown.  Nothing is stopped, counted or closed.
ExitInterrupted ==
  /\ \/ Goes(Main, "await", "woken") /\ UNCHANGED container
     \/ Goes(Main, "startup", "woken") /\ StartupFails
  /\ process' = "exit0"
  /\ UNCHANGED <<serverState, api, latches, scheduled, orderly>>

\* What Main does of itself.
StartStep ==
  \/ Configure \/ StartConnect \/ StartConnectFails \/ Attach \/ StartStartup
  \/ StartThrows \/ StartLatch \/ StartDeclare \/ StartReturn \/ Exit

-----------------------------------------------------------------------------
(* restart().                                                              *)

Inside(t) == pc[t] # "out"
Restarting(t) == pc[t] \in RestartSteps

RestartBegin(t) ==
  /\ serverState = "RUNNING"
  /\ Goes(t, "out", "r.stop")
  /\ orderly' = IF \E u \in Stoppers : Inside(u) THEN FALSE ELSE orderly
  /\ UNCHANGED <<serverState, container, api, latches, scheduled, process>>

RestartStop(t) ==
  /\ Goes(t, "r.stop", "r.count")
  /\ Stop
  /\ UNCHANGED <<serverState, api, latches, scheduled, process, orderly>>

\* An exception ends restart where it is: the state stays what it was.
RestartThrows(t) ==
  /\ \/ Goes(t, "r.stop", "out") /\ StopFails
     \/ Goes(t, "r.connect", "out") /\ server < MaxServers /\ ConnectThrows
     \/ Goes(t, "r.startup", "out") /\ StartupFails
  /\ orderly' = FALSE
  /\ UNCHANGED <<serverState, api, latches, scheduled, process>>

\* Defect: the latch is not counted down, as a restart is no shutdown.
RestartUncounted(t) ==
  /\ Goes(t, "r.count", "r.connect")
  /\ UNCHANGED <<serverState, container, api, latches, scheduled, process, orderly>>

RestartCount(t) ==
  /\ Goes(t, "r.count", "r.connect")
  /\ counted' = counted \cup {shutdownLatch}
  /\ UNCHANGED <<serverState, container, api, shutdownLatch, awaited, scheduled, process, orderly>>

RestartConnect(t) ==
  /\ server < MaxServers
  /\ Goes(t, "r.connect", "r.attach")
  /\ Connect
  /\ UNCHANGED <<serverState, api, latches, scheduled, process, orderly>>

\* setApiProxyDelegate gets the field's value, null after a shutdown.
RestartAttach(t) ==
  /\ Goes(t, "r.attach", "r.startup")
  /\ attached' = apiProxyLocal
  /\ UNCHANGED <<serverState, container, apiClient, apiProxyLocal, delegate, latches,
                 scheduled, process, orderly>>

RestartStartup(t) ==
  /\ Goes(t, "r.startup", "r.latch")
  /\ Startup
  /\ UNCHANGED <<serverState, api, latches, scheduled, process, orderly>>

\* Defect: the latch that was counted down stays.
RestartKeepsLatch(t) ==
  /\ Goes(t, "r.latch", "out")
  /\ UNCHANGED <<serverState, container, api, latches, scheduled, process, orderly>>

RestartLatch(t) ==
  /\ Goes(t, "r.latch", "out")
  /\ NewLatch
  /\ UNCHANGED <<serverState, container, api, counted, awaited, scheduled, process, orderly>>

RestartStep(t) ==
  \/ RestartStop(t) \/ RestartThrows(t) \/ RestartCount(t) \/ RestartConnect(t)
  \/ RestartAttach(t) \/ RestartStartup(t) \/ RestartLatch(t)

-----------------------------------------------------------------------------
(* shutdown() and gracefulShutdown().                                      *)

\* Called by a caller, or by the scheduler a second after gracefulShutdown.
ShutdownBegin(t) ==
  /\ serverState = "RUNNING"
  /\ Goes(t, "out", "s.stop")
  /\ IF t = Scheduler THEN scheduled > 0 /\ scheduled' = scheduled - 1 ELSE UNCHANGED scheduled
  /\ orderly' = IF \E u \in Stoppers : Restarting(u) THEN FALSE ELSE orderly
  /\ UNCHANGED <<serverState, container, api, latches, process>>

ShutdownStop(t) ==
  /\ Goes(t, "s.stop", "s.detach")
  /\ Stop
  /\ UNCHANGED <<serverState, api, latches, scheduled, process, orderly>>

\* Defect: the shutdown goes on although the container did not stop.
ShutdownSwallows(t) ==
  /\ Goes(t, "s.stop", "s.detach")
  /\ StopFails
  /\ orderly' = FALSE
  /\ UNCHANGED <<serverState, api, latches, scheduled, process>>

\* The exception of a stop skips all but the finally block.
ShutdownThrows(t) ==
  /\ Goes(t, "s.stop", "s.close")
  /\ StopFails
  /\ orderly' = FALSE
  /\ UNCHANGED <<serverState, api, latches, scheduled, process>>

ShutdownDetach(t) ==
  /\ Goes(t, "s.detach", "s.declare")
  /\ delegate' = "null" /\ apiProxyLocal' = "null"
  /\ UNCHANGED <<serverState, container, apiClient, attached, latches, scheduled, process, orderly>>

ShutdownDeclare(t) ==
  /\ Goes(t, "s.declare", "s.count")
  /\ serverState' = "SHUTDOWN"
  /\ UNCHANGED <<container, api, latches, scheduled, process, orderly>>

\* Defect: only restart counts the latch down.
ShutdownUncounted(t) ==
  /\ Goes(t, "s.count", "s.close")
  /\ UNCHANGED <<serverState, container, api, latches, scheduled, process, orderly>>

ShutdownCount(t) ==
  /\ Goes(t, "s.count", "s.close")
  /\ counted' = counted \cup {shutdownLatch}
  /\ UNCHANGED <<serverState, container, api, shutdownLatch, awaited, scheduled, process, orderly>>

\* Defect: the client is closed only when the stop failed.
ShutdownCloseFailed(t) ==
  /\ Goes(t, "s.close", "out")
  /\ apiClient' = IF serverState = "RUNNING" THEN "closed" ELSE apiClient
  /\ UNCHANGED <<serverState, container, apiProxyLocal, delegate, attached, latches,
                 scheduled, process, orderly>>

\* The finally block.
ShutdownClose(t) ==
  /\ Goes(t, "s.close", "out")
  /\ apiClient' = "closed"
  /\ UNCHANGED <<serverState, container, apiProxyLocal, delegate, attached, latches,
                 scheduled, process, orderly>>

ShutdownStep(t) ==
  \/ ShutdownStop(t) \/ ShutdownThrows(t) \/ ShutdownDetach(t)
  \/ ShutdownDeclare(t) \/ ShutdownCount(t) \/ ShutdownClose(t)

\* gracefulShutdown by a caller: one may be made at any time.
GracefulShutdown ==
  /\ process = "up" /\ scheduled < MaxPending
  /\ scheduled' = scheduled + 1
  /\ UNCHANGED <<serverState, pc, container, api, latches, process, orderly>>

\* A scheduled shutdown of a server that is not running throws, unnoticed.
ShutdownDropped ==
  /\ process = "up" /\ pc[Scheduler] = "out" /\ scheduled > 0
  /\ serverState # "RUNNING"
  /\ scheduled' = scheduled - 1
  /\ UNCHANGED <<serverState, pc, container, api, latches, process, orderly>>

-----------------------------------------------------------------------------

Next ==
  \/ StartStep \/ ExitInterrupted
  \/ \E t \in Callers : RestartBegin(t)
  \/ \E t \in Stoppers : RestartStep(t) \/ ShutdownBegin(t) \/ ShutdownStep(t)
  \/ GracefulShutdown \/ ShutdownDropped

Spec == Init /\ [][Next]_vars

\* When the steps of Fairness are enabled.
MayStart ==
  /\ process = "up" /\ pc[Main] \in StartSteps
  /\ pc[Main] = "await" => awaited \in counted
MayGoOn(t) ==
  /\ process = "up" /\ pc[t] \in RestartSteps \cup ShutdownSteps
  /\ pc[t] = "r.connect" => server < MaxServers
MayRunScheduled == process = "up" /\ pc[Scheduler] = "out" /\ scheduled > 0

\* Threads run, and the scheduler runs what is scheduled.  Nobody has to call
\* restart, shutdown or gracefulShutdown.  Each line is WF_vars of its step
\* with the ENABLED written out, as the proofs of liveness need it.
Fairness ==
  /\ []<>~MayStart \/ []<><<StartStep>>_vars
  /\ \A t \in Stoppers :
       []<>~MayGoOn(t) \/ []<><<RestartStep(t) \/ ShutdownStep(t)>>_vars
  /\ []<>~MayRunScheduled \/ []<><<ShutdownBegin(Scheduler) \/ ShutdownDropped>>_vars

FairSpec == Spec /\ Fairness

-----------------------------------------------------------------------------
(* Correctness.                                                            *)

\* The type of every variable; and the port is open only for a Server that is
\* connected, started, or failed to start.
TypeOK ==
  /\ serverState \in States
  /\ pc \in [Threads -> {"out", "gone", "woken"} \cup StartSteps \cup RestartSteps \cup ShutdownSteps]
  /\ server \in 0..MaxServers /\ port \in 0..server
  /\ jetty \in [Servers -> JettyStates]
  /\ port # 0 => jetty[port] \in {"connected", "started", "failed"}
  /\ apiClient \in {"none", "open", "closed"}
  /\ {apiProxyLocal, delegate, attached} \subseteq {"null", "proxy"}
  /\ shutdownLatch \in Nat
  /\ counted \in SUBSET (1..shutdownLatch) /\ awaited \in 0..shutdownLatch
  /\ scheduled \in 0..MaxPending
  /\ process \in {"up", "exit0", "exit1", "exit2"}
  /\ orderly \in BOOLEAN

Quiet == \A t \in Stoppers : ~Inside(t)

\* Unless its main thread is interrupted, the process exits with status 0 only
\* after the Server that served its requests has stopped without an exception,
\* however restarts and shutdowns overlap and fail.  An interrupt ends it with
\* the same status while the server runs (ExitInterrupted).
ExitAfterStop ==
  process = "exit0" => jetty[1] = "stopped" \/ pc[Main] = "woken"

\* When nobody is inside restart or shutdown and nothing went wrong before, a
\* running server serves: its container is started and has the port, calls
\* reach an open API client, and Main will hear of its shutdown.
RunningServes ==
  orderly /\ Quiet /\ serverState = "RUNNING" =>
    /\ jetty[server] = "started" /\ port = server
    /\ apiClient = "open" /\ delegate = "proxy" /\ attached = "proxy"
    /\ shutdownLatch \notin counted

\* When nobody is inside shutdown any more, everything is released, also when
\* several threads shut the server down at once.
ShutdownReleases ==
  orderly /\ Quiet /\ serverState = "SHUTDOWN" =>
    /\ port = 0 /\ \A s \in Servers : jetty[s] \in {"none", "stopped"}
    /\ apiClient = "closed" /\ delegate = "null" /\ apiProxyLocal = "null"
    /\ shutdownLatch \in counted

\* At most one Server is started, and while it is, some Server has the port:
\* that is the only lock between restarts that overlap, and connectContainer
\* replaces the server field also when it fails.
OneContainer ==
  \A s \in Servers : jetty[s] = "started" =>
    port # 0 /\ \A u \in Servers : jetty[u] = "started" => u = s

\* Main waits for the Server of start, and that has stopped.
FirstStopped == awaited = 1 /\ jetty[1] = "stopped"

\* The process ends after a graceful shutdown of a running server, unless a step
\* of it or of a restart fails, or restarts overlap; and it ends when the Server
\* of start has stopped, also then.
ProcessEnds ==
  FirstStopped \/ (scheduled > 0 /\ serverState = "RUNNING") ~>
    process # "up" \/ ~(orderly \/ FirstStopped)

\* "Cannot restart a server that is not currently running.": a server that was
\* shut down does not get a container that serves.
ShutdownStaysDown ==
  [][serverState = "SHUTDOWN" =>
       \A s \in Servers : jetty'[s] = "started" => jetty[s] = "started"]_vars

================================================================================
