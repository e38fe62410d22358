----------------------------- MODULE ServiceCalls -----------------------------
(***************************************************************************)
(* What a thread of the API pool does in AsyncApiCall.callInternal, the    *)
(* running state of ApiCalls: it makes the call over HTTP, with one of the *)
(* few connections of AppScaleApiClient, or in a Java service, which       *)
(* AppScaleApiProxyLocal.getService makes and starts when it is first      *)
(* asked for.  Request threads in ServeBlobFilter ask for the service of   *)
(* the blob storage as well.                                               *)
(***************************************************************************)
EXTENDS Integers, FiniteSets

CONSTANTS
  Calls,            \* executions of callInternal, and of serveBlob
  Packages,         \* the packages that calls name
  Services,         \* those that have a Java service
  Blobstore,        \* the one ServeBlobFilter asks for
  Nobody,           \* no call
  MaxConnections    \* MAX_CONNECTIONS (20)

ASSUME CallsAssumption ==
  /\ IsFiniteSet(Calls) /\ Nobody \notin Calls
  /\ Services \subseteq Packages /\ Blobstore \in Services
  /\ MaxConnections \in Nat \ {0}

VARIABLES
  state,        \* where each call is
  job,          \* what it does: "none", "python", "java" or "filter"
  package,      \* the package whose service it asks for
  monitor,      \* the call inside getService, which is synchronized
  instance,     \* the service object a call has made; the call names the object
  serviceCache, \* per package, the object that is cached
  service,      \* the object a call is executed by
  leased,       \* the connections that are out of the pool, named by the call
  dropped,      \* the answers with a status other than 200 and a body
  closed,       \* AppScaleApiClient.shutdown
  blobStorage   \* ServeBlobFilter has its storage

registryVars == <<monitor, instance, serviceCache, service>>
clientVars == <<leased, dropped, closed>>
vars == <<state, job, package, registryVars, clientVars, blobStorage>>

Init ==
  /\ state = [c \in Calls |-> "idle"]
  /\ job = [c \in Calls |-> "none"]
  /\ package = [c \in Calls |-> Blobstore]
  /\ monitor = Nobody
  /\ instance = [c \in Calls |-> "none"]
  /\ serviceCache = [p \in Packages |-> Nobody]
  /\ service = [c \in Calls |-> Nobody]
  /\ leased = {} /\ dropped = {} /\ closed = FALSE
  /\ blobStorage = FALSE

Goes(c, s) == state' = [state EXCEPT ![c] = s]

-----------------------------------------------------------------------------
(* callInternal up to the fork between Python and Java.                    *)

\* A disabled API: the Files API, a capability that is switched off.
Disabled(c) ==
  /\ state[c] = "idle"
  /\ Goes(c, "ended")
  /\ UNCHANGED <<job, package, registryVars, clientVars, blobStorage>>

\* invokeApiMethodPython up to httpClient.execute.
CallPython(c) ==
  /\ state[c] = "idle"
  /\ Goes(c, "lease")
  /\ job' = [job EXCEPT ![c] = "python"]
  /\ UNCHANGED <<package, registryVars, clientVars, blobStorage>>

\* invokeApiMethodJava up to getService.
CallJava(c, p) ==
  /\ state[c] = "idle"
  /\ Goes(c, "lookup")
  /\ job' = [job EXCEPT ![c] = "java"]
  /\ package' = [package EXCEPT ![c] = p]
  /\ UNCHANGED <<registryVars, clientVars, blobStorage>>

-----------------------------------------------------------------------------
(* AppScaleApiClient.makeSyncCall.                                         *)

\* A connection of the pool, kept open by an earlier call or new.
Lease(c) ==
  /\ state[c] = "lease" /\ ~closed /\ Cardinality(leased) < MaxConnections
  /\ Goes(c, "exchange")
  /\ leased' = leased \cup {c}
  /\ UNCHANGED <<job, package, registryVars, dropped, closed, blobStorage>>

\* The wait for a connection ends in an exception: the Future was cancelled
\* with an interrupt, or the client is closed.
LeaseFails(c) ==
  /\ state[c] = "lease"
  /\ Goes(c, "ended")
  /\ UNCHANGED <<job, package, registryVars, clientVars, blobStorage>>

\* Defect: an exchange that failed keeps the connection.
ExchangeKeeping(c) ==
  /\ state[c] = "exchange"
  /\ Goes(c, "ended")
  /\ leased' \in {leased, leased \ {c}}
  /\ UNCHANGED <<job, package, registryVars, dropped, closed, blobStorage>>

\* The answer has status 200 and is read to its end, or the exchange fails on
\* the way: the library puts the connection back, or closes it.
Exchange(c) ==
  /\ state[c] = "exchange"
  /\ Goes(c, "ended")
  /\ leased' = leased \ {c}
  /\ UNCHANGED <<job, package, registryVars, dropped, closed, blobStorage>>

\* Any other status: HttpResponseException.  The body is not read and the
\* response not closed, so that its connection stays out.
OtherStatus(c, body) ==
  /\ state[c] = "exchange"
  /\ Goes(c, "ended")
  /\ leased' = IF body THEN leased ELSE leased \ {c}
  /\ dropped' = IF body THEN dropped \cup {c} ELSE dropped
  /\ UNCHANGED <<job, package, registryVars, closed, blobStorage>>

\* shutdown, from AppScaleAppServer.shutdown: every connection is closed.
Shutdown ==
  /\ ~closed
  /\ closed' = TRUE /\ leased' = {}
  /\ UNCHANGED <<state, job, package, registryVars, dropped, blobStorage>>

-----------------------------------------------------------------------------
(* getService.                                                             *)

\* What a call does with the service: invoke a method of it, or make the
\* DatastoreBlobStorage.
Receives(c, i) ==
  IF job[c] = "filter"
  THEN Goes(c, "ended") /\ blobStorage' = TRUE /\ UNCHANGED service
  ELSE Goes(c, "invoke") /\ service' = [service EXCEPT ![c] = i] /\ UNCHANGED blobStorage

\* Defect: getService is not synchronized.
GetUnsynchronized(c) ==
  /\ state[c] = "lookup"
  /\ package[c] \in Services /\ serviceCache[package[c]] = Nobody
  /\ monitor' = c
  /\ Goes(c, "start")
  /\ instance' = [instance EXCEPT ![c] = "starting"]
  /\ UNCHANGED <<job, package, serviceCache, service, clientVars, blobStorage>>

\* Not cached: startServices makes an object, and init and start begin, with
\* the monitor held.
Get(c) ==
  /\ state[c] = "lookup" /\ monitor = Nobody
  /\ package[c] \in Services /\ serviceCache[package[c]] = Nobody
  /\ monitor' = c
  /\ Goes(c, "start")
  /\ instance' = [instance EXCEPT ![c] = "starting"]
  /\ UNCHANGED <<job, package, serviceCache, service, clientVars, blobStorage>>

\* Cached: the monitor is taken and left again.
GetCached(c) ==
  /\ state[c] = "lookup" /\ monitor = Nobody /\ serviceCache[package[c]] # Nobody
  /\ Receives(c, serviceCache[package[c]])
  /\ UNCHANGED <<job, package, monitor, instance, serviceCache, clientVars>>

\* No service of that package: CallNotFoundException.
GetNone(c) ==
  /\ state[c] = "lookup" /\ monitor = Nobody /\ package[c] \notin Services
  /\ Goes(c, "ended")
  /\ UNCHANGED <<job, package, registryVars, clientVars, blobStorage>>

\* init and start have returned: the object is cached.
Started(c) ==
  /\ state[c] = "start"
  /\ instance' = [instance EXCEPT ![c] = "running"]
  /\ serviceCache' = [serviceCache EXCEPT ![package[c]] = c]
  /\ monitor' = Nobody
  /\ Receives(c, c)
  /\ UNCHANGED <<job, package, clientVars>>

\* Defect: the exception leaves the monitor locked.
StartFailsHolding(c) ==
  /\ state[c] = "start"
  /\ instance' = [instance EXCEPT ![c] = "failed"]
  /\ Goes(c, "ended")
  /\ UNCHANGED <<job, package, monitor, serviceCache, service, clientVars, blobStorage>>

\* init or start throws: the object is not cached, and the next call makes
\* another.
StartFails(c) ==
  /\ state[c] = "start"
  /\ instance' = [instance EXCEPT ![c] = "failed"]
  /\ monitor' = Nobody
  /\ Goes(c, "ended")
  /\ UNCHANGED <<job, package, serviceCache, service, clientVars, blobStorage>>

\* The service's method returns or throws, or there is no such method, or the
\* request is too large for it.
Invoke(c) ==
  /\ state[c] = "invoke"
  /\ Goes(c, "ended")
  /\ UNCHANGED <<job, package, registryVars, clientVars, blobStorage>>

-----------------------------------------------------------------------------
(* ServeBlobFilter.getBlobStorage, on threads of requests.                 *)

\* Defect: the storage is set before its service is asked for.
ServeBlobEarly(c) ==
  /\ state[c] = "idle"
  /\ IF blobStorage THEN Goes(c, "ended") ELSE Goes(c, "lookup")
  /\ job' = [job EXCEPT ![c] = "filter"]
  /\ blobStorage' = TRUE
  /\ UNCHANGED <<package, registryVars, clientVars>>

\* The field is read without a lock, and is not volatile: a thread may miss
\* what another has written, and then makes a storage of its own.
ServeBlob(c) ==
  /\ state[c] = "idle"
  /\ Goes(c, "lookup") \/ (blobStorage /\ Goes(c, "ended"))
  /\ job' = [job EXCEPT ![c] = "filter"]
  /\ UNCHANGED <<package, registryVars, clientVars, blobStorage>>

-----------------------------------------------------------------------------

Call(c) ==
  \/ Disabled(c) \/ CallPython(c) \/ ServeBlob(c)
  \/ \E p \in Packages : CallJava(c, p)

Http(c) ==
  \/ Lease(c) \/ LeaseFails(c) \/ Exchange(c)
  \/ \E body \in BOOLEAN : OtherStatus(c, body)

Java(c) ==
  \/ Get(c) \/ GetCached(c) \/ GetNone(c)
  \/ Started(c) \/ StartFails(c) \/ Invoke(c)

Next ==
  \/ \E c \in Calls : Call(c) \/ Http(c) \/ Java(c)
  \/ Shutdown

Spec == Init /\ [][Next]_vars

-----------------------------------------------------------------------------

TypeOK ==
  /\ state \in [Calls -> {"idle", "lease", "exchange", "lookup", "start", "invoke", "ended"}]
  /\ job \in [Calls -> {"none", "python", "java", "filter"}]
  /\ package \in [Calls -> Packages]
  /\ monitor \in {c \in Calls : state[c] = "start"} \cup {Nobody}
  /\ instance \in [Calls -> {"none", "starting", "running", "failed"}]
  /\ serviceCache \in [Packages -> Calls \cup {Nobody}]
  /\ service \in [Calls -> Calls \cup {Nobody}]
  /\ leased \subseteq Calls /\ dropped \subseteq Calls
  /\ closed \in BOOLEAN /\ blobStorage \in BOOLEAN

Exchanging == {c \in Calls : state[c] = "exchange"}

\* A connection is out for a call that is using it, or for an answer that was
\* dropped with its body, and not for anything else, whatever way calls end
\* (makeSyncCall of AppScaleApiClient): they bound the calls over HTTP.
ConnectionsAccounted ==
  ~closed => /\ leased = Exchanging \cup dropped
             /\ Cardinality(leased) <= MaxConnections

\* No second object of a package is initialised and started while one runs,
\* however many threads ask for it at once and whichever of its starts fail
\* (getService, startServices).  Objects of the packages that a lookup passes by
\* are made by ServiceLoader as well, and dropped without init or start.
OneService ==
  \A c, d \in Calls :
    /\ package[c] = package[d]
    /\ instance[c] = "running" /\ instance[d] \in {"starting", "running"}
    => c = d

\* A method is invoked only on a service of its package that has started
\* (invokeApiMethodJava), never on one whose start is under way or has failed.
CallsMeetRunning ==
  \A c \in Calls :
    state[c] = "invoke" =>
      \E i \in Calls : /\ service[c] = i /\ instance[i] = "running"
                       /\ package[i] = package[c]

\* A thread that finds the storage of the filter finds the service that the
\* storage needs (getBlobStorage).
StorageHasService ==
  blobStorage =>
    \E i \in Calls : serviceCache[Blobstore] = i /\ instance[i] = "running"

\* Calls and the filter alike get a service that runs, and one for as long as
\* they use it, although starts fail and the field of the filter is read
\* without a lock (getService, getBlobStorage).
UsersMeetRunning == CallsMeetRunning /\ StorageHasService

-----------------------------------------------------------------------------
(* Pool threads run, services start and answer, and so does the HTTP API   *)
(* server.  A monitor is not handed out in any order.                      *)

\* A call that waits for a connection or for the monitor.
WaiterFairness(c) ==
  /\ WF_vars(Lease(c)) /\ WF_vars(closed /\ LeaseFails(c))
  /\ WF_vars(Get(c) \/ GetCached(c) \/ GetNone(c))

\* A call that has what it waited for.  Each line is WF_vars of its step with
\* the ENABLED written out, as the proofs of liveness need it.
HolderFairness(c) ==
  /\ \/ []<>(state[c] # "exchange")
     \/ []<><<Exchange(c) \/ \E body \in BOOLEAN : OtherStatus(c, body)>>_vars
  /\ []<>(state[c] # "start") \/ []<><<Started(c) \/ StartFails(c)>>_vars
  /\ []<>(state[c] # "invoke") \/ []<><<Invoke(c)>>_vars

Fairness == \A c \in Calls : WaiterFairness(c) /\ HolderFairness(c)

FairSpec == Spec /\ Fairness

\* Every call ends, unless each of the connections has been lost with the body
\* of an answer: what ApiCalls assumes of its step Answer, and when it may.
EveryCallEnds ==
  \A c \in Calls :
    state[c] # "idle" ~>
      state[c] = "ended" \/ Cardinality(leased \cap dropped) = MaxConnections

=============================================================================
