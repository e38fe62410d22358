# TLA+ models of the AppScale Java 8 runtime

This directory holds formal models of the runtime in `src/`: TLA+ modules
translated from the Java sources and the Channel API script, TLC configurations that model-check them on
small instances, and theorems checked by TLAPS.

## Inventory

The runtime hosts one App Engine application in a Jetty server inside one JVM.
`R/` is `src/container/src/main/java/com/appscale/appengine/runtime/`, and
`channel_api.js` is in the container's resources, under `api/channel/`.

| component | state | operations | hard behaviours | what makes it correct |
|---|---|---|---|---|
| API call proxy (`R/java8/server/AppScaleApiProxyLocal.java`) | service and method caches; per call: a task, a `released` flag, a Future | `makeSyncCall`, `makeAsyncCall`, `cancel`, `getService`, `stop` | pool threads, cancellation at any time, interrupts, a pool that refuses a task | every permit comes back once; calls end before their request; one instance per service |
| request handling (`R/java8/jetty/JettyContainerService.java`) | per request: a semaphore of 100 permits, the environment | `handle`, `connectContainer`, `startContainer`, `stopContainer` | waiting for calls while threads of the request go on; interrupts when Jetty stops | a request ends, and ends alone |
| environment and listeners (`RuntimeEnvironment`, `RuntimeEnvironmentListener`) | attributes, listener set | `onRequestEnd`, `requestEnd`, child environments | listeners added while they are dispatched; a listener that throws | every listener runs |
| request and background threads (`CurrentRequestThreadFactory`, `BackgroundThreadFactory`) | the thread, its listener | `newThread`, `start`, the end-of-request callback | threads started by threads; join timeouts of zero and below | no thread of the servlet outlives its request unnoticed |
| application server (`AppScaleAppServer`, `AppScaleModules`, `Main`) | server state, latch, API client, delegate | `start`, `restart`, `shutdown`, `gracefulShutdown` | unsynchronized callers, a step that fails half way | state and container agree; the process ends when the server is shut down |
| HTTP API client (`AppScaleApiClient`) | pool of 20 connections | `makeSyncCall`, `shutdown` | error paths that keep a connection | a connection is in use, in the pool, or known to be lost |
| Channel API client (`channel_api.js`: `goog.appengine.ASSocket`, `Strophe.Connection`; served by `ServeScriptServlet`) | requests under way and their rids, connection state, stanza handlers, timers | `connect`, `disconnect`, `send`, event handlers of the browser | answers lost, late, refused, garbled, out of order; repeated postings; disconnects inside callbacks | messages neither lost nor repeated; the page's callbacks in order |
| blob serving and storage (`ServeBlobFilter`, `DatastoreBlobStorage`) | blob chunks and meta data, the filter's storage | serve, ranges, store, delete | ranges at the edges, partial store and delete, a deletion during a response, int overflow | the header says what the body holds; no chunk without meta data |
| blob upload (`UploadBlobFilter`) | - | split meta data | - | request attributes name the blobs |
| login (`Logins`, `R/java8/users`, `UserServiceImpl`) | cookie | parse, decide, create | malformed cookies | only a well-formed cookie logs in |
| class loading (`RuntimeAppClassLoader`, `AppScaleAppServerClassLoader`) | - | `loadClass`, `getResource` | delegation order | application classes win where they may |

Interactions: a servlet runs on a Jetty thread inside `handle`; it calls the API
proxy through `ApiProxy`'s delegate with its environment, whose semaphore bounds
the calls; the proxy runs each call on a cached thread pool, in a Java service or
through the HTTP client.  Threads that the application starts register listeners
in the environment; `handle` waits for the calls, then runs the listeners.  The
server object starts and stops the container, the client and the delegate.  The
blob filter asks the proxy for a service from the threads of requests.  The
channel script runs in the browsers of the application's users and speaks to a
BOSH server that is not part of the repository.

Small parts without state of their own (the forbidden and multipart filters, the
upload URL servlet, constants, property files) are listed in `PROJECT.json` and
not modelled.

## Modules

| module | models | extends / instantiates |
|---|---|---|
| `ApiBarrier` | what the per-request semaphore promises, as a gate | - |
| `ApiCalls` | `AppScaleApiProxyLocal.makeSyncCall`, `makeAsyncCall`, `AsyncApiCall`, the Future and its `cancel`; the wait in `ApiProxyHandler.handle` | instantiates `ApiBarrier` |
| `RequestThreads` | `CurrentRequestThreadFactory`, `RuntimeEnvironmentListener`, `getRemainingMillis` | - |
| `RequestLifecycle` | one request: both of the above on the same threads and interrupt flags | instantiates `ApiCalls` and `RequestThreads` |
| `ServiceCalls` | `callInternal`: `getService` and `startServices`, `AppScaleApiClient` and its pool of connections; `ServeBlobFilter.getBlobStorage` | - |
| `BlobServing` | `DatastoreBlobStorage`; `serveBlob`, `calculateContentRange` and `copy` of `ServeBlobFilter` | - |
| `ChannelContract` | what a page may expect of its channel's callbacks | - |
| `StropheConnection` | `channel_api.js`: the socket and its connection, with a BOSH server | instantiates `ChannelContract` |
| `AppServer` | `AppScaleAppServer.start`, `restart`, `shutdown`, `gracefulShutdown`; `connectContainer`, `startContainer`, `stopContainer`; `Main`'s `await` and `exit` | - |
| `ApiCallsProofs`, `RequestThreadsProofs`, `RequestLifecycleProofs`, `AppServerProofs`, `StropheConnectionProofs`, `ServiceCallsProofs`, `BlobServingProofs` | the theorems | extend the module they are named after |
| `MCApiCalls`, `MCRequestThreads`, `MCRequestLifecycle`, `MCAppServer`, `MCStropheConnection`, `MCServiceCalls`, `MCBlobServing` | symmetry sets for TLC where there are any | extend the module they are named after |

Operators commented *Defect* are what the code would be with a plausible bug in
it.  No specification uses them: substituted for the operator that follows, each
makes TLC violate a property, which shows that the property depends on the code.

### `ApiCalls`: the calls of one request

The environment of a request holds a `Semaphore` of 100 permits.  A call has two
program counters, because two threads work on it: `client[c]`, the thread that
makes it (`acquire` - `submit` - `await` - `returned`, `interrupted`,
`rejected` or `threw`), and `worker[c]`, its `FutureTask` in the pool (`queued` - `running` -
`release` - `complete` - `finished`).  `future[c]` is the state of the FutureTask and
`released[c]` the flag of `AsyncApiCall`.  `permits` is the semaphore, `handler`
where the Jetty thread is, `interrupted` the flags of the threads.

| action | code |
|---|---|
| `Enter`, `EnterInterrupted`, `Acquire`, `AcquireInterrupted` | `makeAsyncCall` up to and including `semaphore.acquire()` |
| `Submit`, `SubmitFails` | `executor.submit`, and the `finally` block when it throws |
| `SubmitThrows` | `apisUsingPythonStubs.contains(null)`, after the acquire and outside the `try`: the permit is lost |
| `Reuse` | the application makes another call |
| `GetReturns`, `GetInterrupted` | `future.get()` in `makeSyncCall` |
| `Start`, `Skip`, `Answer`, `Release`, `Complete` | `FutureTask.run` around `AsyncApiCall.call` |
| `CancelRelease`, `CancelTask` | the two statements of the Future's `cancel` |
| `ServletReturns`, `Drain`, `DrainInterrupted` | `handle` after `super.handle` |
| `Interrupt`, `TakeInterrupt` | `Thread.interrupt` from anywhere; an interruptible operation that takes the flag |

`tryReleaseSemaphore` is synchronized and hence one operator, `TryRelease`, used by
its three callers.  A background thread's environment carries no semaphore
(`unauthChild`): its calls take no permit.  Cancelling a Future that
`makeSyncCall` keeps to itself is impossible, hence the guard of `CancelRelease`.

`Calls` are places for calls under way at once: a call that is over leaves its place
to another one (`Reuse`), so that threads may call without end.  `Unnamed` are the
places whose calls may have a null package name.

Abstracted: what a call does and returns (any of it is `Answer`), and the deadline
of a call, which the code does not enforce.

### `RequestThreads`: the threads of one request

`start()` of a request thread is two steps, `StartThread` and `AddListener`:
between them the thread runs and its listener is not yet there.  The listener goes
to the environment of the *starter*.  `BeginDispatch` makes the iterator of
`requestEnd`; `VisitDead`, `VisitAlive`, `JoinDead`, `JoinGivesUp`, `SecondStrike`
are the body of the listener between its waits.  The set is a
`ConcurrentHashMap`: a listener added during the dispatch is met or not met,
nondeterministically.  Time is a counter `now` of ticks since `start_time`; the
handler's own steps take no time, its joins do.  `join(0)` waits without limit and
`join` of a negative number throws, as `java.lang.Thread` documents.

### `RequestLifecycle`: the whole request

A conjunction of steps of the two modules, with the guard that a thread does one
thing at a time (`Free`), and `interrupted` shared.  The order of `handle` appears
as the guards of `ServletReturns`, `Wait` and `RequestEnd`: drain, then listeners.

### `AppServer`: start, restart, shutdown

None of the methods is synchronized: each reads `serverState` once and goes on.
Every call they make is a step, and each step that can throw has an action for
it: `StartConnectFails` (a `BindException`, exit status 2), `StartThrows` (status
1; with `ConnectThrows` and `AttachThrows` for what the failing step has already
done), `RestartThrows`, `ShutdownThrows`.  `ExitInterrupted` is the
`catch (InterruptedException ignore)` of `Main`: an interrupt of its `await`, or of
the start of Jetty, makes it exit with status 0 although nothing was stopped.  `jetty[s]` is the life of the `Server`
objects that `connectContainer` makes; the field `server` names the last one;
`port` is the one whose connector has the port open.  The ghost variable `orderly`
says that no step of a restart or shutdown failed and no restart overlapped
another restart or a shutdown.

Abstracted: connecting and starting a container are one step each (their own
state is local to the new `Server`).  The hook with which Jetty stops a `Server`
when the JVM exits (`setStopAtShutdown`) runs after the end of the model.  Stopping a `Server` that was never started
does nothing, as Jetty's lifecycle defines; a stop that throws has closed the
connector.  A latch is a number, `NewLatch` takes the next.  `serverState` is
neither volatile nor guarded by a lock: the model reads its current value at each
entry, and does not model a thread that keeps seeing an old one.

### `ServiceCalls`: what a call does

The state `running` of `ApiCalls` in detail.  `state[c]` says where a call is:
waiting for a connection (`lease`), in an HTTP exchange (`exchange`), at the
monitor of `getService` (`lookup`), inside `startServices` (`start`), in a method
of a service (`invoke`).  `leased` names the connections out of the pool by the
call that took them, `dropped` the calls whose answer was not 200 and had a body:
`makeSyncCall` throws without reading or closing it, so that the connection stays
out.  `instance[c]` is the service object that a call has made, `serviceCache`
the registry.  A `serveBlob` asks for the service of the blob storage in the same
way (`job` is `"filter"`).

Abstracted: what an exchange carries; the method cache, which repeats a lookup;
the native socket mode, saved and restored around the call on the same thread; the
objects of other packages that `ServiceLoader` makes in every lookup and drops
without `init` or `start`.
A service that asks the context for another service while it starts would enter
the monitor again; which services do is outside the repository, and the model
has none.

### `BlobServing`: one blob

`store`, `blockCount` and `startPos` are the stream that `storeBlob` returns and
its `close()`, one chunk a step, with the end of a chunk computed in the width of
an `int`.  A `deleteBlob` (`deleter[d]`, `count[d]`) deletes chunks from the last one
down and the meta data last.  A `serveBlob` (`reader[r]`) loads the meta data,
loads them again (`hasBlob`), sets the header, opens the stream (which loads them
once more) and copies: the stream fetches a chunk a time, and fails when the chunk
is gone.  All three go on at once, and each of their steps may fail.  In this
repository only the filter uses the class, and blobs are stored and deleted by
the API server; the operations are modelled as what the class offers.

A range has bounds up to `MaxLong`, and the length that `serveBlob` computes from
them has the width of a `long`: for `bytes=0-9223372036854775807` it overflows, the
Content-Length is negative and the body empty, which `BodyFitsHeader` says.

Abstracted: bytes (a chunk is the interval it holds), the header's syntax
(`Range`, `OpenRange` and `Unsatisfiable` are what parsing yields; a range that
`ByteRange` rejects ends in status 416 or an exception, one state `refused`).

### `StropheConnection`: the channel in the browser

A browser runs one event handler at a time, so that an action is a handler with
all callbacks it makes: `Answered`, `Refused` and `Failed` are
`_onRequestStateChange` with status 200, with 4xx, and with 5xx or none;
`OnIdle` and `OnIdleTimeout` are `_onIdle` without and with a due disconnect timer;
`DelayedPost` the posting that `_processRequest` puts off; `BeforeUnload` the page's
unload.  The functions that handlers are built from (`DataRecv`, `Disconnect`,
`ThrottledRequestHandler`, ...) are operators from the client's record to the next,
named as in the script.  `server` is the other end as BOSH has it: it answers rids
in their order and repeats an answer for a rid that is posted again.

Abstracted: a request's age is the flag `old`, which `Ages` sets (the two
time-outs are told apart by nothing else); the random rid of a new session is the
old one plus `Window`; `TimerFirst` says that the three seconds of the disconnect
timer are over before a terminate is old or posted a third time; the mechanisms of the
authentication are `Rounds` stanzas and the callback waiting for the next one is
`"auth"`; stanzas of other kinds are none.  Status codes other than 200, 4xx and
5xx, requests with sendIQ, `attach`, `pause` and the plugins are left out: the socket
and the server do not use them; so is `onerror`, which the page is given for
statuses that no property is about.  Two branches are never taken by the socket:
the `catch` around `xhr.open`, because the path is one of the page's own host, and
the one for a jid without a node and no ANONYMOUS on offer, because a channel's id
has an "@", before which the node is.  `close()` of the page is left out because it
throws: it reads `goog.appengine.Socket`, a name the script's scope does not have.

## Runs

State counts are those of TLC with the configuration's symmetry.

| run | bounds | shows |
|---|---|---|
| `calls` | 3 calls at a time, all of which may be without a package name, handler and 1 request thread, 2 permits | permits are neither lost nor duplicated, however calls end; no more calls than permits execute besides cancelled ones, and none once the handler has drained them |
| `gate` | 2 calls at a time, 1 permit, a background thread besides, fairness | a synchronous call returns with its permit back; unless calls go on for ever the handler's wait ends and every call settles; the semaphore implements `ApiBarrier` with its fairness, so that nothing enters after the drain and every permit comes back |
| `services` | 3 calls, 2 connections, 2 services and a package without one, fairness (20,022 states) | connections are in use or lost with a dropped body; one object of a service runs and nobody meets one that has not started; every call ends unless all connections are lost |
| `threads` | 2 request threads, limits of 2 and 4 ticks, servlet returns by 3, fairness | no thread of the servlet is overlooked; the threads share one time limit; the dispatch ends, unless a second join begins exactly at the limit |
| `join_zero` (violation) | the same | that exception: `join(0)` keeps the Jetty thread |
| `request` | 2 calls at a time, 1 permit, 1 request thread | interrupts of the request's end miss the calls in progress |
| `request_live` | 1 call at a time, 1 permit, 1 request thread, fairness | a thread stranded at the drained semaphore is freed; the request ends unless calls go on for ever; its calls implement `ApiCalls` with its fairness |
| `server` | 2 callers and the scheduler, 3 containers, 1 pending shutdown, fairness (1,606,920 states) | a quiet server serves or has released everything; the process exits with status 0 after the container stopped, or when the main thread is interrupted; at most one container is started, however restarts overlap; a graceful shutdown of a running server ends the process, and so does a stop of the container of `start` |
| `server_race` (violation) | 2 callers, 2 containers | a restart that began in time starts a container after the shutdown |
| `blobs` | blobs of up to 5 bytes in chunks of 2, an `int` of at most 5, ranges up to a `long` of at most 7, 2 deletions, 1 response, fairness (107,518 states) | meta data name only whole blobs and leave no chunk behind; a response ends and has the bytes its header names, and none when the header is negative |
| `channel` | 2 messages, 3 postings of a request, 1 error in a row, 2 stanzas of authentication, 1 garbled answer, 1 unload, rids up to 4 | no message is lost or repeated; client and server agree on the next rid; the callbacks keep `ChannelContract` |
| `channel_live` | 1 message, rids up to 4 besides those of terminates, fairness | a disconnect ends in onclose; every request leaves the queue, also the terminate of a connection that has ended; a handshake that is not denied ends |

Why the bounds are enough to make the interesting cases happen:

* `calls`: with three calls over two permits, two hold a permit while the third
  waits; a cancelled call lets the third in while it still executes, which is the
  one way to have more than `MaxPermits` calls executing.
* `gate`, `request`: over one permit a second call waits for the first; two calls let one be cancelled, dropped or interrupted while
  the handler waits for the other.  In all of them, and in `request_live`, places
  are used again, so that a thread can call as often as it likes and compete with
  the waiting handler for ever.
* `threads`: the servlet may return before (`now` < 2), at, and after the online
  limit, so that the remaining time is positive, zero and negative; two threads
  show one listener's wait eating the other's time.  `ForeverMax` only cuts off
  how long a join without limit is watched.
* `server`: three containers allow two restarts, one over the other, and a start
  after them; two callers and the scheduler allow two shutdowns and a restart
  at the same time.  `MaxPending` bounds scheduled shutdowns; a second one only
  repeats the first.

* `services`: three calls over two connections let one wait while the others
  keep theirs, and let both be lost; three calls at one package let two wait at
  the monitor while the start of the first fails or succeeds.
* `blobs`: sizes 0 to 5 are an empty blob, a part of a chunk, one and two full
  chunks, and a last chunk that is not full; the `int` overflows in the third chunk.  Ranges
  are all pairs of bounds up to and beyond the size, the largest `int`, and the
  largest `long`, where the length overflows.  Responses do not
  influence each other or anything else, so that one is enough; two deletions
  may overtake each other and fail at different chunks.
* `channel`: two requests are out at a time, whose answers come in either order,
  and `MaxRid` allows a third; two messages may come in one answer, in two, or around an
  exception.  `MaxRid` bounds the polls and messages; every end of a connection
  begins a new session with a terminate whose rid is larger by `Window`.
  `RequestsSettle` is about every request, those terminates included: it is said of
  the oldest one in the queue, which each request is at some time.  `SendLimit` (5 in the code) is 3, the least with a repeated posting
  that is put off and one that ends the connection, and `ErrorLimit` (4) is 1.
  The theorems hold for every value.

Deadlock is not checked: a request that has ended, a process that has exited, a
call or response that is over, and a closed channel take no step.

## Fairness

`FairSpec` of each module assumes weak fairness only, of steps that the JVM, the
browser or a library takes: a thread that can go on does, time passes, timers
fire, a task handed to the pool runs.  `ApiCalls` and `RequestLifecycle` assume
besides that an HTTP or Java service answers (`Answer`), which the code justifies
least: `future.get()` and the HTTP client set no timeout.  `ServiceCalls` says when
the assumption holds: given that services and the API server answer, a call
ends (`EveryCallEnds`) unless each connection of the pool has been lost with the
body of an answer other than 200.
The semaphore is not fair, and threads that never stop calling can keep the
handler out of `acquire(100)`, and each other out of `acquire()`, for ever.  TLC finds such a
behaviour in `gate` and in `request_live` when nothing is said against it.
`RequestSettles` and `RequestEnds` therefore have the premise `FinitelyManyCalls`: from
some time on no further call is made.  A request that makes a call without a package name
never ends either, as its permit is lost; the runs of liveness have none
(`Unnamed = {}`).  With the premise `Acquire` needs no strong fairness,
because permits, once back, are not taken away for ever.  The monitor of `getService`
is handed out in no order; `ServiceCalls` has finitely many calls.

`BlobServing` assumes that the thread of a response runs and the datastore answers
or fails.  `StropheConnection` assumes only that the browser's timers fire and
time passes; nothing is assumed of the network or of the server.

Weak fairness of a step A is `[]<>(~ENABLED A) \/ []<><<A>>_vars`.  `ApiCalls`,
`RequestLifecycle` (of its calls and the wait for them), `AppServer`,
`StropheConnection` (of its idle handler) and the `HolderFairness` of
`ServiceCalls` state it in this form with ENABLED written out as the guard it
is (`MayStart` and its like), because the prover has no rule for ENABLED and TLC is
faster without it.  That each guard equals its ENABLED is a state formula
which TLC has confirmed in all states of the configurations below.

Nothing is assumed of the application: servlets need not return, threads need not
end when interrupted, Futures need not be awaited or cancelled, nobody has to
call `restart` or `shutdown`, blobs need not be deleted.

## Theorems

All hold for any number of calls, threads, permits and callers, and for any time
limits, under the named assumptions of the modules: threads are distinct, calls
and request threads finite, permits and limits positive.

* **`ApiCallsProofs`**.  `PermitsConserved` counts the calls that hold a permit,
  and a release keeps it only if the call that releases still holds one.
  `CallInv` therefore relates the two program counters, the FutureTask and the
  `released` flag of every call: before the submit there is no worker; a permit
  given back while the task is in the pool was given back by `cancel`; and after
  the finally block the flag is set.  `TypeCorrect` (with `permits` at most
  `MaxPermits`) and `PermitsNeverLost` follow from it; then
  `Bounded` (executing calls beyond the holders of permits were cancelled, and a
  drained semaphore means no holders), `SyncReturn`, `DrainIsFinal`, and
  `SemaphoreIsBarrier`: every step of the calls is a step of the gate or leaves it
  as it is.  `SemaphoreIsFairBarrier` adds the gate's fairness: whoever holds a
  permit gives it back, on every way to the end of a call, stage by stage from
  the submit to the flag; it assumes that no call is made with a null package
  name (`Unnamed = {}`), since the permit of such a call does not come back.
  `PermittedCallSettles` follows the thread that makes a call with a name in the
  same way: once it has its permit it returns or throws.
* **`RequestThreadsProofs`**.  `NoneOverlooked`: a thread the servlet started is
  registered before the dispatch, because `start()` runs in the handler's thread,
  and is from then on to be visited, being visited, dead, or struck twice
  (`ServletInv`).  `OneDeadline`: the handler is never later than the later of
  limit and start of dispatch plus one `Grace` per thread already visited.
* **`RequestLifecycleProofs`**.  The composition implements both modules
  (`CallsImplemented`, `ThreadsImplemented`), so that their theorems hold for the
  whole request.  The invariant says what the modules know of each other: the
  listeners run after the wait, and only living threads are inside a call.
  `CallsFairlyImplemented` says the same of `ApiCalls` with its fairness, so that
  `CallsOfRequestSettle`, a theorem of `ApiCalls` about fair behaviours and calls with a
  name, holds for the whole
  request although its listeners interrupt the threads that call.
  `CallsMissed` joins the invariant with the call invariant of `ApiCallsProofs`: a drained
  semaphore has no holders, hence no synchronous call in progress to interrupt.
* **`AppServerProofs`**.  `IInv` says where each thread may be and what the first
  Server has been through; `ExitsStopped` is that the latch `start` returned is
  counted down only after some thread got past its stop, which is true however
  methods overlap and fail; without a stop the process exits with status 0 only through
  `ExitInterrupted`.  For orderly servers, `OrderlyInv` describes the
  container, the delegates and the latch at each place of a restart, and of any
  number of shutdowns at once; `RunningServer` and `ShutdownServer` are what is
  left of it when nobody is inside a method.
  `OneStarted` holds also of disorderly servers: `PortInv` says that at most one
  thread is between its connect and its startup, that it has the port, and that a
  Server that is started was made no earlier than the one with the port.  `OneContainer`
  alone is not inductive: what keeps a second restart out is the open port, which
  may be that of a Server nobody can stop any more.
  Two theorems are about liveness.  `StoppedServerEnds` needs `WaitInv`: Main waits for
  the latch of `start`, or for a later one made only after the first was counted
  down; and who stopped the Server of `start` counts it down next, even when the
  stop failed.  `GracefulShutdownEnds` follows a shutdown through four stages,
  scheduled, under way, declared, and heard of; `LatchInv` says that all latches
  but the last are counted down, so that it does not matter for which of them
  Main waits, and `OrderlyInv` that another shutdown on its way declares the state first
  and counts the latch down in the first one's stead.  `StopEndsProcess` joins the two.
* **`ServiceCallsProofs`**.  `Inv` says that a call that starts a service has the
  monitor, that what is cached is what runs, that whoever has not been through
  the registry has made no object, and that dropped answers belong to calls that
  have ended.  `ConnectionsAreAccounted` is inductive with the last of these: a
  call in an exchange has not dropped its answer before.  `OneServiceRuns` and
  `UsersServed` follow from the first three.  `HoldersEnd`: a call with a
  connection, the monitor or a service ends, whatever the others do.
  `MonitorComesBack`: nobody keeps the monitor of `getService`, also when a service
  fails to start.  Both come from the fact that a call is never disturbed in what it
  has (`OwnSteps`).
* **`BlobServingProofs`**.  `Storing` says that the bytes before `startPos` are in
  their chunks and that no chunk begins behind the blob's end; with the arithmetic of
  `ChunkOf` this gives `WholeWhenSaved`, and that `deleteBlob` begins at or above the
  last chunk.  `Deleting` says that a deletion has left no chunk above its
  count, however many run: `NoneOrphaned`.  `Serving` relates the
  position of the stream, what is left and what is written: `BodiesFit`, for lengths in the width of a `long`; only the range whose
  length overflows gives a negative header, and for it nothing is copied.  `EndOfChunk`
  shows that an end that overflows is below the start, so that `copyOfRange` throws.
* **`StropheConnectionProofs`**.  Each handler is a composition of functions; for each
  function a lemma says what it does to the client in terms of a few relations
  (`Quiet`, `Steady`, `Finished`: nothing happens to the page, requests are added or
  posted, the connection has ended), and what the events as a whole can do is one of
  `Over`, `Goes`, `Proceeds`, `Joins`, `Reads`.  The invariants build on each other:
  `BaseInv` (what a client's fields allow together, `TypeCorrect` and `OpenUsable`);
  `Order` (the rids of a session are without a gap and the server is
  within them: `InStepHolds`); `Mail` (messages are delivered in their order, so
  that `ContractKept`); `Progress` (who waits for which stanza: without it a message
  handler could be missing when messages arrive, so that it is needed for
  `Complete`, that is `NothingIsLost`); `Talks` and `Awake` (an
  authentication that waits has a request with the server: `SilenceExplained`).
  `DisconnectCloses`: the disconnect timer, once set, is never taken away except by the
  end of the connection.

How liveness is proved without ENABLED: the fairness is there in written-out form
(see above), so that each stage is one argument in temporal logic.  The
thread's guard stays true until the thread steps, which is a step lemma under the
invariant; hence it steps, and is in the next stage.  Where it may be any of
several threads that go on ("some thread is at this place"), the argument is made for
one thread named beforehand, and a quantifier over a constant set is exchanged
with "always".

Only model-checked, among the runs' properties: `RequestSettles`, `StrandedFreed`,
`RequestEnds`, `DispatchEnds`, `EveryCallEnds`, `ResponseEnds`, `RequestsSettle` and
`HandshakeEnds`.  Each needs something that gets less with every round: calls that
are not over, listeners not yet visited, time until the limit, chunks not yet
copied, postings left.  This is an induction whose hypothesis is a temporal
formula, which the library states with an operator as parameter and no installed
prover can instantiate.  What can be said of one round is proved: `PermittedCallSettles`,
`CallsOfRequestSettle`, `HoldersEnd` and `MonitorComesBack`.

## Findings

* `join_zero`: when the limit of the request is reached to the millisecond,
  `getRemainingMillis` returns 0 and `join(0)` has no timeout.  The handler stays
  in the join until the thread ends.
* `server_race`: `restart` looks at `serverState` once.  A shutdown that comes
  meanwhile is undone by the rest of the restart: a container is started, with a
  null delegate, for a server in state SHUTDOWN.

## Not modelled

* The abstracted data named above.
* `stop()` of the proxy, which nothing in the runtime calls; services that ask
  for other services while they start; forwarded dispatches of the handler; user
  attributes of the environment.
* Login (`Logins`, the login servlets, `UserServiceImpl`) and blob upload: they split
  and compare the characters of one request, keep no state, and have unit
  tests; a model that abstracts the characters has nothing left of them.
* Class loading: each method delegates by name, and what is shared is the JVM's.
* Of the channel script: the vendored base64, MD5 and Closure code, and which of
  the mechanisms' callbacks a stanza of the authentication meets.
* Main's options, the class loaders and the time zone; Jetty's shutdown hook.
* Threads that see an old value of a field that is not volatile (`serverState`,
  `blobStorage`), or an object before its fields.
* The page's `onerror`.
* Properties of restarts that fail or overlap say only what `ExitAfterStop` says:
  the code gives no promise about a server in that state.

## Plan

Done: all modules above and their proofs, for every component whose state is
shared or lasts longer than a call.  What could be added:

1. The authentication of the channel with the lists of stanza handlers as
   `_dataRecv` walks them, refining the counter `stage` of `StropheConnection`: the
   callbacks of one mechanism take off those of the others.
2. Services that ask for each other while they start, with a monitor that is
   entered again: `OneService` then needs an order of the services.
3. `AppServer` refines an abstract lifecycle (starting, serving, stopped) as long
   as it is orderly.
4. `BlobServing` refines an abstract store, in which a blob is there or is not,
   up to failures half way.
