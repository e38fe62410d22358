------------------------------ MODULE ApiCalls ------------------------------
(***************************************************************************)
(* The API calls of one HTTP request: AppScaleApiProxyLocal.makeSyncCall,  *)
(* makeAsyncCall, AsyncApiCall and the Future it returns, and the part of  *)
(* JettyContainerService.ApiProxyHandler.handle that waits for them.       *)
(*                                                                         *)
(* Every request has a java.util.concurrent.Semaphore of MaxPermits        *)
(* permits in its environment.  A call takes a permit in the thread that   *)
(* makes it, is handed to a cached thread pool, and gives the permit back  *)
(* from whichever comes first of: the pool thread after the call, a        *)
(* cancel() of its Future, or the caller when the pool refuses it.  The    *)
(* handler ends the request after acquiring all the permits at once.       *)
(*                                                                         *)
(* A call c has two program counters: client[c], where the thread that     *)
(* makes it is, and worker[c], where its FutureTask is.  Calls bounds the  *)
(* calls under way at once, not how many are made: a call that is over     *)
(* leaves its place to another one (Reuse).                                *)
(***************************************************************************)
EXTENDS Integers, FiniteSets

CONSTANTS
  Calls,             \* the calls that can be under way at once (a bound of the model)
  Unnamed,           \* those that may be made with a null package name
  Handler,           \* the Jetty thread that runs handle()
  RequestThreads,    \* threads of CurrentRequestThreadFactory: the handler's environment
  BackgroundThreads, \* threads of BackgroundThreadFactory: an environment of their own
  NoThread,          \* the caller of a call nobody has made
  MaxPermits         \* MAX_SIMULTANEOUS_API_CALLS

Threads == {Handler} \cup RequestThreads \cup BackgroundThreads

ASSUME ThreadAssumption ==
  /\ Handler \notin RequestThreads \cup BackgroundThreads
  /\ RequestThreads \cap BackgroundThreads = {}
  /\ NoThread \notin Threads

ASSUME PermitAssumption == MaxPermits \in Nat \ {0}

ASSUME CallAssumption == IsFiniteSet(Calls) /\ Unnamed \subseteq Calls

VARIABLES
  handler,      \* where ApiProxyHandler.handle is
  permits,      \* Semaphore: the permits available
  caller,       \* the thread that made a call
  sync,         \* made by makeSyncCall (TRUE) or by the application's makeAsyncCall
  client,       \* the caller's program counter in makeAsyncCall / makeSyncCall
  worker,       \* the pool's program counter in AsyncApiCall.call
  future,       \* the state of the FutureTask
  released,     \* AsyncApiCall.released
  cancelling,   \* some thread is inside Future.cancel, between its two statements
  interrupted   \* Thread interrupt flags

callVars == <<caller, sync, client, worker, future, released, cancelling>>
vars == <<handler, permits, interrupted, callVars>>

ClientStates ==
  {"idle", "acquire", "submit", "await", "returned", "interrupted", "rejected", "threw"}
WorkerStates == {"none", "queued", "running", "release", "complete", "finished"}
FutureStates == {"none", "pending", "done", "cancelled"}
HandlerStates == {"serving", "draining", "drained", "gaveUp"}

Init ==
  /\ handler = "serving"
  /\ permits = MaxPermits
  /\ caller = [c \in Calls |-> NoThread]
  /\ sync = [c \in Calls |-> FALSE]
  /\ client = [c \in Calls |-> "idle"]
  /\ worker = [c \in Calls |-> "none"]
  /\ future = [c \in Calls |-> "none"]
  /\ released = [c \in Calls |-> FALSE]
  /\ cancelling = [c \in Calls |-> FALSE]
  /\ interrupted = [t \in Threads |-> FALSE]

-----------------------------------------------------------------------------
(* The semaphore.                                                          *)

\* The environment of a background thread carries no semaphore: unauthChild
\* copies only COPY_ATTRS, and makeAsyncCall skips acquire when it finds none.
UsesPermit(t) == t \notin BackgroundThreads

\* c has taken a permit and tryReleaseSemaphore has not yet given it back.  A
\* call that threw before it was built has nobody left who could.
Holds(c) ==
  /\ UsesPermit(caller[c])
  /\ ~released[c]
  /\ client[c] \in {"submit", "threw"} \/ worker[c] # "none"

Holders == {c \in Calls : Holds(c)}

\* Defect: a release that does not look at the flag.
TryReleaseTwice(c) ==
  /\ permits' = IF UsesPermit(caller[c]) THEN permits + 1 ELSE permits
  /\ released' = [released EXCEPT ![c] = UsesPermit(caller[c])]

\* Defect: a release that forgets the permit when the task has not started.
TryReleaseStarted(c) ==
  LET free == UsesPermit(caller[c]) /\ worker[c] # "queued"
  IN  /\ permits' = IF free /\ ~released[c] THEN permits + 1 ELSE permits
      /\ released' = [released EXCEPT ![c] = @ \/ UsesPermit(caller[c])]

\* AsyncApiCall.tryReleaseSemaphore (synchronized, hence one step).
TryRelease(c) ==
  LET free == UsesPermit(caller[c]) /\ ~released[c]
  IN  /\ permits' = IF free THEN permits + 1 ELSE permits
      /\ released' = [released EXCEPT ![c] = @ \/ free]

\* Thread t is inside makeAsyncCall or makeSyncCall.
Busy(t) ==
  \E c \in Calls : caller[c] = t /\ client[c] \in {"acquire", "submit", "await"}

-----------------------------------------------------------------------------
(* The caller: makeAsyncCall, and makeSyncCall around it.                  *)

\* Defect: the semaphore is looked up only for synchronous calls.
EnterSyncOnly(t, c, s) ==
  /\ client[c] = "idle" /\ ~Busy(t)
  /\ t = Handler => handler = "serving"
  /\ ~(UsesPermit(t) /\ interrupted[t])
  /\ caller' = [caller EXCEPT ![c] = t]
  /\ sync' = [sync EXCEPT ![c] = s]
  /\ client' = [client EXCEPT ![c] = IF UsesPermit(t) /\ s THEN "acquire" ELSE "submit"]
  /\ UNCHANGED <<handler, permits, worker, future, released, cancelling, interrupted>>

\* A thread enters makeAsyncCall.  With no semaphore it goes on to submit.
Enter(t, c, s) ==
  /\ client[c] = "idle" /\ ~Busy(t)
  /\ t = Handler => handler = "serving"
  /\ ~(UsesPermit(t) /\ interrupted[t])
  /\ caller' = [caller EXCEPT ![c] = t]
  /\ sync' = [sync EXCEPT ![c] = s]
  /\ client' = [client EXCEPT ![c] = IF UsesPermit(t) THEN "acquire" ELSE "submit"]
  /\ UNCHANGED <<handler, permits, worker, future, released, cancelling, interrupted>>

\* acquire() looks at the interrupt flag before the permits: it clears the
\* flag, and the InterruptedException reaches the caller as a RuntimeException.
EnterInterrupted(t, c, s) ==
  /\ client[c] = "idle" /\ ~Busy(t)
  /\ t = Handler => handler = "serving"
  /\ UsesPermit(t) /\ interrupted[t]
  /\ caller' = [caller EXCEPT ![c] = t]
  /\ sync' = [sync EXCEPT ![c] = s]
  /\ client' = [client EXCEPT ![c] = "interrupted"]
  /\ interrupted' = [interrupted EXCEPT ![t] = FALSE]
  /\ UNCHANGED <<handler, permits, worker, future, released, cancelling>>

\* The waiting acquire() gets a permit.  An interrupt that arrives at the
\* same time may go unnoticed: the flag stays set.
Acquire(c) ==
  /\ client[c] = "acquire" /\ permits > 0
  /\ permits' = permits - 1
  /\ client' = [client EXCEPT ![c] = "submit"]
  /\ UNCHANGED <<handler, caller, sync, worker, future, released, cancelling, interrupted>>

\* The waiting acquire() is interrupted; no permit is taken, no call is made.
AcquireInterrupted(c) ==
  /\ client[c] = "acquire" /\ interrupted[caller[c]]
  /\ interrupted' = [interrupted EXCEPT ![caller[c]] = FALSE]
  /\ client' = [client EXCEPT ![c] = "interrupted"]
  /\ UNCHANGED <<handler, permits, caller, sync, worker, future, released, cancelling>>

\* apisUsingPythonStubs, a TreeSet, throws at contains(null): after acquire()
\* and before the try whose finally block gives the permit back.
SubmitThrows(c) ==
  /\ client[c] = "submit" /\ c \in Unnamed
  /\ client' = [client EXCEPT ![c] = "threw"]
  /\ UNCHANGED <<handler, permits, caller, sync, worker, future, released, cancelling, interrupted>>

\* The pool takes the task (success = TRUE).  The application's asynchronous
\* call returns its Future here; makeSyncCall goes on to future.get().
Submit(c) ==
  /\ client[c] = "submit"
  /\ client' = [client EXCEPT ![c] = IF sync[c] THEN "await" ELSE "returned"]
  /\ worker' = [worker EXCEPT ![c] = "queued"]
  /\ future' = [future EXCEPT ![c] = "pending"]
  /\ UNCHANGED <<handler, permits, caller, sync, released, cancelling, interrupted>>

\* Defect: no finally block around submit.
SubmitFailsHolding(c) ==
  /\ client[c] = "submit"
  /\ client' = [client EXCEPT ![c] = "rejected"]
  /\ UNCHANGED <<handler, permits, released, caller, sync, worker, future, cancelling, interrupted>>

\* The pool cannot take the task (no new thread can be created): the finally
\* block gives the permit back and the error reaches the caller.
SubmitFails(c) ==
  /\ client[c] = "submit"
  /\ client' = [client EXCEPT ![c] = "rejected"]
  /\ TryRelease(c)
  /\ UNCHANGED <<handler, caller, sync, worker, future, cancelling, interrupted>>

\* future.get() returns or throws what the call returned or threw.
GetReturns(c) ==
  /\ client[c] = "await" /\ future[c] = "done"
  /\ client' = [client EXCEPT ![c] = "returned"]
  /\ UNCHANGED <<handler, permits, caller, sync, worker, future, released, cancelling, interrupted>>

\* future.get() is interrupted: makeSyncCall throws CancelledException and
\* forgets the Future, the call itself goes on.
GetInterrupted(c) ==
  /\ client[c] = "await" /\ interrupted[caller[c]]
  /\ interrupted' = [interrupted EXCEPT ![caller[c]] = FALSE]
  /\ client' = [client EXCEPT ![c] = "interrupted"]
  /\ UNCHANGED <<handler, permits, caller, sync, worker, future, released, cancelling>>

\* The caller is out of makeAsyncCall or makeSyncCall, one way or another.
Settled(c) == client[c] \in {"returned", "interrupted", "rejected", "threw"}

\* The application can make another call in the place of one that is over, for
\* its caller and in the pool.  (The place of a call that threw is not used
\* again: its permit is gone with it.)
Reuse(c) ==
  /\ Settled(c) /\ client[c] # "threw"
  /\ worker[c] \in {"none", "finished"} /\ ~cancelling[c]
  /\ caller' = [caller EXCEPT ![c] = NoThread]
  /\ sync' = [sync EXCEPT ![c] = FALSE]
  /\ client' = [client EXCEPT ![c] = "idle"]
  /\ worker' = [worker EXCEPT ![c] = "none"]
  /\ future' = [future EXCEPT ![c] = "none"]
  /\ released' = [released EXCEPT ![c] = FALSE]
  /\ UNCHANGED <<handler, permits, cancelling, interrupted>>

-----------------------------------------------------------------------------
(* The pool thread: FutureTask.run around AsyncApiCall.call.               *)

\* FutureTask.run calls the callable only while the task is new.
Start(c) ==
  /\ worker[c] = "queued" /\ future[c] = "pending"
  /\ worker' = [worker EXCEPT ![c] = "running"]
  /\ UNCHANGED <<handler, permits, caller, sync, client, future, released, cancelling, interrupted>>

\* A task cancelled before it started is dropped: call() never runs, so its
\* own finally block never releases.
Skip(c) ==
  /\ worker[c] = "queued" /\ future[c] = "cancelled"
  /\ worker' = [worker EXCEPT ![c] = "finished"]
  /\ UNCHANGED <<handler, permits, caller, sync, client, future, released, cancelling, interrupted>>

\* Defect: the permit is given back only after a normal return.
AnswerUnreleased(c) ==
  /\ worker[c] = "running"
  /\ \E w \in {"release", "complete"} : worker' = [worker EXCEPT ![c] = w]
  /\ UNCHANGED <<handler, permits, caller, sync, client, future, released, cancelling, interrupted>>

\* callInternal returns or throws: disabled API, Java service, HTTP API
\* server.  Its environment is set on entry and cleared on the way out.
Answer(c) ==
  /\ worker[c] = "running"
  /\ worker' = [worker EXCEPT ![c] = "release"]
  /\ UNCHANGED <<handler, permits, caller, sync, client, future, released, cancelling, interrupted>>

\* The finally block of call().
Release(c) ==
  /\ worker[c] = "release"
  /\ TryRelease(c)
  /\ worker' = [worker EXCEPT ![c] = "complete"]
  /\ UNCHANGED <<handler, caller, sync, client, future, cancelling, interrupted>>

\* FutureTask.set or setException; a cancelled task keeps its state.
Complete(c) ==
  /\ worker[c] = "complete"
  /\ worker' = [worker EXCEPT ![c] = "finished"]
  /\ future' = [future EXCEPT ![c] = IF @ = "pending" THEN "done" ELSE @]
  /\ UNCHANGED <<handler, permits, caller, sync, client, released, cancelling, interrupted>>

-----------------------------------------------------------------------------
(* The Future handed to the application: any thread that has it may cancel *)
(* it, before, during and after the call, and more than once.              *)

\* cancel(), first statement: the permit goes back before the task is stopped.
CancelRelease(c) ==
  /\ client[c] = "returned" /\ ~sync[c] /\ ~cancelling[c]
  /\ TryRelease(c)
  /\ cancelling' = [cancelling EXCEPT ![c] = TRUE]
  /\ UNCHANGED <<handler, caller, sync, client, worker, future, interrupted>>

\* cancel(), second statement: FutureTask.cancel has an effect only on a task
\* that has not completed.  A running call goes on, interrupted or not.
CancelTask(c) ==
  /\ cancelling[c]
  /\ future' = [future EXCEPT ![c] = IF @ = "pending" THEN "cancelled" ELSE @]
  /\ cancelling' = [cancelling EXCEPT ![c] = FALSE]
  /\ UNCHANGED <<handler, permits, caller, sync, client, worker, released, interrupted>>

-----------------------------------------------------------------------------
(* The handler, after the servlet returned or threw.                       *)

\* super.handle is over.  acquire(MaxPermits) looks at the interrupt flag
\* first; the catch block sets the flag again and the request goes on to end.
ServletReturns ==
  /\ handler = "serving" /\ ~Busy(Handler)
  /\ handler' = IF interrupted[Handler] THEN "gaveUp" ELSE "draining"
  /\ UNCHANGED <<permits, callVars, interrupted>>

\* Defect: one permit is enough to end the request.
DrainOne ==
  /\ handler = "draining" /\ permits > 0
  /\ permits' = permits - 1
  /\ handler' = "drained"
  /\ UNCHANGED <<callVars, interrupted>>

\* acquire(MaxPermits) succeeds: all the permits at once, never given back.
Drain ==
  /\ handler = "draining" /\ permits >= MaxPermits
  /\ permits' = permits - MaxPermits
  /\ handler' = "drained"
  /\ UNCHANGED <<callVars, interrupted>>

\* The waiting acquire is interrupted: it takes nothing.
DrainInterrupted ==
  /\ handler = "draining" /\ interrupted[Handler]
  /\ handler' = "gaveUp"
  /\ UNCHANGED <<permits, callVars, interrupted>>

\* Thread.interrupt on one of the threads: Jetty stopping its pool after the
\* stop timeout, the end of the request, or the application itself.
Interrupt(t) ==
  /\ ~interrupted[t]
  /\ interrupted' = [interrupted EXCEPT ![t] = TRUE]
  /\ UNCHANGED <<handler, permits, callVars>>

\* Any other interruptible operation of a thread (a sleep of the application, a
\* join of the request-end listeners) takes the flag and throws.
TakeInterrupt(t) ==
  /\ interrupted[t] /\ ~Busy(t)
  /\ t = Handler => handler # "draining"
  /\ interrupted' = [interrupted EXCEPT ![t] = FALSE]
  /\ UNCHANGED <<handler, permits, callVars>>

-----------------------------------------------------------------------------

ClientStep(c) ==
  \/ \E t \in Threads, s \in BOOLEAN : Enter(t, c, s) \/ EnterInterrupted(t, c, s)
  \/ Acquire(c) \/ AcquireInterrupted(c)
  \/ Submit(c) \/ SubmitFails(c) \/ SubmitThrows(c)
  \/ GetReturns(c) \/ GetInterrupted(c)

WorkerStep(c) == Start(c) \/ Skip(c) \/ Answer(c) \/ Release(c) \/ Complete(c)

CancelStep(c) == CancelRelease(c) \/ CancelTask(c)

HandlerStep == ServletReturns \/ Drain \/ DrainInterrupted

Next ==
  \/ \E c \in Calls : ClientStep(c) \/ WorkerStep(c) \/ CancelStep(c) \/ Reuse(c)
  \/ HandlerStep
  \/ \E t \in Threads : Interrupt(t) \/ TakeInterrupt(t)

Spec == Init /\ [][Next]_vars

(* When the steps of a thread are possible.                                *)

MayAcquire(c) == client[c] = "acquire" /\ permits > 0
MaySubmit(c) == client[c] = "submit"
MayGet(c) == client[c] = "await" /\ future[c] = "done"
MayWork(c) ==
  \/ worker[c] = "queued" /\ future[c] \in {"pending", "cancelled"}
  \/ worker[c] \in {"running", "release", "complete"}
MayDrain == handler = "draining" /\ (permits >= MaxPermits \/ interrupted[Handler])

\* Threads of the JVM run; a service answers every call it is given.  Nothing
\* is assumed of the application: it need not make, cancel or await a call,
\* and its servlet need not return.  Each line is WF_vars of its step with the
\* ENABLED written out, as the proofs of liveness need it.
CallFairness(c) ==
  /\ []<>~MayAcquire(c) \/ []<><<Acquire(c)>>_vars
  /\ []<>~MaySubmit(c) \/ []<><<Submit(c) \/ SubmitFails(c) \/ SubmitThrows(c)>>_vars
  /\ []<>~MayGet(c) \/ []<><<GetReturns(c)>>_vars
  /\ []<>~MayWork(c) \/ []<><<WorkerStep(c)>>_vars
  /\ []<>~cancelling[c] \/ []<><<CancelTask(c)>>_vars

HandlerFairness == []<>~MayDrain \/ []<><<Drain \/ DrainInterrupted>>_vars

Fairness == (\A c \in Calls : CallFairness(c)) /\ HandlerFairness

FairSpec == Spec /\ Fairness

-----------------------------------------------------------------------------
(* Correctness.                                                            *)

\* The type of every variable.
TypeOK ==
  /\ handler \in HandlerStates
  /\ permits \in 0..MaxPermits
  /\ caller \in [Calls -> Threads \cup {NoThread}]
  /\ sync \in [Calls -> BOOLEAN]
  /\ client \in [Calls -> ClientStates]
  /\ worker \in [Calls -> WorkerStates]
  /\ future \in [Calls -> FutureStates]
  /\ released \in [Calls -> BOOLEAN]
  /\ cancelling \in [Calls -> BOOLEAN]
  /\ interrupted \in [Threads -> BOOLEAN]

\* No permit is lost and none is given back twice, whichever of the pool
\* thread, cancel() and the failed submit comes first: the permits available,
\* those of the calls that hold one and those the handler took add up.
PermitsConserved ==
  permits + Cardinality(Holders) + (IF handler = "drained" THEN MaxPermits ELSE 0)
    = MaxPermits

\* cancel() has been called on the Future of c, at least its first statement.
Cancelled(c) == cancelling[c] \/ future[c] = "cancelled"

\* The pool has c and its finally block has not run.
Executing(c) == worker[c] \in {"queued", "running", "release"}

\* MAX_SIMULTANEOUS_API_CALLS bounds the calls executing for the request, and
\* once the handler has drained the semaphore none executes: but for those that
\* were cancelled, whose permit others may have.
ConcurrencyBound ==
  Cardinality({c \in Calls : /\ Executing(c) /\ UsesPermit(caller[c])
                             /\ ~Cancelled(c)})
    <= IF handler = "drained" THEN 0 ELSE MaxPermits

\* A synchronous call that was not interrupted returns only after its call has
\* ended and its permit is back: the request cannot end under its feet.
SyncReturnsReleased ==
  \A c \in Calls :
    client[c] = "returned" /\ sync[c] => worker[c] = "finished" /\ ~Holds(c)

\* Once the handler has drained the semaphore, no call of the request reaches
\* the pool any more: threads that try are stopped at acquire.
NoCallAfterDrain ==
  [][handler = "drained" =>
       \A c \in Calls : worker[c] = "none" /\ worker'[c] # "none"
                          => ~UsesPermit(caller'[c])]_vars

\* The semaphore implements the gate of ApiBarrier.
Gate == CASE handler = "drained" -> "closed"
          [] handler = "gaveUp" -> "abandoned"
          [] OTHER -> "open"

Barrier == INSTANCE ApiBarrier
             WITH Capacity <- MaxPermits, inside <- Holders, gate <- Gate

\* Every step is a step of the gate or changes nothing it can see.
ImplementsBarrier == Barrier!Spec

\* Under fair threads and answering services, every permit comes back (if every
\* call has a package name: Unnamed is empty).
ImplementsFairBarrier == Barrier!FairSpec

\* From some point on the application makes no call in the place of an old one.
\* Nothing in the code sees to that: the semaphore is not fair, and threads that
\* keep calling can for ever take the permits that acquire(MaxPermits), or
\* another call, waits for.
FinitelyManyCalls == <>[][\A c \in Calls : ~Reuse(c)]_vars

\* The handler gets all the permits or is interrupted.
DrainEnds == handler = "draining" ~> handler \in {"drained", "gaveUp"}

\* Every call that makeAsyncCall or makeSyncCall has begun comes to an end,
\* however few the permits.  The exception is a call that is still waiting for
\* one when the handler takes them all: it waits until it is interrupted.
EveryCallSettles ==
  \A c \in Calls :
    client[c] \in {"acquire", "submit", "await"} ~>
      Settled(c) \/ (client[c] = "acquire" /\ handler = "drained")

\* If the application does not call for ever, and gives every call a package
\* name (Unnamed is empty), a request whose servlet has returned gets past its
\* calls, and every call it has begun comes to its end, however the calls are
\* cancelled and interrupted.
RequestSettles == FinitelyManyCalls => DrainEnds /\ EveryCallSettles

=============================================================================
