-------------------------- MODULE RequestLifecycle --------------------------
(***************************************************************************)
(* One HTTP request from JettyContainerService.ApiProxyHandler.handle's    *)
(* point of view: the API calls of the request (ApiCalls) and the threads  *)
(* it starts (RequestThreads), which share the handler's thread and the    *)
(* interrupt flags.                                                        *)
(*                                                                         *)
(* The request's threads make the API calls.  The handler first takes all  *)
(* the permits of the semaphore, which stops every further call at         *)
(* acquire(), and then interrupts the threads one after the other, which   *)
(* is what gets them out of acquire().                                     *)
(***************************************************************************)
EXTENDS Integers, FiniteSets

CONSTANTS
  Calls, Unnamed, MaxPermits,                   \* see ApiCalls
  Handler, RequestThreads, NoThread,
  Outsider,                                     \* see RequestThreads
  Grace, OnlineLimit, OfflineLimit, ServeMax, ForeverMax

VARIABLES
  handler, permits, caller, sync, client, worker, future, released, cancelling,
  phase, life, starter, pending, listeners, toVisit, target, deadline, strikes,
  lastJoin, offline, now, began,
  interrupted                                   \* shared

Api == INSTANCE ApiCalls WITH BackgroundThreads <- {}
Ends == INSTANCE RequestThreads

apiVars == <<handler, permits, caller, sync, client, worker, future, released, cancelling>>
endsVars == <<phase, life, starter, pending, listeners, toVisit, target, deadline,
              strikes, lastJoin, offline, now, began>>
vars == <<apiVars, endsVars, interrupted>>

Threads == {Handler} \cup RequestThreads

ASSUME ComposedAssumption ==
  /\ Handler \notin RequestThreads
  /\ NoThread \notin Threads /\ Outsider \notin Threads /\ Outsider # NoThread

ASSUME FiniteAssumption ==
  IsFiniteSet(Calls) /\ IsFiniteSet(RequestThreads) /\ Unnamed \subseteq Calls

ASSUME LimitAssumption ==
  /\ {MaxPermits, Grace, OnlineLimit, OfflineLimit, ForeverMax} \subseteq Nat \ {0}
  /\ ServeMax \in Nat

Init == Api!Init /\ Ends!Init

\* A thread does one thing at a time.
Free(t) ==
  /\ Ends!Runs(t) /\ ~Api!Busy(t)
  /\ \A u \in pending : starter[u] # t

\* A thread of the request makes a call or goes on with one.
Call(c) ==
  /\ Api!ClientStep(c)
  /\ client[c] = "idle" => Free(caller'[c])
  /\ UNCHANGED endsVars

\* The application makes another call in the place of one that is over.
Reuse(c) == Api!Reuse(c) /\ UNCHANGED endsVars

\* The pool and the canceller of a Future.
Pool(c) ==
  /\ Api!WorkerStep(c) \/ Api!CancelStep(c)
  /\ UNCHANGED endsVars

\* start() is called by a thread of the request, or by one outside.
StartThread(s, t) ==
  /\ s # Outsider => Free(s)
  /\ s = Handler => handler = "serving"
  /\ Ends!StartThread(s, t)
  /\ UNCHANGED apiVars

AddListener(t) == Ends!AddListener(t) /\ UNCHANGED apiVars

Die(t) == Free(t) /\ Ends!Die(t) /\ UNCHANGED apiVars

\* super.handle is over; acquire(MAX_SIMULTANEOUS_API_CALLS).
ServletReturns ==
  /\ Free(Handler)
  /\ Api!ServletReturns
  /\ UNCHANGED endsVars

\* Defect: the catch block forgets to set the interrupt flag again.
WaitForgetful ==
  /\ \/ Api!Drain
     \/ /\ handler = "draining" /\ interrupted[Handler]
        /\ handler' = "gaveUp"
        /\ interrupted' = [interrupted EXCEPT ![Handler] = FALSE]
        /\ UNCHANGED <<permits, caller, sync, client, worker, future, released, cancelling>>
  /\ UNCHANGED endsVars

Wait == (Api!Drain \/ Api!DrainInterrupted) /\ UNCHANGED endsVars

\* Defect: the listeners run before the handler has waited for the calls.
RequestEndFirst == Ends!BeginDispatch /\ UNCHANGED apiVars

\* Defect: the listeners run only when the wait was interrupted.
RequestEndInterrupted ==
  /\ handler = "gaveUp"
  /\ Ends!BeginDispatch
  /\ UNCHANGED apiVars

\* RuntimeEnvironmentListener.requestEnd, whether all the permits were had or
\* the wait was interrupted.
RequestEnd ==
  /\ handler \in {"drained", "gaveUp"}
  /\ Ends!BeginDispatch
  /\ UNCHANGED apiVars

Listener == Ends!ListenerStep /\ UNCHANGED apiVars

Interrupt(t) == Ends!Interrupt(t) /\ UNCHANGED apiVars

TakeInterrupt(t) ==
  /\ Free(t)
  /\ t = Handler => handler # "draining"
  /\ Ends!TakeInterrupt(t)
  /\ UNCHANGED apiVars

Tick == Ends!Tick /\ UNCHANGED apiVars

Next ==
  \/ \E c \in Calls : Call(c) \/ Pool(c) \/ Reuse(c)
  \/ \E t \in RequestThreads, s \in Threads \cup {Outsider} : StartThread(s, t)
  \/ \E t \in RequestThreads : AddListener(t) \/ Die(t)
  \/ ServletReturns
  \/ Wait
  \/ RequestEnd
  \/ Listener
  \/ \E t \in Threads : Interrupt(t) \/ TakeInterrupt(t)
  \/ Tick

Spec == Init /\ [][Next]_vars

\* The steps of the calls are fair when ApiCalls says they are possible, and so
\* is the way out of acquire() for an interrupted thread.
CallFairness(c) ==
  /\ []<>~Api!MayAcquire(c) \/ []<><<Api!Acquire(c) /\ UNCHANGED endsVars>>_vars
  /\ []<>~Api!MaySubmit(c)
       \/ []<><<(Api!Submit(c) \/ Api!SubmitFails(c) \/ Api!SubmitThrows(c)) /\ UNCHANGED endsVars>>_vars
  /\ []<>~Api!MayGet(c) \/ []<><<Api!GetReturns(c) /\ UNCHANGED endsVars>>_vars
  /\ []<>~Api!MayWork(c) \/ []<><<Api!WorkerStep(c) /\ UNCHANGED endsVars>>_vars
  /\ []<>~cancelling[c] \/ []<><<Api!CancelTask(c) /\ UNCHANGED endsVars>>_vars
  /\ WF_vars(Api!AcquireInterrupted(c) /\ UNCHANGED endsVars)

HandlerFairness ==
  /\ []<>~Api!MayDrain \/ []<><<Wait>>_vars
  /\ WF_vars(RequestEnd)
  /\ WF_vars(Listener)
  /\ WF_vars(Tick)

\* The threads of the JVM run, a service answers every call, time passes.
\* Threads of the application need not end and need not make calls.
Fairness == (\A c \in Calls : CallFairness(c)) /\ HandlerFairness

FairSpec == Spec /\ Fairness

-----------------------------------------------------------------------------
(* Correctness.                                                            *)

\* The interrupts of the request's end never hit a synchronous call that is
\* being executed, unless the handler had to give up waiting: the drain comes
\* first and lets every call finish that has a permit.
StrikesMissCalls ==
  \A c \in Calls :
    /\ caller[c] \in RequestThreads /\ strikes[caller[c]] > 0
    /\ sync[c] /\ client[c] = "await" /\ Api!Executing(c)
    => handler = "gaveUp"

\* The composition does to the calls only what ApiCalls allows: all that is
\* proved of ApiCalls holds for the whole request.
ImplementsCalls == Api!Spec

\* And it is as fair to them as ApiCalls is.
ImplementsFairCalls == Api!FairSpec

\* A thread of the servlet that waits for a permit the drained semaphore will
\* never have again does not wait for ever: its listener interrupts it.  (Not so
\* a thread that waits once more after both interrupts, or that another thread
\* started too late to be visited; nor while the handler is in a join without
\* timeout.)
Stranded(c) ==
  /\ client[c] = "acquire" /\ handler = "drained"
  /\ caller[c] \in RequestThreads /\ starter[caller[c]] = Handler
  /\ strikes[caller[c]] < 2

StrandedFreed ==
  \A c \in Calls : Stranded(c) ~> client[c] # "acquire" \/ Ends!Forever

\* A request whose servlet has returned ends, except for a join without
\* timeout, if its threads do not keep making calls for ever (and give every
\* call a package name): it ends although threads go on running, calls are
\* cancelled, refused and interrupted, and some wait for permits in vain.
\* Threads that never stop calling can starve acquire(MaxPermits), which is
\* not fair: see Api!FinitelyManyCalls.
FinitelyManyCalls == <>[][\A c \in Calls : ~Reuse(c)]_vars

RequestEnds ==
  FinitelyManyCalls => (handler = "draining" ~> phase = "ended" \/ Ends!Forever)

=============================================================================
