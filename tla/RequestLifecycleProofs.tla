----------------------- MODULE RequestLifecycleProofs -----------------------
(***************************************************************************)
(* Proofs about RequestLifecycle: the composition implements both of its   *)
(* parts, so that their theorems hold of the whole request, and the end of *)
(* the request does not interrupt a call in progress.                      *)
(***************************************************************************)
EXTENDS RequestLifecycle, TLAPS

(* What the two parts know of each other: the listeners run after the wait, *)
(* and only threads that are alive are inside a call.                       *)

PartsAgree ==
  /\ phase # "serving" => handler \in {"drained", "gaveUp"}
  /\ phase = "serving" => \A t \in RequestThreads : strikes[t] = 0
  /\ handler # "serving" => ~Api!Busy(Handler)
  /\ \A t \in RequestThreads : Api!Busy(t) => life[t] = "alive"

\* The types this argument needs of the two parts.
PartTypes ==
  /\ caller \in [Calls -> Threads \cup {NoThread}]
  /\ client \in [Calls -> Api!ClientStates]
  /\ \A c \in Calls : client[c] # "idle" => caller[c] \in Threads
  /\ life \in [RequestThreads -> Ends!Lives]
  /\ interrupted \in [Threads -> BOOLEAN]
  /\ strikes \in [RequestThreads -> 0..2]
  /\ phase \in {"grace", "again", "last"} => target \in RequestThreads

IInv == PartTypes /\ PartsAgree

LEMMA SameThreads == Api!Threads = Threads /\ Ends!Threads = Threads
BY DEF Api!Threads, Ends!Threads, Threads

LEMMA Initial == Init => IInv
<1> SUFFICES ASSUME Init PROVE IInv
  OBVIOUS
<1>1. PartTypes
  BY SameThreads DEF Init, Api!Init, Ends!Init, PartTypes, Api!ClientStates, Ends!Lives
<1>2. \A t : ~Api!Busy(t)
  BY DEF Init, Api!Init, Api!Busy
<1> QED
  BY <1>1, <1>2 DEF Init, Api!Init, Ends!Init, IInv, PartsAgree

\* A call made or continued by a thread of the request.
LEMMA CallPreserves ==
  ASSUME IInv, NEW c \in Calls, Call(c)
  PROVE  IInv'
<1> USE SameThreads, ComposedAssumption DEF Call, IInv, PartTypes, PartsAgree, endsVars, Free, Api!Busy, Ends!Runs, Api!ClientStates
<1>1. ASSUME NEW t \in Threads, NEW s \in BOOLEAN, Api!Enter(t, c, s)
      PROVE  IInv'
  BY <1>1 DEF Api!Enter
<1>2. ASSUME NEW t \in Threads, NEW s \in BOOLEAN, Api!EnterInterrupted(t, c, s)
      PROVE  IInv'
  BY <1>2 DEF Api!EnterInterrupted
<1>3. CASE Api!Acquire(c)
  BY <1>3 DEF Api!Acquire
<1>4. CASE Api!AcquireInterrupted(c)
  BY <1>4 DEF Api!AcquireInterrupted
<1>5. CASE Api!Submit(c)
  BY <1>5 DEF Api!Submit
<1>6. CASE Api!SubmitFails(c)
  BY <1>6 DEF Api!SubmitFails
<1>7. CASE Api!GetReturns(c)
  BY <1>7 DEF Api!GetReturns
<1>8. CASE Api!GetInterrupted(c)
  BY <1>8 DEF Api!GetInterrupted
<1>9. CASE Api!SubmitThrows(c)
  BY <1>9 DEF Api!SubmitThrows
<1> QED
  BY <1>1, <1>2, <1>3, <1>4, <1>5, <1>6, <1>7, <1>8, <1>9 DEF Api!ClientStep

\* A call that is over is nobody's business any more.
LEMMA ReusePreserves ==
  ASSUME IInv, NEW c \in Calls, Reuse(c)
  PROVE  IInv'
BY ComposedAssumption DEF Reuse, Api!Reuse, IInv, PartTypes, PartsAgree, endsVars, Api!Busy,
  Api!ClientStates, Threads

LEMMA PoolPreserves ==
  ASSUME IInv, NEW c \in Calls, Pool(c)
  PROVE  IInv'
BY DEF Pool, IInv, PartTypes, PartsAgree, endsVars, Api!Busy, Api!WorkerStep, Api!CancelStep,
  Api!Start, Api!Skip, Api!Answer, Api!Release, Api!Complete, Api!CancelRelease, Api!CancelTask

LEMMA ListenerPreserves ==
  ASSUME IInv, Listener
  PROVE  IInv'
<1> USE SameThreads, ComposedAssumption DEF Listener, IInv, PartTypes, PartsAgree, apiVars,
      Api!Busy, Ends!threadVars, Ends!listenerVars, Ends!timeVars
<1>1. ASSUME NEW t \in RequestThreads, Ends!VisitDead(t)
      PROVE  IInv'
  BY <1>1 DEF Ends!VisitDead
<1>2. ASSUME NEW t \in RequestThreads, Ends!VisitAlive(t)
      PROVE  IInv'
  BY <1>2 DEF Ends!VisitAlive, Threads
<1>3. CASE Ends!JoinDead \/ Ends!EndDispatch
  BY <1>3 DEF Ends!JoinDead, Ends!EndDispatch
<1>4. CASE Ends!JoinGivesUp
  BY <1>4 DEF Ends!JoinGivesUp, Threads
<1>5. CASE Ends!SecondStrike
  BY <1>5 DEF Ends!SecondStrike, Threads
<1> QED
  BY <1>1, <1>2, <1>3, <1>4, <1>5 DEF Ends!ListenerStep

LEMMA Inductive == IInv /\ [Next]_vars => IInv'
<1> SUFFICES ASSUME IInv, [Next]_vars PROVE IInv'
  OBVIOUS
<1> USE SameThreads, ComposedAssumption DEF IInv, PartTypes, PartsAgree, apiVars, endsVars, Api!Busy, Free,
      Ends!threadVars, Ends!listenerVars, Ends!timeVars
<1>1. ASSUME NEW t \in RequestThreads, NEW s \in Threads \cup {Outsider}, StartThread(s, t)
      PROVE  IInv'
  BY <1>1 DEF StartThread, Ends!StartThread, Ends!Lives
<1>2. ASSUME NEW t \in RequestThreads, AddListener(t) \/ Die(t)
      PROVE  IInv'
  BY <1>2 DEF AddListener, Die, Ends!AddListener, Ends!Die, Ends!Lives
<1>3. CASE ServletReturns
  BY <1>3 DEF ServletReturns, Api!ServletReturns, Api!callVars
<1>4. CASE Wait
  BY <1>4 DEF Wait, Api!Drain, Api!DrainInterrupted, Api!callVars
<1>5. CASE RequestEnd
  BY <1>5 DEF RequestEnd, Ends!BeginDispatch
<1>6. ASSUME NEW t \in Threads, Interrupt(t) \/ TakeInterrupt(t)
      PROVE  IInv'
  BY <1>6 DEF Interrupt, TakeInterrupt, Ends!Interrupt, Ends!TakeInterrupt
<1>7. CASE Tick
  BY <1>7 DEF Tick, Ends!Tick
<1>8. CASE UNCHANGED vars
  BY <1>8 DEF vars
<1> QED
  BY <1>1, <1>2, <1>3, <1>4, <1>5, <1>6, <1>7, <1>8,
     CallPreserves, ReusePreserves, PoolPreserves, ListenerPreserves DEF Next

THEOREM Invariance == Spec => []IInv
BY Initial, Inductive, PTL DEF Spec

-----------------------------------------------------------------------------
(* The calls of a request are those of ApiCalls.                           *)

\* An interrupt of the request's end is an interrupt like any other, or
\* changes nothing when the flag is set already.
LEMMA StrikeIsInterrupt ==
  ASSUME IInv, NEW t \in Threads, UNCHANGED apiVars,
         interrupted' = [interrupted EXCEPT ![t] = TRUE]
  PROVE  [Api!Next]_(Api!vars)
<1>1. CASE interrupted[t]
  <2>1. UNCHANGED interrupted
    BY <1>1 DEF IInv, PartTypes
  <2> QED
    BY <2>1 DEF apiVars, Api!vars, Api!callVars
<1>2. CASE ~interrupted[t]
  <2>1. Api!Interrupt(t)
    BY <1>2 DEF Api!Interrupt, apiVars, Api!callVars
  <2> QED
    BY <2>1, SameThreads DEF Api!Next
<1> QED
  BY <1>1, <1>2

LEMMA CallsSimulated ==
  ASSUME IInv, [Next]_vars
  PROVE  [Api!Next]_(Api!vars)
<1>1. ASSUME NEW c \in Calls, Call(c) \/ Pool(c) \/ Reuse(c)
      PROVE  Api!Next
  BY <1>1 DEF Call, Pool, Reuse, Api!Next
<1>2. ASSUME UNCHANGED <<apiVars, interrupted>>
      PROVE  UNCHANGED Api!vars
  BY <1>2 DEF apiVars, Api!vars, Api!callVars
<1>3. ASSUME NEW t \in RequestThreads, NEW s \in Threads \cup {Outsider},
             StartThread(s, t) \/ AddListener(t) \/ Die(t)
      PROVE  UNCHANGED <<apiVars, interrupted>>
  BY <1>3 DEF StartThread, AddListener, Die, Ends!StartThread, Ends!AddListener, Ends!Die
<1>4. CASE ServletReturns \/ Wait
  BY <1>4 DEF ServletReturns, Wait, Api!Next, Api!HandlerStep
<1>5. CASE RequestEnd \/ Tick
  BY <1>5, <1>2 DEF RequestEnd, Tick, Ends!BeginDispatch, Ends!Tick
<1>6. CASE Listener
  <2>1. ASSUME NEW t \in RequestThreads, Ends!VisitDead(t)
        PROVE  [Api!Next]_(Api!vars)
    BY <1>6, <2>1, <1>2 DEF Listener, Ends!VisitDead
  <2>2. ASSUME NEW t \in RequestThreads, Ends!VisitAlive(t)
        PROVE  [Api!Next]_(Api!vars)
    BY <1>6, <2>2, StrikeIsInterrupt DEF Listener, Ends!VisitAlive, Threads
  <2>3. CASE Ends!JoinDead \/ Ends!EndDispatch
    BY <1>6, <2>3, <1>2 DEF Listener, Ends!JoinDead, Ends!EndDispatch
  <2>4. CASE Ends!JoinGivesUp
    <3>1. CASE UNCHANGED interrupted
      BY <1>6, <3>1, <1>2 DEF Listener
    <3>2. CASE interrupted[Handler] /\ interrupted' = [interrupted EXCEPT ![Handler] = FALSE]
      <4>1. ~Api!Busy(Handler) /\ handler # "draining"
        BY <2>4 DEF Ends!JoinGivesUp, IInv, PartsAgree
      <4>2. Api!TakeInterrupt(Handler)
        BY <1>6, <3>2, <4>1 DEF Listener, apiVars, Api!TakeInterrupt, Api!callVars
      <4> QED
        BY <4>2 DEF Api!Next, Api!Threads
    <3> QED
      BY <2>4, <3>1, <3>2 DEF Ends!JoinGivesUp
  <2>5. CASE Ends!SecondStrike
    <3>1. target \in Threads
      BY <2>5 DEF Ends!SecondStrike, IInv, PartTypes, Threads
    <3> QED
      BY <1>6, <2>5, <3>1, StrikeIsInterrupt DEF Listener, Ends!SecondStrike
  <2> QED
    BY <1>6, <1>2, <2>1, <2>2, <2>3, <2>4, <2>5 DEF Listener, Ends!ListenerStep
<1>7. ASSUME NEW t \in Threads, Interrupt(t) \/ TakeInterrupt(t)
      PROVE  Api!Next
  <2>1. Api!Interrupt(t) \/ Api!TakeInterrupt(t)
    BY <1>7 DEF Interrupt, TakeInterrupt, Ends!Interrupt, Ends!TakeInterrupt, Free, apiVars,
      Api!Interrupt, Api!TakeInterrupt, Api!callVars
  <2> QED
    BY <2>1, SameThreads DEF Api!Next
<1>8. CASE UNCHANGED vars
  BY <1>8, <1>2 DEF vars
<1> QED
  BY <1>1, <1>2, <1>3, <1>4, <1>5, <1>6, <1>7, <1>8 DEF Next

\* Whatever the threads, the listeners and the application do, the calls of a
\* request behave as ApiCalls allows: makeAsyncCall and its Future need to
\* know nothing of the end of the request.
THEOREM CallsImplemented == Spec => ImplementsCalls
<1>1. Init => Api!Init
  BY DEF Init
<1> QED
  BY <1>1, Invariance, CallsSimulated, PTL DEF Spec, ImplementsCalls, Api!Spec

-----------------------------------------------------------------------------
(* The threads of a request are those of RequestThreads.                   *)

\* The calls touch the flag of a thread only while it runs and, if it is the
\* handler, before the listeners run.
LEMMA ThreadsSimulated ==
  ASSUME IInv, [Next]_vars
  PROVE  [Ends!Next]_(Ends!vars)
<1>1. ASSUME UNCHANGED <<endsVars, interrupted>>
      PROVE  UNCHANGED Ends!vars
  BY <1>1 DEF endsVars, Ends!vars, Ends!threadVars, Ends!listenerVars, Ends!timeVars
<1>2. ASSUME NEW t \in Threads, Ends!Runs(t), t = Handler => phase = "serving",
             interrupted[t], interrupted' = [interrupted EXCEPT ![t] = FALSE],
             UNCHANGED endsVars
      PROVE  Ends!Next
  <2>1. Ends!TakeInterrupt(t)
    BY <1>2 DEF Ends!TakeInterrupt, endsVars, Ends!threadVars, Ends!listenerVars, Ends!timeVars
  <2> QED
    BY <2>1, SameThreads DEF Ends!Next
<1>3. ASSUME NEW c \in Calls, Call(c)
      PROVE  [Ends!Next]_(Ends!vars)
  <2>1. ASSUME NEW t \in Threads, NEW s \in BOOLEAN, Api!EnterInterrupted(t, c, s)
        PROVE  Ends!Next
    <3>1. caller'[c] = t
      BY <2>1 DEF Api!EnterInterrupted, IInv, PartTypes
    <3>2. Ends!Runs(t) /\ (t = Handler => phase = "serving")
      BY <1>3, <2>1, <3>1 DEF Call, Free, Api!EnterInterrupted, IInv, PartsAgree
    <3> QED
      BY <1>2, <1>3, <2>1, <3>2 DEF Call, Api!EnterInterrupted
  <2>2. CASE Api!AcquireInterrupted(c) \/ Api!GetInterrupted(c)
    <3>1. Api!Busy(caller[c])
      BY <2>2 DEF Api!AcquireInterrupted, Api!GetInterrupted, Api!Busy
    <3>2. caller[c] \in Threads
      BY <2>2 DEF Api!AcquireInterrupted, Api!GetInterrupted, IInv, PartTypes
    <3>3. Ends!Runs(caller[c]) /\ (caller[c] = Handler => phase = "serving")
      BY <3>1, <3>2 DEF IInv, PartsAgree, Threads, Ends!Runs
    <3> QED
      BY <1>2, <1>3, <2>2, <3>2, <3>3 DEF Call, Api!AcquireInterrupted, Api!GetInterrupted
  <2>3. ASSUME UNCHANGED interrupted PROVE UNCHANGED Ends!vars
    BY <1>1, <1>3, <2>3 DEF Call
  <2>4. ASSUME NEW t \in Threads, NEW s \in BOOLEAN, Api!Enter(t, c, s)
        PROVE  UNCHANGED interrupted
    BY <2>4 DEF Api!Enter
  <2>5. ASSUME \/ Api!Acquire(c) \/ Api!Submit(c) \/ Api!SubmitFails(c)
               \/ Api!SubmitThrows(c) \/ Api!GetReturns(c)
        PROVE  UNCHANGED interrupted
    BY <2>5 DEF Api!Acquire, Api!Submit, Api!SubmitFails, Api!SubmitThrows, Api!GetReturns
  <2> QED
    BY <1>3, <2>1, <2>2, <2>3, <2>4, <2>5, SameThreads DEF Call, Api!ClientStep
<1>4. ASSUME NEW c \in Calls, Pool(c) \/ Reuse(c)
      PROVE  UNCHANGED Ends!vars
  BY <1>1, <1>4 DEF Pool, Reuse, Api!Reuse, Api!WorkerStep, Api!CancelStep, Api!Start, Api!Skip, Api!Answer,
    Api!Release, Api!Complete, Api!CancelRelease, Api!CancelTask
<1>5. ASSUME NEW t \in RequestThreads, NEW s \in Threads \cup {Outsider},
             StartThread(s, t) \/ AddListener(t) \/ Die(t)
      PROVE  Ends!Next
  BY <1>5, SameThreads DEF StartThread, AddListener, Die, Ends!Next, Ends!ApplicationStep
<1>6. CASE ServletReturns \/ Wait
  BY <1>6, <1>1 DEF ServletReturns, Wait, Api!ServletReturns, Api!Drain, Api!DrainInterrupted
<1>7. CASE RequestEnd \/ Listener \/ Tick
  BY <1>7 DEF RequestEnd, Listener, Tick, Ends!Next
<1>8. ASSUME NEW t \in Threads, Interrupt(t) \/ TakeInterrupt(t)
      PROVE  Ends!Next
  BY <1>8, SameThreads DEF Interrupt, TakeInterrupt, Ends!Next
<1>9. CASE UNCHANGED vars
  BY <1>9, <1>1 DEF vars
<1> QED
  BY <1>3, <1>4, <1>5, <1>6, <1>7, <1>8, <1>9 DEF Next

\* The threads of a request and its listeners behave as RequestThreads allows,
\* whatever calls the threads make and however the calls take interrupts from
\* them.
THEOREM ThreadsImplemented == Spec => Ends!Spec
<1>1. Init => Ends!Init
  BY DEF Init
<1> QED
  BY <1>1, Invariance, ThreadsSimulated, PTL DEF Spec, Ends!Spec

-----------------------------------------------------------------------------
(* What the theorems about the calls say of the whole request.             *)

CP == INSTANCE ApiCallsProofs WITH BackgroundThreads <- {}

LEMMA CallAssumptions ==
  CP!ThreadAssumption /\ CP!PermitAssumption /\ CP!CallAssumption
<1>1. CP!ThreadAssumption
  BY ComposedAssumption DEF CP!ThreadAssumption, CP!Threads, Threads
<1>2. CP!PermitAssumption
  BY LimitAssumption DEF CP!PermitAssumption
<1>3. CP!CallAssumption
  BY FiniteAssumption, Zenon DEF CP!CallAssumption, CP!IsFiniteSet, IsFiniteSet
<1> QED
  BY <1>1, <1>2, <1>3

\* The two instances of ApiCalls have the same steps.
LEMMA SameVars ==
  /\ Api!vars = CP!vars /\ Api!callVars = CP!callVars /\ Api!Threads = CP!Threads
  /\ \A t : Api!UsesPermit(t) <=> CP!UsesPermit(t)
BY DEF Api!vars, CP!vars, Api!callVars, CP!callVars, Api!Threads, CP!Threads,
  Api!UsesPermit, CP!UsesPermit

LEMMA SameClientSteps ==
  ASSUME NEW c \in Calls
  PROVE  /\ Api!Acquire(c) => CP!Acquire(c)
         /\ Api!AcquireInterrupted(c) => CP!AcquireInterrupted(c)
         /\ Api!Submit(c) => CP!Submit(c)
         /\ Api!SubmitFails(c) => CP!SubmitFails(c)
         /\ Api!SubmitThrows(c) => CP!SubmitThrows(c)
         /\ Api!Reuse(c) => CP!Reuse(c)
         /\ Api!GetReturns(c) => CP!GetReturns(c)
         /\ Api!GetInterrupted(c) => CP!GetInterrupted(c)
BY DEF Api!Acquire, CP!Acquire, Api!AcquireInterrupted, CP!AcquireInterrupted, Api!Submit,
  CP!Submit, Api!SubmitFails, CP!SubmitFails, Api!SubmitThrows, CP!SubmitThrows,
  Api!Reuse, CP!Reuse, Api!Settled, CP!Settled, Api!GetReturns, CP!GetReturns,
  Api!GetInterrupted, CP!GetInterrupted, Api!TryRelease, CP!TryRelease,
  Api!UsesPermit, CP!UsesPermit

LEMMA SamePoolSteps ==
  ASSUME NEW c \in Calls
  PROVE  /\ Api!WorkerStep(c) => CP!WorkerStep(c)
         /\ Api!CancelTask(c) => CP!CancelTask(c)
         /\ Api!CancelStep(c) => CP!CancelStep(c)
BY DEF Api!WorkerStep, CP!WorkerStep, Api!CancelStep, CP!CancelStep, Api!Start, CP!Start,
  Api!Skip, CP!Skip, Api!Answer, CP!Answer, Api!Release, CP!Release, Api!Complete,
  CP!Complete, Api!CancelRelease, CP!CancelRelease, Api!CancelTask, CP!CancelTask,
  Api!TryRelease, CP!TryRelease, Api!UsesPermit, CP!UsesPermit

LEMMA SameHandlerSteps ==
  /\ Api!ServletReturns => CP!ServletReturns
  /\ Api!Drain => CP!Drain
  /\ Api!DrainInterrupted => CP!DrainInterrupted
BY DEF Api!ServletReturns, CP!ServletReturns, Api!Drain, CP!Drain,
  Api!DrainInterrupted, CP!DrainInterrupted, Api!Busy, CP!Busy, Api!callVars, CP!callVars

\* The two instances of ApiCalls are the same specification.
LEMMA SameCalls == ImplementsCalls => CP!Spec
<1>1. Api!Init => CP!Init
  BY DEF Api!Init, CP!Init, Api!Threads, CP!Threads
<1>3. \A c \in Calls : Api!ClientStep(c) => CP!ClientStep(c)
  <2>1. \A c \in Calls, t \in Threads, s \in BOOLEAN :
          /\ Api!Enter(t, c, s) => CP!Enter(t, c, s)
          /\ Api!EnterInterrupted(t, c, s) => CP!EnterInterrupted(t, c, s)
    BY DEF Api!Enter, CP!Enter, Api!EnterInterrupted, CP!EnterInterrupted, Api!Busy, CP!Busy,
      Api!UsesPermit, CP!UsesPermit
  <2> QED
    BY SameVars, <2>1, SameClientSteps, SameThreads DEF Api!ClientStep, CP!ClientStep
<1>4. \A c \in Calls : Api!WorkerStep(c) \/ Api!CancelStep(c) => CP!WorkerStep(c) \/ CP!CancelStep(c)
  BY SamePoolSteps
<1>5. Api!HandlerStep => CP!HandlerStep
  BY SameHandlerSteps DEF Api!HandlerStep, CP!HandlerStep
<1>6. \A t \in Threads : Api!Interrupt(t) \/ Api!TakeInterrupt(t) => CP!Interrupt(t) \/ CP!TakeInterrupt(t)
  BY DEF Api!Interrupt, CP!Interrupt, Api!TakeInterrupt, CP!TakeInterrupt, Api!Busy, CP!Busy,
    Api!callVars, CP!callVars
<1>7. [Api!Next]_(Api!vars) => [CP!Next]_(CP!vars)
  <2>1. Api!Next => CP!Next
    BY SameVars, SameClientSteps, <1>3, <1>4, <1>5, <1>6, SameThreads DEF Api!Next, CP!Next
  <2> QED
    BY <2>1 DEF Api!vars, CP!vars, Api!callVars, CP!callVars
<1> QED
  BY <1>1, <1>7, PTL DEF ImplementsCalls, Api!Spec, CP!Spec

\* When the handler has drained the semaphore, a synchronous call is over.
LEMMA NoSyncCallDrained ==
  ASSUME CP!IInv, handler = "drained", NEW c \in Calls, sync[c], Api!Executing(c)
  PROVE  FALSE
<1>1. CP!Executing(c) /\ CP!UsesPermit(caller[c])
  BY DEF Api!Executing, CP!Executing, CP!UsesPermit
<1>2. ~CP!Cancelled(c)
  BY DEF CP!IInv, CP!CallInv, CP!CancelledByApplication
<1> QED
  BY <1>1, <1>2, CallAssumptions, CP!ExecutingHolds, CP!DrainedMeansNoHolder

\* The interrupts of the end of a request do not hit a synchronous call in
\* progress, for any number of calls, threads and permits.
THEOREM CallsMissed == Spec => []StrikesMissCalls
<1>1. IInv /\ CP!IInv => StrikesMissCalls
  BY NoSyncCallDrained DEF IInv, PartTypes, PartsAgree, StrikesMissCalls
<1>2. CP!Spec => []CP!IInv
  BY CallAssumptions, CP!Invariance
<1> QED
  BY <1>1, <1>2, Invariance, CallsImplemented, SameCalls, PTL

-----------------------------------------------------------------------------
(* Liveness of the calls within the request.                               *)

\* A step of a call that changes the calls' state is one in ApiCalls: the
\* composition adds only that the threads' state stays as it is.
LEMMA FairStepsOfCalls ==
  ASSUME NEW c \in Calls
  PROVE  /\ <<Api!Acquire(c) /\ UNCHANGED endsVars>>_vars => <<Api!Acquire(c)>>_(Api!vars)
         /\ <<(Api!Submit(c) \/ Api!SubmitFails(c) \/ Api!SubmitThrows(c)) /\ UNCHANGED endsVars>>_vars
              => <<Api!Submit(c) \/ Api!SubmitFails(c) \/ Api!SubmitThrows(c)>>_(Api!vars)
         /\ <<Api!GetReturns(c) /\ UNCHANGED endsVars>>_vars => <<Api!GetReturns(c)>>_(Api!vars)
         /\ <<Api!WorkerStep(c) /\ UNCHANGED endsVars>>_vars => <<Api!WorkerStep(c)>>_(Api!vars)
         /\ <<Api!CancelTask(c) /\ UNCHANGED endsVars>>_vars => <<Api!CancelTask(c)>>_(Api!vars)
         /\ <<Wait>>_vars => <<Api!Drain \/ Api!DrainInterrupted>>_(Api!vars)
<1>1. UNCHANGED Api!vars <=> UNCHANGED <<apiVars, interrupted>>
  BY DEF Api!vars, Api!callVars, apiVars
<1>2. UNCHANGED endsVars /\ vars' # vars => Api!vars' # Api!vars
  BY <1>1 DEF vars
<1> QED
  BY <1>2 DEF Wait

\* The request is as fair to its calls as ApiCalls assumes, so that what is
\* proved there of fair threads holds for the request.
THEOREM CallsFairlyImplemented == FairSpec => ImplementsFairCalls
<1>1. ASSUME NEW c \in Calls PROVE CallFairness(c) => Api!CallFairness(c)
  BY FairStepsOfCalls, PTL DEF CallFairness, Api!CallFairness
<1>2. HandlerFairness => Api!HandlerFairness
  <2>1. <<Wait>>_vars => <<Api!Drain \/ Api!DrainInterrupted>>_(Api!vars)
    BY DEF Wait, vars, Api!vars, Api!callVars, apiVars
  <2> QED
    BY <2>1, PTL DEF HandlerFairness, Api!HandlerFairness
<1>3. Fairness => Api!Fairness
  BY <1>1, <1>2 DEF Fairness, Api!Fairness
<1> QED
  BY <1>3, CallsImplemented DEF FairSpec, ImplementsFairCalls, ImplementsCalls, Api!FairSpec

LEMMA SameFairness ==
  ASSUME NEW c \in Calls
  PROVE  Api!CallFairness(c) => CP!CallFairness(c)
<1>1. /\ CP!MayAcquire(c) <=> Api!MayAcquire(c)
      /\ CP!MaySubmit(c) <=> Api!MaySubmit(c)
      /\ CP!MayGet(c) <=> Api!MayGet(c)
      /\ CP!MayWork(c) <=> Api!MayWork(c)
  BY DEF CP!MayAcquire, Api!MayAcquire, CP!MaySubmit, Api!MaySubmit, CP!MayGet,
    Api!MayGet, CP!MayWork, Api!MayWork
<1>2. /\ <<Api!Acquire(c)>>_(Api!vars) => <<CP!Acquire(c)>>_(CP!vars)
      /\ <<Api!Submit(c) \/ Api!SubmitFails(c) \/ Api!SubmitThrows(c)>>_(Api!vars)
           => <<CP!Submit(c) \/ CP!SubmitFails(c) \/ CP!SubmitThrows(c)>>_(CP!vars)
      /\ <<Api!GetReturns(c)>>_(Api!vars) => <<CP!GetReturns(c)>>_(CP!vars)
      /\ <<Api!WorkerStep(c)>>_(Api!vars) => <<CP!WorkerStep(c)>>_(CP!vars)
      /\ <<Api!CancelTask(c)>>_(Api!vars) => <<CP!CancelTask(c)>>_(CP!vars)
  BY SameClientSteps, SamePoolSteps DEF Api!vars, CP!vars, Api!callVars, CP!callVars
<1> QED
  BY <1>1, <1>2, PTL DEF Api!CallFairness, CP!CallFairness

\* A call of the request that has its permit ends in the thread that made it,
\* and gives the permit back unless its package name is null, whatever the end
\* of the request does meanwhile to the threads, and however many calls they
\* make.
THEOREM CallsOfRequestSettle ==
  FairSpec =>
    /\ \A c \in Calls : client[c] \in {"submit", "await"} ~> Api!Settled(c)
    /\ \A c \in Calls \ Unnamed : []<>~Api!Holds(c)
<1>1. FairSpec => CP!Spec
  BY CallsImplemented, SameCalls DEF FairSpec
<1>2. ASSUME NEW c \in Calls PROVE FairSpec => CP!CallFairness(c)
  BY CallsFairlyImplemented, SameFairness DEF ImplementsFairCalls, Api!FairSpec, Api!Fairness
<1>3. ASSUME NEW c \in Calls
      PROVE  FairSpec => (client[c] \in {"submit", "await"} ~> Api!Settled(c))
  <2>1. CP!Spec /\ CP!CallFairness(c) =>
          (client[c] \in {"submit", "await"} ~> CP!Settled(c))
    BY CallAssumptions, CP!CallSettles
  <2>2. CP!Settled(c) <=> Api!Settled(c)
    BY DEF CP!Settled, Api!Settled
  <2> QED
    BY <1>1, <1>2, <2>1, <2>2, PTL
<1>4. ASSUME NEW c \in Calls \ Unnamed
      PROVE  FairSpec => []<>~Api!Holds(c)
  <2>1. CP!Spec /\ CP!CallFairness(c) => []<>~CP!Holds(c)
    BY CallAssumptions, CP!PermitComesBack
  <2>2. CP!Holds(c) <=> Api!Holds(c)
    BY DEF CP!Holds, Api!Holds, CP!UsesPermit, Api!UsesPermit
  <2>3. FairSpec => CP!CallFairness(c)
    BY <1>2
  <2> QED
    BY <1>1, <2>1, <2>2, <2>3, PTL
<1> QED
  BY <1>3, <1>4

=============================================================================
