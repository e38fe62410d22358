--------------------------- MODULE ApiCallsProofs ---------------------------
(***************************************************************************)
(* Proofs about ApiCalls, for any number of calls, threads and permits:    *)
(* permits are conserved, the handler that has drained the semaphore       *)
(* leaves only cancelled calls behind, the semaphore implements the gate   *)
(* of ApiBarrier, every permit comes back, and every call that was let in  *)
(* settles.                                                                *)
(***************************************************************************)
EXTENDS ApiCalls, FiniteSetTheorems, TLAPS

(* PermitsConserved counts Holders, so its proof needs to know, whenever a  *)
(* permit is given back, that the call still holds one: the two program     *)
(* counters of a call, its FutureTask and its released flag agree.          *)

\* Before the pool has the task there is neither a worker nor a Future.
BeforeSubmit(c) ==
  /\ client[c] \in {"idle", "acquire", "submit"} => worker[c] = "none" /\ ~released[c]
  /\ client[c] \in {"rejected", "threw"} => worker[c] = "none"
  /\ client[c] = "threw" => c \in Unnamed
  /\ client[c] \in {"await", "returned"} => worker[c] # "none"
  /\ worker[c] = "none" <=> future[c] = "none"
  /\ client[c] = "acquire" => UsesPermit(caller[c])

\* While and after the task runs, the flag says what happened to the permit.
AfterSubmit(c) ==
  /\ worker[c] \in {"queued", "running", "release"} /\ released[c] => Cancelled(c)
  /\ worker[c] \in {"complete", "finished"} /\ UsesPermit(caller[c]) => released[c]
  /\ Cancelled(c) /\ UsesPermit(caller[c]) => released[c]
  /\ future[c] = "done" => worker[c] = "finished"
  /\ worker[c] = "finished" => future[c] \in {"done", "cancelled"}

\* Only a Future the application was given is cancelled.
CancelledByApplication(c) ==
  /\ Cancelled(c) => ~sync[c]
  /\ cancelling[c] => client[c] = "returned"
  /\ client[c] = "await" => sync[c]
  /\ sync[c] /\ client[c] = "returned" => worker[c] = "finished"

CallInv == \A c \in Calls :
  BeforeSubmit(c) /\ AfterSubmit(c) /\ CancelledByApplication(c)

IInv == TypeOK /\ CallInv /\ PermitsConserved

-----------------------------------------------------------------------------
(* Lemmas about the permits.                                               *)

LEMMA HoldersFinite ==
  IsFiniteSet(Holders) /\ Cardinality(Holders) \in Nat
<1>1. Holders \in SUBSET Calls
  BY DEF Holders
<1>2. IsFiniteSet(Holders)
  BY <1>1, CallAssumption, FS_Subset
<1> QED
  BY <1>2, FS_CardinalityType

\* A step that changes neither the permits nor who holds one.
LEMMA PermitsKept ==
  ASSUME PermitsConserved, Holders' = Holders, permits' = permits,
         (handler' = "drained") <=> (handler = "drained")
  PROVE  PermitsConserved'
BY DEF PermitsConserved

\* A step in which the holder c gives its permit back.
LEMMA PermitBack ==
  ASSUME TypeOK, PermitsConserved, NEW c \in Calls, Holds(c),
         permits' = permits + 1, Holders' = Holders \ {c}, UNCHANGED handler
  PROVE  PermitsConserved' /\ permits' \in 0..MaxPermits
<1>1. c \in Holders
  BY DEF Holders
<1>2. Cardinality(Holders') = Cardinality(Holders) - 1
  BY <1>1, HoldersFinite, FS_RemoveElement
<1>3. Cardinality(Holders) - 1 \in Nat
  <2>1. Holders # {}
    BY <1>1
  <2> QED
    BY <2>1, HoldersFinite, FS_EmptySet
<1> QED
  BY <1>2, <1>3, HoldersFinite, PermitAssumption DEF PermitsConserved, TypeOK

\* A step in which c takes a permit.
LEMMA PermitTaken ==
  ASSUME TypeOK, PermitsConserved, NEW c \in Calls, ~Holds(c), permits > 0,
         permits' = permits - 1, Holders' = Holders \cup {c}, UNCHANGED handler
  PROVE  PermitsConserved' /\ permits' \in 0..MaxPermits
<1>1. c \notin Holders
  BY DEF Holders
<1>2. Cardinality(Holders') = Cardinality(Holders) + 1
  BY <1>1, HoldersFinite, FS_AddElement
<1> QED
  BY <1>2, HoldersFinite, PermitAssumption DEF PermitsConserved, TypeOK

\* tryReleaseSemaphore, called for a call that has its permit or has given it
\* back already: the same step covers the end of the task, cancel and the
\* rejected task.
LEMMA TryReleaseConserves ==
  ASSUME TypeOK, PermitsConserved, NEW c \in Calls, TryRelease(c),
         client[c] = "submit" \/ worker[c] # "none",
         Holders' = Holders \ {c}, UNCHANGED handler
  PROVE  PermitsConserved' /\ permits' \in 0..MaxPermits
<1>1. CASE UsesPermit(caller[c]) /\ ~released[c]
  <2>1. Holds(c) /\ permits' = permits + 1
    BY <1>1 DEF Holds, TryRelease
  <2> QED
    BY <2>1, PermitBack
<1>2. CASE ~(UsesPermit(caller[c]) /\ ~released[c])
  <2>1. permits' = permits /\ c \notin Holders
    BY <1>2 DEF Holders, Holds, TryRelease
  <2>2. Holders' = Holders
    BY <2>1
  <2> QED
    BY <2>1, <2>2, PermitsKept DEF TypeOK
<1> QED
  BY <1>1, <1>2

-----------------------------------------------------------------------------
(* The invariant is inductive: one lemma for each actor.                   *)

\* The calling thread, in makeAsyncCall and makeSyncCall.
LEMMA ClientPreserves ==
  ASSUME IInv, NEW c \in Calls, ClientStep(c)
  PROVE  IInv'
<1> USE DEF IInv
<1>1. ASSUME NEW t \in Threads, NEW s \in BOOLEAN, Enter(t, c, s)
      PROVE  IInv'
  <2>1. TypeOK'
    BY <1>1 DEF TypeOK, Enter, ClientStates, WorkerStates, FutureStates, HandlerStates
  <2>2. CallInv'
    BY <1>1 DEF TypeOK, FutureStates, CallInv, BeforeSubmit, AfterSubmit, CancelledByApplication, Cancelled, UsesPermit, Enter
  <2>3. Holders' = Holders
    BY <1>1 DEF TypeOK, CallInv, BeforeSubmit, Holders, Holds, UsesPermit, Enter
  <2>4. PermitsConserved'
    BY <1>1, <2>3, PermitsKept DEF Enter
  <2> QED
    BY <2>1, <2>2, <2>4 DEF IInv
<1>2. ASSUME NEW t \in Threads, NEW s \in BOOLEAN, EnterInterrupted(t, c, s)
      PROVE  IInv'
  <2>1. TypeOK'
    BY <1>2 DEF TypeOK, EnterInterrupted, ClientStates, WorkerStates, FutureStates, HandlerStates
  <2>2. CallInv'
    BY <1>2 DEF TypeOK, FutureStates, CallInv, BeforeSubmit, AfterSubmit, CancelledByApplication, Cancelled, UsesPermit, EnterInterrupted
  <2>3. Holders' = Holders
    BY <1>2 DEF TypeOK, CallInv, BeforeSubmit, Holders, Holds, UsesPermit, EnterInterrupted
  <2>4. PermitsConserved'
    BY <1>2, <2>3, PermitsKept DEF EnterInterrupted
  <2> QED
    BY <2>1, <2>2, <2>4 DEF IInv
<1>3. CASE Acquire(c)
  <2>1. Holders' = Holders \cup {c} /\ ~Holds(c)
    BY <1>3 DEF TypeOK, CallInv, BeforeSubmit, Holders, Holds, UsesPermit, Acquire
  <2>2. PermitsConserved' /\ permits' \in 0..MaxPermits
    BY <1>3, <2>1, PermitTaken DEF Acquire
  <2>3. TypeOK'
    BY <1>3, <2>2 DEF TypeOK, Acquire, ClientStates
  <2>4. CallInv'
    BY <1>3 DEF TypeOK, CallInv, BeforeSubmit, AfterSubmit, CancelledByApplication, Cancelled, UsesPermit, Acquire
  <2> QED
    BY <2>2, <2>3, <2>4 DEF IInv
<1>4. CASE AcquireInterrupted(c)
  <2>1. TypeOK'
    BY <1>4 DEF TypeOK, AcquireInterrupted, ClientStates, WorkerStates, FutureStates, HandlerStates
  <2>2. CallInv'
    BY <1>4 DEF TypeOK, FutureStates, CallInv, BeforeSubmit, AfterSubmit, CancelledByApplication, Cancelled, UsesPermit, AcquireInterrupted
  <2>3. Holders' = Holders
    BY <1>4 DEF TypeOK, CallInv, BeforeSubmit, Holders, Holds, UsesPermit, AcquireInterrupted
  <2>4. PermitsConserved'
    BY <1>4, <2>3, PermitsKept DEF AcquireInterrupted
  <2> QED
    BY <2>1, <2>2, <2>4 DEF IInv
<1>5. CASE Submit(c)
  <2>1. TypeOK'
    BY <1>5 DEF TypeOK, Submit, ClientStates, WorkerStates, FutureStates, HandlerStates
  <2>2. CallInv'
    BY <1>5 DEF TypeOK, FutureStates, CallInv, BeforeSubmit, AfterSubmit, CancelledByApplication, Cancelled, UsesPermit, Submit
  <2>3. Holders' = Holders
    BY <1>5 DEF TypeOK, CallInv, BeforeSubmit, Holders, Holds, UsesPermit, Submit
  <2>4. PermitsConserved'
    BY <1>5, <2>3, PermitsKept DEF Submit
  <2> QED
    BY <2>1, <2>2, <2>4 DEF IInv
<1>6. CASE SubmitFails(c)
  <2>1. Holders' = Holders \ {c}
    BY <1>6 DEF TypeOK, CallInv, BeforeSubmit, AfterSubmit, CancelledByApplication, Cancelled, Holders, Holds, UsesPermit, TryRelease, SubmitFails
  <2>2. client[c] = "submit" \/ worker[c] # "none"
    BY <1>6 DEF CallInv, BeforeSubmit, SubmitFails
  <2>3. PermitsConserved' /\ permits' \in 0..MaxPermits
    BY <1>6, <2>1, <2>2, TryReleaseConserves DEF SubmitFails
  <2>4. TypeOK'
    BY <1>6, <2>3 DEF TypeOK, TryRelease, SubmitFails, ClientStates, WorkerStates, FutureStates
  <2>5. CallInv'
    BY <1>6 DEF TypeOK, FutureStates, CallInv, BeforeSubmit, AfterSubmit, CancelledByApplication, Cancelled, UsesPermit, TryRelease, SubmitFails
  <2> QED
    BY <2>3, <2>4, <2>5 DEF IInv
<1>7. CASE GetReturns(c)
  <2>1. TypeOK'
    BY <1>7 DEF TypeOK, GetReturns, ClientStates, WorkerStates, FutureStates, HandlerStates
  <2>2. CallInv'
    BY <1>7 DEF TypeOK, FutureStates, CallInv, BeforeSubmit, AfterSubmit, CancelledByApplication, Cancelled, UsesPermit, GetReturns
  <2>3. Holders' = Holders
    BY <1>7 DEF TypeOK, CallInv, BeforeSubmit, Holders, Holds, UsesPermit, GetReturns
  <2>4. PermitsConserved'
    BY <1>7, <2>3, PermitsKept DEF GetReturns
  <2> QED
    BY <2>1, <2>2, <2>4 DEF IInv
<1>8. CASE GetInterrupted(c)
  <2>1. TypeOK'
    BY <1>8 DEF TypeOK, GetInterrupted, ClientStates, WorkerStates, FutureStates, HandlerStates
  <2>2. CallInv'
    BY <1>8 DEF TypeOK, FutureStates, CallInv, BeforeSubmit, AfterSubmit, CancelledByApplication, Cancelled, UsesPermit, GetInterrupted
  <2>3. Holders' = Holders
    BY <1>8 DEF TypeOK, CallInv, BeforeSubmit, Holders, Holds, UsesPermit, GetInterrupted
  <2>4. PermitsConserved'
    BY <1>8, <2>3, PermitsKept DEF GetInterrupted
  <2> QED
    BY <2>1, <2>2, <2>4 DEF IInv
<1>9. CASE SubmitThrows(c)
  <2>1. TypeOK'
    BY <1>9 DEF TypeOK, SubmitThrows, ClientStates, WorkerStates, FutureStates, HandlerStates
  <2>2. CallInv'
    BY <1>9 DEF TypeOK, FutureStates, CallInv, BeforeSubmit, AfterSubmit, CancelledByApplication, Cancelled, UsesPermit, SubmitThrows
  <2>3. Holders' = Holders
    BY <1>9 DEF TypeOK, CallInv, BeforeSubmit, Holders, Holds, UsesPermit, SubmitThrows
  <2>4. PermitsConserved'
    BY <1>9, <2>3, PermitsKept DEF SubmitThrows
  <2> QED
    BY <2>1, <2>2, <2>4 DEF IInv
<1> QED
  BY <1>1, <1>2, <1>3, <1>4, <1>5, <1>6, <1>7, <1>8, <1>9 DEF ClientStep

\* A call that is over holds no permit, so that its place can be used again.
LEMMA ReusePreserves ==
  ASSUME IInv, NEW c \in Calls, Reuse(c)
  PROVE  IInv' /\ Holders' = Holders
<1> USE DEF IInv
<1>1. TypeOK'
  BY DEF TypeOK, Reuse, Settled, ClientStates, WorkerStates, FutureStates
<1>2. CallInv'
  BY DEF TypeOK, FutureStates, CallInv, BeforeSubmit, AfterSubmit, CancelledByApplication, Cancelled, UsesPermit, Reuse, Settled
<1>3. Holders' = Holders
  BY DEF TypeOK, CallInv, BeforeSubmit, AfterSubmit, Holders, Holds, UsesPermit, Reuse, Settled
<1>4. PermitsConserved'
  BY <1>3, PermitsKept DEF Reuse
<1> QED
  BY <1>1, <1>2, <1>3, <1>4 DEF IInv

\* The pool thread.
LEMMA WorkerPreserves ==
  ASSUME IInv, NEW c \in Calls, WorkerStep(c)
  PROVE  IInv'
<1> USE DEF IInv
<1>1. CASE Start(c)
  <2>1. TypeOK'
    BY <1>1 DEF TypeOK, Start, ClientStates, WorkerStates, FutureStates, HandlerStates
  <2>2. CallInv'
    BY <1>1 DEF TypeOK, FutureStates, CallInv, BeforeSubmit, AfterSubmit, CancelledByApplication, Cancelled, UsesPermit, Start
  <2>3. Holders' = Holders
    BY <1>1 DEF TypeOK, CallInv, BeforeSubmit, Holders, Holds, UsesPermit, Start
  <2>4. PermitsConserved'
    BY <1>1, <2>3, PermitsKept DEF Start
  <2> QED
    BY <2>1, <2>2, <2>4 DEF IInv
<1>2. CASE Skip(c)
  <2>1. TypeOK'
    BY <1>2 DEF TypeOK, Skip, ClientStates, WorkerStates, FutureStates, HandlerStates
  <2>2. CallInv'
    BY <1>2 DEF TypeOK, FutureStates, CallInv, BeforeSubmit, AfterSubmit, CancelledByApplication, Cancelled, UsesPermit, Skip
  <2>3. Holders' = Holders
    BY <1>2 DEF TypeOK, CallInv, BeforeSubmit, Holders, Holds, UsesPermit, Skip
  <2>4. PermitsConserved'
    BY <1>2, <2>3, PermitsKept DEF Skip
  <2> QED
    BY <2>1, <2>2, <2>4 DEF IInv
<1>3. CASE Answer(c)
  <2>1. TypeOK'
    BY <1>3 DEF TypeOK, Answer, ClientStates, WorkerStates, FutureStates, HandlerStates
  <2>2. CallInv'
    BY <1>3 DEF TypeOK, FutureStates, CallInv, BeforeSubmit, AfterSubmit, CancelledByApplication, Cancelled, UsesPermit, Answer
  <2>3. Holders' = Holders
    BY <1>3 DEF TypeOK, CallInv, BeforeSubmit, Holders, Holds, UsesPermit, Answer
  <2>4. PermitsConserved'
    BY <1>3, <2>3, PermitsKept DEF Answer
  <2> QED
    BY <2>1, <2>2, <2>4 DEF IInv
<1>4. CASE Complete(c)
  <2>1. TypeOK'
    BY <1>4 DEF TypeOK, Complete, ClientStates, WorkerStates, FutureStates, HandlerStates
  <2>2. CallInv'
    BY <1>4 DEF TypeOK, FutureStates, CallInv, BeforeSubmit, AfterSubmit, CancelledByApplication, Cancelled, UsesPermit, Complete
  <2>3. Holders' = Holders
    BY <1>4 DEF TypeOK, CallInv, BeforeSubmit, Holders, Holds, UsesPermit, Complete
  <2>4. PermitsConserved'
    BY <1>4, <2>3, PermitsKept DEF Complete
  <2> QED
    BY <2>1, <2>2, <2>4 DEF IInv
<1>5. CASE Release(c)
  <2>1. Holders' = Holders \ {c}
    BY <1>5 DEF TypeOK, CallInv, BeforeSubmit, AfterSubmit, CancelledByApplication, Cancelled, Holders, Holds, UsesPermit, TryRelease, Release
  <2>2. client[c] = "submit" \/ worker[c] # "none"
    BY <1>5 DEF CallInv, BeforeSubmit, Release
  <2>3. PermitsConserved' /\ permits' \in 0..MaxPermits
    BY <1>5, <2>1, <2>2, TryReleaseConserves DEF Release
  <2>4. TypeOK'
    BY <1>5, <2>3 DEF TypeOK, TryRelease, Release, ClientStates, WorkerStates, FutureStates
  <2>5. CallInv'
    BY <1>5 DEF TypeOK, FutureStates, CallInv, BeforeSubmit, AfterSubmit, CancelledByApplication, Cancelled, UsesPermit, TryRelease, Release
  <2> QED
    BY <2>3, <2>4, <2>5 DEF IInv
<1> QED
  BY <1>1, <1>2, <1>3, <1>4, <1>5 DEF WorkerStep

\* cancel().
LEMMA CancelPreserves ==
  ASSUME IInv, NEW c \in Calls, CancelStep(c)
  PROVE  IInv'
<1> USE DEF IInv
<1>1. CASE CancelRelease(c)
  <2>1. Holders' = Holders \ {c}
    BY <1>1 DEF TypeOK, CallInv, BeforeSubmit, AfterSubmit, CancelledByApplication, Cancelled, Holders, Holds, UsesPermit, TryRelease, CancelRelease
  <2>2. client[c] = "submit" \/ worker[c] # "none"
    BY <1>1 DEF CallInv, BeforeSubmit, CancelRelease
  <2>3. PermitsConserved' /\ permits' \in 0..MaxPermits
    BY <1>1, <2>1, <2>2, TryReleaseConserves DEF CancelRelease
  <2>4. TypeOK'
    BY <1>1, <2>3 DEF TypeOK, TryRelease, CancelRelease, ClientStates, WorkerStates, FutureStates
  <2>5. CallInv'
    BY <1>1 DEF TypeOK, FutureStates, CallInv, BeforeSubmit, AfterSubmit, CancelledByApplication, Cancelled, UsesPermit, TryRelease, CancelRelease
  <2> QED
    BY <2>3, <2>4, <2>5 DEF IInv
<1>2. CASE CancelTask(c)
  <2>1. TypeOK'
    BY <1>2 DEF TypeOK, CancelTask, ClientStates, WorkerStates, FutureStates, HandlerStates
  <2>2. CallInv'
    BY <1>2 DEF TypeOK, FutureStates, CallInv, BeforeSubmit, AfterSubmit, CancelledByApplication, Cancelled, UsesPermit, CancelTask
  <2>3. Holders' = Holders
    BY <1>2 DEF TypeOK, CallInv, BeforeSubmit, Holders, Holds, UsesPermit, CancelTask
  <2>4. PermitsConserved'
    BY <1>2, <2>3, PermitsKept DEF CancelTask
  <2> QED
    BY <2>1, <2>2, <2>4 DEF IInv
<1> QED
  BY <1>1, <1>2 DEF CancelStep

\* The handler, and interrupts.
LEMMA HandlerPreserves ==
  ASSUME IInv, HandlerStep \/ \E t \in Threads : Interrupt(t) \/ TakeInterrupt(t)
  PROVE  IInv'
<1> USE DEF IInv
<1>1. CASE ServletReturns
  <2>1. TypeOK'
    BY <1>1 DEF TypeOK, ServletReturns, ClientStates, WorkerStates, FutureStates, HandlerStates, callVars
  <2>2. CallInv'
    BY <1>1 DEF TypeOK, FutureStates, CallInv, BeforeSubmit, AfterSubmit, CancelledByApplication, Cancelled, UsesPermit, ServletReturns, callVars
  <2>3. Holders' = Holders
    BY <1>1 DEF TypeOK, CallInv, BeforeSubmit, Holders, Holds, UsesPermit, ServletReturns, callVars
  <2>4. PermitsConserved'
    BY <1>1, <2>3, PermitsKept DEF ServletReturns, callVars
  <2> QED
    BY <2>1, <2>2, <2>4 DEF IInv
<1>2. CASE Drain
  <2>1. Holders' = Holders /\ CallInv'
    BY <1>2 DEF Drain, callVars, Holders, Holds, UsesPermit, CallInv, BeforeSubmit, AfterSubmit, CancelledByApplication, Cancelled
  <2>2. permits = MaxPermits
    BY <1>2, PermitAssumption DEF Drain, TypeOK
  <2>3. PermitsConserved'
    BY <1>2, <2>1, <2>2, HoldersFinite, PermitAssumption DEF Drain, PermitsConserved
  <2>4. TypeOK'
    BY <1>2, <2>2, PermitAssumption DEF TypeOK, Drain, callVars, HandlerStates
  <2> QED
    BY <2>1, <2>3, <2>4
<1>3. CASE DrainInterrupted
  <2>1. TypeOK'
    BY <1>3 DEF TypeOK, DrainInterrupted, ClientStates, WorkerStates, FutureStates, HandlerStates, callVars
  <2>2. CallInv'
    BY <1>3 DEF TypeOK, FutureStates, CallInv, BeforeSubmit, AfterSubmit, CancelledByApplication, Cancelled, UsesPermit, DrainInterrupted, callVars
  <2>3. Holders' = Holders
    BY <1>3 DEF TypeOK, CallInv, BeforeSubmit, Holders, Holds, UsesPermit, DrainInterrupted, callVars
  <2>4. PermitsConserved'
    BY <1>3, <2>3, PermitsKept DEF DrainInterrupted, callVars
  <2> QED
    BY <2>1, <2>2, <2>4 DEF IInv
<1>4. ASSUME NEW t \in Threads, Interrupt(t) \/ TakeInterrupt(t)
      PROVE  IInv'
  <2>1. TypeOK'
    BY <1>4 DEF TypeOK, Interrupt, TakeInterrupt, ClientStates, WorkerStates, FutureStates, HandlerStates, callVars
  <2>2. CallInv'
    BY <1>4 DEF TypeOK, FutureStates, CallInv, BeforeSubmit, AfterSubmit, CancelledByApplication, Cancelled, UsesPermit, Interrupt, TakeInterrupt, callVars
  <2>3. Holders' = Holders
    BY <1>4 DEF TypeOK, CallInv, BeforeSubmit, Holders, Holds, UsesPermit, Interrupt, TakeInterrupt, callVars
  <2>4. PermitsConserved'
    BY <1>4, <2>3, PermitsKept DEF Interrupt, TakeInterrupt, callVars
  <2> QED
    BY <2>1, <2>2, <2>4 DEF IInv
<1> QED
  BY <1>1, <1>2, <1>3, <1>4 DEF HandlerStep

LEMMA Initial == Init => IInv
<1> SUFFICES ASSUME Init PROVE IInv
  OBVIOUS
<1>1. TypeOK
  BY PermitAssumption DEF Init, TypeOK, ClientStates, WorkerStates, FutureStates, HandlerStates
<1>2. CallInv
  BY DEF Init, CallInv, BeforeSubmit, AfterSubmit, CancelledByApplication, Cancelled
<1>3. Holders = {}
  BY DEF Init, Holders, Holds
<1>4. PermitsConserved
  BY <1>3, FS_EmptySet, PermitAssumption DEF Init, PermitsConserved
<1> QED
  BY <1>1, <1>2, <1>4 DEF IInv

LEMMA Inductive == IInv /\ [Next]_vars => IInv'
<1> SUFFICES ASSUME IInv, [Next]_vars PROVE IInv'
  OBVIOUS
<1>1. CASE Next
  BY <1>1, ClientPreserves, ReusePreserves, WorkerPreserves, CancelPreserves, HandlerPreserves DEF Next
<1>2. CASE UNCHANGED vars
  BY <1>2 DEF vars, callVars, IInv, TypeOK, PermitsConserved, CallInv, BeforeSubmit, AfterSubmit, CancelledByApplication, Cancelled, Holders, Holds, UsesPermit
<1> QED
  BY <1>1, <1>2

\* The inductive invariant holds in every reachable state.
THEOREM Invariance == Spec => []IInv
BY Initial, Inductive, PTL DEF Spec

\* Every variable keeps its type; in particular the permits never exceed
\* MaxPermits, so that the handler cannot end a request with permits that
\* tryReleaseSemaphore gave back twice.
THEOREM TypeCorrect == Spec => []TypeOK
BY Invariance, PTL DEF IInv

\* No permit is lost or given back twice.
THEOREM PermitsNeverLost == Spec => []PermitsConserved
BY Invariance, PTL DEF IInv

-----------------------------------------------------------------------------
(* What the permits are for.                                               *)

\* A handler that took all the permits left none to anybody.
LEMMA DrainedMeansNoHolder ==
  ASSUME IInv, handler = "drained"
  PROVE  permits = 0 /\ Holders = {}
<1>1. permits + Cardinality(Holders) = 0
  BY HoldersFinite, PermitAssumption DEF IInv, TypeOK, PermitsConserved
<1>2. permits = 0 /\ Cardinality(Holders) = 0
  BY <1>1, HoldersFinite DEF IInv, TypeOK
<1> QED
  BY <1>2, HoldersFinite, FS_EmptySet

\* A call of the request that executes and was not cancelled has its permit.
LEMMA ExecutingHolds ==
  ASSUME IInv, NEW c \in Calls, Executing(c), UsesPermit(caller[c]), ~Cancelled(c)
  PROVE  c \in Holders
BY DEF IInv, CallInv, AfterSubmit, Executing, Holders, Holds

\* MAX_SIMULTANEOUS_API_CALLS is a bound for the calls nobody cancelled, and the
\* request ends with none of them executing.
THEOREM Bounded == Spec => []ConcurrencyBound
<1> DEFINE Live == {c \in Calls : /\ Executing(c) /\ UsesPermit(caller[c])
                                  /\ ~Cancelled(c)}
<1>1. ASSUME IInv PROVE Cardinality(Live) <= IF handler = "drained" THEN 0 ELSE MaxPermits
  <2>1. Live \in SUBSET Holders
    BY <1>1, ExecutingHolds
  <2>2. Cardinality(Live) <= Cardinality(Holders) /\ Cardinality(Live) \in Nat
    BY <2>1, HoldersFinite, FS_Subset, FS_CardinalityType
  <2>3. Cardinality(Holders) <= MaxPermits
    BY <1>1, HoldersFinite, PermitAssumption DEF IInv, TypeOK, PermitsConserved
  <2>4. handler = "drained" => Cardinality(Holders) = 0
    BY <1>1, DrainedMeansNoHolder, FS_EmptySet
  <2> QED
    BY <2>2, <2>3, <2>4, HoldersFinite, PermitAssumption
<1>2. IInv => ConcurrencyBound
  BY <1>1 DEF ConcurrencyBound
<1> QED
  BY <1>2, Invariance, PTL

\* A synchronous call returns after its task and its permit.
THEOREM SyncReturn == Spec => []SyncReturnsReleased
<1>1. IInv => SyncReturnsReleased
  BY DEF IInv, CallInv, BeforeSubmit, AfterSubmit, CancelledByApplication,
         SyncReturnsReleased, Holds
<1> QED
  BY <1>1, Invariance, PTL

\* Only Submit hands a call to the pool.
LEMMA OnlySubmitQueues ==
  ASSUME IInv, [Next]_vars, NEW c \in Calls, worker[c] = "none", worker'[c] # "none"
  PROVE  Submit(c)
<1>1. ASSUME NEW d \in Calls, ClientStep(d) PROVE Submit(c)
  BY <1>1 DEF IInv, TypeOK, ClientStep, Enter, EnterInterrupted, Acquire,
    AcquireInterrupted, Submit, SubmitFails, SubmitThrows, GetReturns, GetInterrupted
<1>2. ASSUME NEW d \in Calls, WorkerStep(d) \/ CancelStep(d) \/ Reuse(d) PROVE FALSE
  BY <1>2 DEF IInv, TypeOK, WorkerStep, Start, Skip, Answer, Release, Complete,
    CancelStep, CancelRelease, CancelTask, Reuse
<1>3. CASE HandlerStep \/ \E t \in Threads : Interrupt(t) \/ TakeInterrupt(t)
  BY <1>3 DEF HandlerStep, ServletReturns, Drain, DrainInterrupted, Interrupt, TakeInterrupt, callVars
<1>4. CASE UNCHANGED vars
  BY <1>4 DEF vars, callVars
<1> QED
  BY <1>1, <1>2, <1>3, <1>4 DEF Next

\* After the drain no call of the request reaches the pool.
THEOREM DrainIsFinal == Spec => NoCallAfterDrain
<1>1. ASSUME IInv, [Next]_vars, handler = "drained", NEW c \in Calls,
             worker[c] = "none", worker'[c] # "none", UsesPermit(caller'[c])
      PROVE  FALSE
  <2>1. Submit(c)
    BY <1>1, OnlySubmitQueues
  <2>2. c \in Holders
    BY <1>1, <2>1 DEF Submit, IInv, CallInv, BeforeSubmit, Holders, Holds
  <2> QED
    BY <1>1, <2>2, DrainedMeansNoHolder
<1>2. IInv /\ [Next]_vars =>
        [handler = "drained" =>
           \A c \in Calls : worker[c] = "none" /\ worker'[c] # "none"
                              => ~UsesPermit(caller'[c])]_vars
  BY <1>1
<1> QED
  BY <1>2, Invariance, PTL DEF Spec, NoCallAfterDrain

-----------------------------------------------------------------------------
(* The semaphore implements the gate: a permit taken is Enter, a permit    *)
(* given back is Leave, whoever gives it back; Drain is Close.             *)

LEMMA GateInit == Init => Barrier!Init
BY DEF Init, Barrier!Init, Holders, Holds, Gate

\* The three callers of tryReleaseSemaphore leave the gate, once.
LEMMA TryReleaseLeaves ==
  ASSUME IInv, NEW c \in Calls, SubmitFails(c) \/ Release(c) \/ CancelRelease(c)
  PROVE  [Barrier!Leave(c)]_<<Holders, Gate>>
<1>1. Holders' = Holders \ {c}
  BY DEF IInv, TypeOK, CallInv, BeforeSubmit, Holders, Holds, UsesPermit,
    TryRelease, SubmitFails, Release, CancelRelease
<1>2. Gate' = Gate
  BY DEF Gate, SubmitFails, Release, CancelRelease
<1> QED
  BY <1>1, <1>2 DEF Barrier!Leave

\* acquire() enters the gate, which is not closed because a permit is left.
LEMMA AcquireEnters ==
  ASSUME IInv, NEW c \in Calls, Acquire(c)
  PROVE  Barrier!Enter(c)
<1>1. Holders' = Holders \cup {c} /\ c \notin Holders
  BY DEF IInv, TypeOK, CallInv, BeforeSubmit, Holders, Holds, UsesPermit, Acquire
<1>2. handler # "drained"
  BY DrainedMeansNoHolder DEF Acquire, IInv, TypeOK
<1>3. Gate # "closed" /\ Gate' = Gate
  BY <1>2 DEF Gate, Acquire
<1>4. Cardinality(Holders) < MaxPermits
  BY <1>2, HoldersFinite, PermitAssumption DEF IInv, TypeOK, PermitsConserved, Acquire
<1> QED
  BY <1>1, <1>3, <1>4, Zenon DEF Barrier!Enter, Barrier!Cardinality, Cardinality

\* The other steps of a call are invisible.
LEMMA CallStutters ==
  ASSUME IInv, NEW c \in Calls, ClientStep(c) \/ WorkerStep(c) \/ CancelStep(c)
  PROVE  \/ Acquire(c) \/ SubmitFails(c) \/ Release(c) \/ CancelRelease(c)
         \/ UNCHANGED <<Holders, Gate>>
<1> USE DEF IInv, TypeOK, CallInv, BeforeSubmit, Holders, Holds, UsesPermit, Gate
<1>1. ASSUME NEW t \in Threads, NEW s \in BOOLEAN, Enter(t, c, s) \/ EnterInterrupted(t, c, s)
      PROVE  UNCHANGED <<Holders, Gate>>
  BY <1>1 DEF Enter, EnterInterrupted
<1>2. ASSUME \/ AcquireInterrupted(c) \/ Submit(c) \/ SubmitThrows(c)
             \/ GetReturns(c) \/ GetInterrupted(c)
      PROVE  UNCHANGED <<Holders, Gate>>
  BY <1>2 DEF AcquireInterrupted, Submit, SubmitThrows, GetReturns, GetInterrupted
<1>3. ASSUME Start(c) \/ Skip(c) \/ Answer(c) \/ Complete(c) \/ CancelTask(c)
      PROVE  UNCHANGED <<Holders, Gate>>
  BY <1>3 DEF Start, Skip, Answer, Complete, CancelTask
<1> QED
  BY <1>1, <1>2, <1>3 DEF ClientStep, WorkerStep, CancelStep

\* The handler closes the gate when nobody is inside, or walks away.
LEMMA HandlerCloses ==
  ASSUME IInv, HandlerStep
  PROVE  [Barrier!Close \/ Barrier!Abandon]_<<Holders, Gate>>
<1>1. Holders' = Holders
  BY DEF HandlerStep, ServletReturns, Drain, DrainInterrupted, callVars, Holders, Holds, UsesPermit
<1>2. ASSUME Drain PROVE Holders = {}
  <2>1. Cardinality(Holders) = 0
    BY <1>2, HoldersFinite, PermitAssumption DEF Drain, IInv, TypeOK, PermitsConserved
  <2> QED
    BY <2>1, HoldersFinite, FS_EmptySet
<1> QED
  BY <1>1, <1>2 DEF HandlerStep, ServletReturns, Drain, DrainInterrupted, Gate,
    Barrier!Close, Barrier!Abandon

LEMMA GateStep == IInv /\ [Next]_vars => [Barrier!Next]_(Barrier!vars)
<1> SUFFICES ASSUME IInv, [Next]_vars PROVE [Barrier!Next]_(Barrier!vars)
  OBVIOUS
<1>1. ASSUME NEW c \in Calls, ClientStep(c) \/ WorkerStep(c) \/ CancelStep(c)
      PROVE  [Barrier!Next]_(Barrier!vars)
  BY <1>1, CallStutters, AcquireEnters, TryReleaseLeaves DEF Barrier!Next, Barrier!vars
<1>2. ASSUME HandlerStep PROVE [Barrier!Next]_(Barrier!vars)
  BY <1>2, HandlerCloses DEF Barrier!Next, Barrier!vars
<1>5. ASSUME NEW c \in Calls, Reuse(c) PROVE UNCHANGED Barrier!vars
  BY <1>5, ReusePreserves DEF Reuse, Gate, Barrier!vars
<1>3. ASSUME NEW t \in Threads, Interrupt(t) \/ TakeInterrupt(t)
      PROVE  UNCHANGED Barrier!vars
  BY <1>3 DEF Interrupt, TakeInterrupt, callVars, Barrier!vars, Holders, Holds, UsesPermit, Gate
<1>4. CASE UNCHANGED vars
  BY <1>4 DEF vars, callVars, Barrier!vars, Holders, Holds, UsesPermit, Gate
<1> QED
  BY <1>1, <1>2, <1>3, <1>4, <1>5 DEF Next

\* The permits of one request are a gate that the request closes behind the
\* last call, and that no call passes afterwards.
THEOREM SemaphoreIsBarrier == Spec => ImplementsBarrier
BY GateInit, GateStep, Invariance, PTL DEF Spec, ImplementsBarrier, Barrier!Spec

-----------------------------------------------------------------------------
(* Liveness: a call that has a permit runs through the stages of its pool  *)
(* thread, each of which hands it to the next or gives the permit back.    *)

\* The last permission c needs before its permit comes back.
Stage(c, w) == Holds(c) /\ worker[c] = w

\* A call that holds a permit and has not reached the pool is about to, if its
\* package name is not null.
LEMMA HolderStages ==
  ASSUME IInv, NEW c \in Calls \ Unnamed, Holds(c)
  PROVE  \/ Stage(c, "none") /\ client[c] = "submit"
         \/ Stage(c, "queued") /\ future[c] = "pending"
         \/ Stage(c, "running")
         \/ Stage(c, "release")
BY DEF IInv, TypeOK, CallInv, BeforeSubmit, AfterSubmit, Holds, Stage, Cancelled,
  WorkerStates, FutureStates

\* The stages follow one another: no step takes a call that keeps its permit
\* anywhere but to the next one.
LEMMA StagesInOrder ==
  ASSUME IInv, [Next]_vars, NEW c \in Calls \ Unnamed, Holds(c), Holds(c)'
  PROVE  \/ worker'[c] = worker[c]
         \/ worker[c] = "none" /\ worker'[c] = "queued"
         \/ worker[c] = "queued" /\ worker'[c] = "running"
         \/ worker[c] = "running" /\ worker'[c] = "release"
<1> USE DEF IInv, TypeOK, CallInv, BeforeSubmit, Holds
<1>1. ASSUME NEW d \in Calls, ClientStep(d)
      PROVE  \/ worker'[c] = worker[c]
             \/ worker[c] = "none" /\ worker'[c] = "queued"
  BY <1>1 DEF ClientStep, Enter, EnterInterrupted, Acquire, AcquireInterrupted,
    Submit, SubmitFails, SubmitThrows, GetReturns, GetInterrupted
<1>2. ASSUME NEW d \in Calls, Start(d) \/ Answer(d)
      PROVE  \/ worker'[c] = worker[c]
             \/ worker[c] = "queued" /\ worker'[c] = "running"
             \/ worker[c] = "running" /\ worker'[c] = "release"
  BY <1>2 DEF Start, Answer
<1>3. ASSUME NEW d \in Calls, Skip(d) \/ Release(d) \/ Complete(d)
      PROVE  worker'[c] = worker[c]
  BY <1>3, HolderStages DEF Skip, Release, Complete, TryRelease, UsesPermit, Stage
<1>4. ASSUME NEW d \in Calls, CancelStep(d) PROVE worker'[c] = worker[c]
  BY <1>4 DEF CancelStep, CancelRelease, CancelTask
<1>7. ASSUME NEW d \in Calls, Reuse(d) PROVE worker'[c] = worker[c]
  BY <1>7, HolderStages DEF Reuse, Settled, Stage
<1>5. CASE HandlerStep \/ \E t \in Threads : Interrupt(t) \/ TakeInterrupt(t)
  BY <1>5 DEF HandlerStep, ServletReturns, Drain, DrainInterrupted, Interrupt,
    TakeInterrupt, callVars
<1>6. CASE UNCHANGED vars
  BY <1>6 DEF vars, callVars
<1> QED
  BY <1>1, <1>2, <1>3, <1>4, <1>5, <1>6, <1>7 DEF Next, WorkerStep

\* A step of the pool thread, or of the caller in submit, ends the stage.
LEMMA StageEnds ==
  ASSUME IInv, NEW c \in Calls \ Unnamed, Holds(c)
  PROVE  /\ <<Submit(c) \/ SubmitFails(c) \/ SubmitThrows(c)>>_vars => worker'[c] # "none" \/ ~Holds(c)'
         /\ <<WorkerStep(c)>>_vars => worker'[c] # worker[c]
         /\ worker[c] = "none" <=> MaySubmit(c)
         /\ worker[c] # "none" => MayWork(c)
<1> USE DEF IInv, TypeOK, CallInv, BeforeSubmit, Holds
<1>1. ASSUME Submit(c) \/ SubmitFails(c) \/ SubmitThrows(c)
      PROVE  worker'[c] # "none" \/ ~Holds(c)'
  BY <1>1 DEF Submit, SubmitFails, SubmitThrows, TryRelease, UsesPermit
<1>2. ASSUME WorkerStep(c) PROVE worker'[c] # worker[c]
  BY <1>2 DEF WorkerStep, Start, Skip, Answer, Release, Complete
<1>3. worker[c] = "none" <=> MaySubmit(c)
  BY HolderStages DEF MaySubmit, Stage
<1>4. worker[c] # "none" => MayWork(c)
  BY HolderStages DEF MayWork, Stage
<1> QED
  BY <1>1, <1>2, <1>3, <1>4

\* Nobody keeps a permit: whichever of the pool thread, cancel() and the failed
\* submit comes first, it comes.
LEMMA PermitComesBack ==
  ASSUME NEW c \in Calls \ Unnamed
  PROVE  Spec /\ CallFairness(c) => []<>~Holds(c)
<1> DEFINE At(w) == Stage(c, w)
<1>1. IInv /\ Holds(c) => At("none") \/ At("queued") \/ At("running") \/ At("release")
  BY HolderStages
<1>2. IInv /\ At("none") /\ [Next]_vars => (At("none") \/ At("queued") \/ ~Holds(c))'
  BY StagesInOrder DEF Stage
<1>3. IInv /\ At("queued") /\ [Next]_vars => (At("queued") \/ At("running") \/ ~Holds(c))'
  BY StagesInOrder DEF Stage
<1>4. IInv /\ At("running") /\ [Next]_vars => (At("running") \/ At("release") \/ ~Holds(c))'
  BY StagesInOrder DEF Stage
<1>5. IInv /\ At("release") /\ [Next]_vars => (At("release") \/ ~Holds(c))'
  BY StagesInOrder DEF Stage
<1>6. IInv /\ At("none") => /\ MaySubmit(c)
                            /\ <<Submit(c) \/ SubmitFails(c) \/ SubmitThrows(c)>>_vars
                                 => ~At("none")'
  BY StageEnds DEF Stage
<1>7. IInv /\ (At("queued") \/ At("running") \/ At("release")) => MayWork(c)
  BY StageEnds DEF Stage
<1>8. IInv /\ At("queued") /\ <<WorkerStep(c)>>_vars => ~At("queued")'
  BY StageEnds DEF Stage
<1>9. IInv /\ At("running") /\ <<WorkerStep(c)>>_vars => ~At("running")'
  BY StageEnds DEF Stage
<1>10. IInv /\ At("release") /\ <<WorkerStep(c)>>_vars => ~At("release")'
  BY StageEnds DEF Stage
<1> HIDE DEF At
<1>11. Spec /\ CallFairness(c) => (At("release") ~> ~Holds(c))
  BY <1>5, <1>7, <1>10, Invariance, PTL DEF Spec, CallFairness
<1>12. Spec /\ CallFairness(c) => (At("running") ~> At("release") \/ ~Holds(c))
  BY <1>4, <1>7, <1>9, Invariance, PTL DEF Spec, CallFairness
<1>13. Spec /\ CallFairness(c) => (At("queued") ~> At("running") \/ ~Holds(c))
  BY <1>3, <1>7, <1>8, Invariance, PTL DEF Spec, CallFairness
<1>14. Spec /\ CallFairness(c) => (At("none") ~> At("queued") \/ ~Holds(c))
  BY <1>2, <1>6, Invariance, PTL DEF Spec, CallFairness
<1> QED
  BY <1>1, <1>11, <1>12, <1>13, <1>14, Invariance, PTL

\* Under fair threads and answering services the semaphore implements the gate
\* of which nobody stays inside: every permit a call takes is given back, however
\* the calls are cancelled, refused and interrupted, and however many are made.
\* That holds when no call has a null package name: the permit of one that has
\* is lost (SubmitThrows).
THEOREM SemaphoreIsFairBarrier ==
  ASSUME Unnamed = {}
  PROVE  FairSpec => ImplementsFairBarrier
<1>1. ASSUME NEW c \in Calls PROVE FairSpec => []<>(c \notin Holders)
  <2>1. ~Holds(c) => c \notin Holders
    BY DEF Holders
  <2>2. FairSpec => Spec /\ CallFairness(c)
    BY DEF FairSpec, Fairness
  <2>3. Spec /\ CallFairness(c) => []<>~Holds(c)
    BY PermitComesBack
  <2> QED
    BY <2>1, <2>2, <2>3, PTL
<1>2. FairSpec => \A c \in Calls : []<>(c \notin Holders)
  BY <1>1
<1> QED
  BY <1>2, SemaphoreIsBarrier DEF FairSpec, ImplementsFairBarrier, ImplementsBarrier,
    Barrier!FairSpec

\* Whoever waits in future.get() waits for a task that nobody can cancel.
LEMMA AwaitStages ==
  ASSUME IInv, NEW c \in Calls, client[c] = "await"
  PROVE  \/ worker[c] \in {"queued", "running", "release", "complete"} /\ MayWork(c)
         \/ worker[c] = "finished" /\ MayGet(c)
BY DEF IInv, TypeOK, CallInv, BeforeSubmit, AfterSubmit, CancelledByApplication,
  Cancelled, MayWork, MayGet, WorkerStates, FutureStates

\* The order of the task's stages, and that its last one is final.
Later(w) ==
  CASE w = "queued" -> "running"
    [] w = "running" -> "release"
    [] w = "release" -> "complete"
    [] OTHER -> "finished"

LEMMA AwaitInOrder ==
  ASSUME IInv, [Next]_vars, NEW c \in Calls, client[c] = "await", client'[c] = "await"
  PROVE  worker'[c] \in {worker[c], Later(worker[c])}
<1> USE DEF IInv, TypeOK, CallInv, BeforeSubmit, CancelledByApplication, Later
<1>1. ASSUME NEW d \in Calls, ClientStep(d) PROVE worker'[c] = worker[c]
  BY <1>1 DEF ClientStep, Enter, EnterInterrupted, Acquire, AcquireInterrupted,
    Submit, SubmitFails, SubmitThrows, GetReturns, GetInterrupted
<1>2. ASSUME NEW d \in Calls, WorkerStep(d)
      PROVE  worker'[c] \in {worker[c], Later(worker[c])}
  BY <1>2 DEF WorkerStep, Start, Skip, Answer, Release, Complete, Cancelled
<1>3. ASSUME NEW d \in Calls, CancelStep(d) \/ Reuse(d) PROVE worker'[c] = worker[c]
  BY <1>3 DEF CancelStep, CancelRelease, CancelTask, Reuse, Settled
<1>4. CASE HandlerStep \/ \E t \in Threads : Interrupt(t) \/ TakeInterrupt(t)
  BY <1>4 DEF HandlerStep, ServletReturns, Drain, DrainInterrupted, Interrupt,
    TakeInterrupt, callVars
<1>5. CASE UNCHANGED vars
  BY <1>5 DEF vars, callVars
<1> QED
  BY <1>1, <1>2, <1>3, <1>4, <1>5 DEF Next

\* A caller leaves submit and future.get() only for a result or an error.
LEMMA ClientInOrder ==
  ASSUME IInv, [Next]_vars, NEW c \in Calls, client[c] \in {"submit", "await"}
  PROVE  \/ client'[c] = client[c]
         \/ Settled(c)'
         \/ client[c] = "submit" /\ client'[c] = "await"
<1> USE DEF IInv, TypeOK, Settled
<1>1. ASSUME NEW d \in Calls, ClientStep(d)
      PROVE  \/ client'[c] = client[c]
             \/ Settled(c)'
             \/ client[c] = "submit" /\ client'[c] = "await"
  BY <1>1 DEF ClientStep, Enter, EnterInterrupted, Acquire, AcquireInterrupted,
    Submit, SubmitFails, SubmitThrows, GetReturns, GetInterrupted
<1>2. ASSUME NEW d \in Calls, WorkerStep(d) \/ CancelStep(d) \/ Reuse(d)
      PROVE  client'[c] = client[c]
  BY <1>2 DEF WorkerStep, Start, Skip, Answer, Release, Complete, CancelStep,
    CancelRelease, CancelTask, Reuse
<1>3. CASE HandlerStep \/ \E t \in Threads : Interrupt(t) \/ TakeInterrupt(t)
  BY <1>3 DEF HandlerStep, ServletReturns, Drain, DrainInterrupted, Interrupt,
    TakeInterrupt, callVars
<1>4. CASE UNCHANGED vars
  BY <1>4 DEF vars, callVars
<1> QED
  BY <1>1, <1>2, <1>3, <1>4 DEF Next

\* The steps that end a stage of the caller or of its task.
LEMMA AwaitEnds ==
  ASSUME IInv, NEW c \in Calls
  PROVE  /\ <<Submit(c) \/ SubmitFails(c) \/ SubmitThrows(c)>>_vars => client'[c] # "submit"
         /\ <<GetReturns(c)>>_vars => client'[c] # "await"
         /\ <<WorkerStep(c)>>_vars => worker'[c] # worker[c]
BY DEF IInv, TypeOK, Submit, SubmitFails, SubmitThrows, GetReturns, WorkerStep, Start, Skip,
  Answer, Release, Complete

LEMMA CallSettles ==
  ASSUME NEW c \in Calls
  PROVE  Spec /\ CallFairness(c) =>
           (client[c] \in {"submit", "await"} ~> Settled(c))
<1> DEFINE Sub == client[c] = "submit"
           At(w) == client[c] = "await" /\ worker[c] = w
           End == Settled(c)
<1>1. IInv /\ client[c] \in {"submit", "await"} =>
        \/ Sub
        \/ At("queued") \/ At("running") \/ At("release") \/ At("complete")
        \/ At("finished")
  BY AwaitStages
<1>2. IInv /\ Sub /\ [Next]_vars =>
        (\/ Sub \/ End
         \/ At("queued") \/ At("running") \/ At("release") \/ At("complete")
         \/ At("finished"))'
  <2>1. IInv' => worker'[c] \in WorkerStates
                 /\ (client'[c] = "await" => worker'[c] # "none")
    BY DEF IInv, TypeOK, CallInv, BeforeSubmit
  <2> QED
    BY <2>1, ClientInOrder, Inductive DEF WorkerStates
<1>3. IInv /\ At("queued") /\ [Next]_vars => (At("queued") \/ At("running") \/ End)'
  BY ClientInOrder, AwaitInOrder DEF Later
<1>4. IInv /\ At("running") /\ [Next]_vars => (At("running") \/ At("release") \/ End)'
  BY ClientInOrder, AwaitInOrder DEF Later
<1>5. IInv /\ At("release") /\ [Next]_vars => (At("release") \/ At("complete") \/ End)'
  BY ClientInOrder, AwaitInOrder DEF Later
<1>6. IInv /\ At("complete") /\ [Next]_vars => (At("complete") \/ At("finished") \/ End)'
  BY ClientInOrder, AwaitInOrder DEF Later
<1>7. IInv /\ At("finished") /\ [Next]_vars => (At("finished") \/ End)'
  BY ClientInOrder, AwaitInOrder DEF Later
<1>8. IInv /\ Sub => /\ MaySubmit(c)
                     /\ <<Submit(c) \/ SubmitFails(c) \/ SubmitThrows(c)>>_vars => ~Sub'
  BY AwaitEnds DEF MaySubmit
<1>9. IInv /\ (At("queued") \/ At("running") \/ At("release") \/ At("complete"))
        => MayWork(c)
  BY AwaitStages
<1>10. IInv /\ At("finished") => MayGet(c) /\ (<<GetReturns(c)>>_vars => ~At("finished")')
  BY AwaitStages, AwaitEnds
<1>11. IInv /\ <<WorkerStep(c)>>_vars =>
         /\ At("queued") => ~At("queued")'
         /\ At("running") => ~At("running")'
         /\ At("release") => ~At("release")'
         /\ At("complete") => ~At("complete")'
  BY AwaitEnds
<1> HIDE DEF Sub, At, End
<1>12. Spec /\ CallFairness(c) => (At("finished") ~> End)
  BY <1>7, <1>10, Invariance, PTL DEF Spec, CallFairness
<1>13. Spec /\ CallFairness(c) => (At("complete") ~> At("finished") \/ End)
  BY <1>6, <1>9, <1>11, Invariance, PTL DEF Spec, CallFairness
<1>14. Spec /\ CallFairness(c) => (At("release") ~> At("complete") \/ End)
  BY <1>5, <1>9, <1>11, Invariance, PTL DEF Spec, CallFairness
<1>15. Spec /\ CallFairness(c) => (At("running") ~> At("release") \/ End)
  BY <1>4, <1>9, <1>11, Invariance, PTL DEF Spec, CallFairness
<1>16. Spec /\ CallFairness(c) => (At("queued") ~> At("running") \/ End)
  BY <1>3, <1>9, <1>11, Invariance, PTL DEF Spec, CallFairness
<1>17. Spec /\ CallFairness(c) =>
         (Sub ~> \/ End
                 \/ At("queued") \/ At("running") \/ At("release") \/ At("complete")
                 \/ At("finished"))
  BY <1>2, <1>8, Invariance, PTL DEF Spec, CallFairness
<1>18. Spec /\ CallFairness(c) => (client[c] \in {"submit", "await"} ~> End)
  BY <1>1, <1>12, <1>13, <1>14, <1>15, <1>16, <1>17, Invariance, PTL
<1> QED
  BY <1>18 DEF End

\* A call that has its permit, or needs none, comes to an end in the thread that
\* made it: makeAsyncCall and makeSyncCall return or throw, however many other
\* calls are made.  What remains is a call that still waits for a permit.
THEOREM PermittedCallSettles ==
  FairSpec =>
    \A c \in Calls : client[c] \in {"submit", "await"} ~> Settled(c)
<1>1. ASSUME NEW c \in Calls
      PROVE  FairSpec => (client[c] \in {"submit", "await"} ~> Settled(c))
  <2>1. FairSpec => Spec /\ CallFairness(c)
    BY DEF FairSpec, Fairness
  <2> QED
    BY CallSettles, <2>1
<1> QED
  BY <1>1

=============================================================================
