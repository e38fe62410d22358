------------------------ MODULE RequestThreadsProofs ------------------------
(***************************************************************************)
(* Proofs about RequestThreads, for any number of threads and any limits:  *)
(* the end of the request overlooks no thread that the servlet started,    *)
(* and the time it takes does not add up over the threads.                 *)
(***************************************************************************)
EXTENDS RequestThreads, FiniteSetTheorems, TLAPS

(* The life of a thread and its listener agree.                            *)

\* A thread nobody started has neither a starter nor a listener.
StartInv ==
  \A t \in RequestThreads :
    /\ life[t] = "new" <=> starter[t] = NoThread
    /\ t \in pending => starter[t] # NoThread /\ t \notin listeners

\* The listeners are visited once each: what is still to visit has not been
\* interrupted, the target once, and a second join begins after the second
\* interrupt only.
VisitInv ==
  /\ \A t \in RequestThreads :
       /\ strikes[t] > 0 => t \in listeners
       /\ t \in toVisit => strikes[t] = 0
       /\ phase = "serving" => strikes[t] = 0
       /\ strikes[t] < 2 => lastJoin[t] = "none"
  /\ phase \in {"grace", "again"} => strikes[target] = 1
  /\ phase \in {"serving", "ended"} => toVisit = {}

\* A thread of the servlet has a listener, and at the end of the request it is
\* to be visited, being visited, or dealt with.
ServletInv ==
  \A t \in RequestThreads : starter[t] = Handler =>
    /\ t \in pending => phase = "serving"
    /\ t \notin pending => t \in listeners
    /\ \/ phase = "serving"
       \/ t \in toVisit
       \/ phase \in {"grace", "again"} /\ target = t
       \/ life[t] = "dead"
       \/ strikes[t] = 2

IInv == TypeOK /\ StartInv /\ VisitInv /\ ServletInv

-----------------------------------------------------------------------------

LEMMA Initial == Init => IInv
<1> SUFFICES ASSUME Init PROVE IInv
  OBVIOUS
<1>1. TypeOK
  BY StarterAssumption DEF Init, TypeOK, Phases, Lives, Joins
<1>2. StartInv /\ VisitInv /\ ServletInv
  BY StarterAssumption DEF Init, StartInv, VisitInv, ServletInv, Threads
<1> QED
  BY <1>1, <1>2 DEF IInv

\* Starting, registering, dying.
LEMMA ApplicationPreserves ==
  ASSUME IInv, ApplicationStep
  PROVE  IInv'
<1> USE DEF IInv, Threads
<1>1. ASSUME NEW t \in RequestThreads, NEW s \in Threads \cup {Outsider}, StartThread(s, t)
      PROVE  IInv'
  <2> USE <1>1, StarterAssumption DEF StartThread, listenerVars, timeVars, TypeOK, StartInv
  <2>1. TypeOK'
    BY DEF Lives
  <2>2. StartInv' /\ VisitInv'
    BY DEF VisitInv
  <2>3. ServletInv'
    BY DEF ServletInv, CanStart
  <2> QED
    BY <2>1, <2>2, <2>3
<1>2. ASSUME NEW t \in RequestThreads, AddListener(t)
      PROVE  IInv'
  <2> USE <1>2, StarterAssumption DEF AddListener, timeVars, TypeOK, StartInv
  <2>1. TypeOK'
    OBVIOUS
  <2>2. StartInv'
    OBVIOUS
  <2>3. VisitInv'
    BY DEF VisitInv, Dispatching
  <2>4. ServletInv'
    BY DEF ServletInv
  <2> QED
    BY <2>1, <2>2, <2>3, <2>4
<1>3. ASSUME NEW t \in RequestThreads, Die(t)
      PROVE  IInv'
  <2> USE <1>3 DEF Die, listenerVars, timeVars, TypeOK
  <2>1. TypeOK'
    BY DEF Lives
  <2>2. StartInv' /\ VisitInv' /\ ServletInv'
    BY DEF StartInv, VisitInv, ServletInv
  <2> QED
    BY <2>1, <2>2
<1> QED
  BY <1>1, <1>2, <1>3 DEF ApplicationStep

\* The listeners.
LEMMA ListenerPreserves ==
  ASSUME IInv, ListenerStep
  PROVE  IInv'
<1> USE DEF IInv, threadVars, listenerVars, timeVars, TypeOK
<1>1. ASSUME NEW t \in RequestThreads, VisitDead(t)
      PROVE  IInv'
  <2>1. TypeOK' /\ StartInv' /\ VisitInv'
    BY <1>1 DEF VisitDead, StartInv, VisitInv
  <2>2. ServletInv'
    BY <1>1, StarterAssumption DEF VisitDead, StartInv, ServletInv, Lives, Threads
  <2> QED
    BY <2>1, <2>2
<1>2. ASSUME NEW t \in RequestThreads, VisitAlive(t)
      PROVE  IInv'
  <2>1. TypeOK'
    BY <1>2, TimeAssumption DEF VisitAlive, Phases, Threads
  <2>2. StartInv' /\ VisitInv'
    BY <1>2 DEF VisitAlive, StartInv, VisitInv
  <2>3. ServletInv'
    BY <1>2 DEF VisitAlive, ServletInv
  <2> QED
    BY <2>1, <2>2, <2>3
<1>3. CASE JoinDead
  <2>1. TypeOK' /\ StartInv' /\ VisitInv'
    BY <1>3 DEF JoinDead, StartInv, VisitInv, Phases
  <2>2. ServletInv'
    BY <1>3, StarterAssumption DEF JoinDead, StartInv, ServletInv, Lives, Threads
  <2> QED
    BY <2>1, <2>2
<1>4. CASE JoinGivesUp
  <2>1. TypeOK'
    BY <1>4 DEF JoinGivesUp, Phases, Threads
  <2>2. StartInv' /\ VisitInv' /\ ServletInv'
    BY <1>4 DEF JoinGivesUp, StartInv, VisitInv, ServletInv
  <2> QED
    BY <2>1, <2>2
<1>5. CASE SecondStrike
  <2>1. Remaining \in Int /\ JoinOf(Remaining) \in Joins
    BY TimeAssumption DEF Remaining, Limit, JoinOf, Joins
  <2>2. TypeOK'
    BY <1>5, <2>1 DEF SecondStrike, Phases, Threads
  <2>3. StartInv' /\ VisitInv' /\ ServletInv'
    BY <1>5, <2>1 DEF SecondStrike, StartInv, VisitInv, ServletInv
  <2> QED
    BY <2>2, <2>3
<1>6. CASE EndDispatch
  <2>1. TypeOK' /\ StartInv' /\ VisitInv'
    BY <1>6 DEF EndDispatch, StartInv, VisitInv, Phases
  <2>2. ServletInv'
    BY <1>6 DEF EndDispatch, ServletInv
  <2> QED
    BY <2>1, <2>2
<1> QED
  BY <1>1, <1>2, <1>3, <1>4, <1>5, <1>6 DEF ListenerStep

LEMMA Inductive == IInv /\ [Next]_vars => IInv'
<1> SUFFICES ASSUME IInv, [Next]_vars PROVE IInv'
  OBVIOUS
<1> USE DEF IInv, threadVars, listenerVars, timeVars, TypeOK
<1>1. CASE BeginDispatch
  <2>1. TypeOK' /\ StartInv' /\ VisitInv'
    BY <1>1 DEF BeginDispatch, StartInv, VisitInv, Phases
  <2>2. ServletInv'
    BY <1>1 DEF BeginDispatch, ServletInv
  <2> QED
    BY <2>1, <2>2
<1>2. ASSUME NEW t \in Threads, Interrupt(t) \/ TakeInterrupt(t)
      PROVE  IInv'
  BY <1>2 DEF Interrupt, TakeInterrupt, StartInv, VisitInv, ServletInv
<1>3. CASE Tick
  BY <1>3 DEF Tick, StartInv, VisitInv, ServletInv
<1>4. CASE UNCHANGED vars
  BY <1>4 DEF vars, StartInv, VisitInv, ServletInv
<1> QED
  BY <1>1, <1>2, <1>3, <1>4, ApplicationPreserves, ListenerPreserves DEF Next

THEOREM Invariance == Spec => []IInv
BY Initial, Inductive, PTL DEF Spec

\* Every variable keeps its type, and only threads started in the request's
\* environment are listened to.
THEOREM TypeCorrect == Spec => []TypeOK
BY Invariance, PTL DEF IInv

\* No thread that the servlet started is overlooked at the end of the request.
THEOREM NoneOverlooked == Spec => []ServletThreadsStruck
<1>1. IInv => ServletThreadsStruck
  BY DEF IInv, VisitInv, ServletInv, ServletThreadsStruck
<1> QED
  BY <1>1, Invariance, PTL

-----------------------------------------------------------------------------
(* Time.  Every thread the dispatch has interrupted accounts for one Grace; *)
(* the second joins all end at the limit.                                   *)

Struck == {t \in RequestThreads : strikes[t] > 0}

\* Where the clock may be, after Struck and given the limit.
Allowed == Later(began, Limit) + Grace * Cardinality(Struck)

DeadlineInv ==
  \/ \E t \in RequestThreads : lastJoin[t] = "forever"
  \/ /\ phase # "serving" => now <= Allowed
     /\ phase = "grace" => now <= deadline /\ deadline <= Allowed
     /\ phase = "last" => now <= deadline /\ deadline = Limit
     /\ phase = "last" => lastJoin[target] = "timed"

TInv == IInv /\ DeadlineInv

LEMMA LimitType == offline \in BOOLEAN => Limit \in Nat
BY TimeAssumption DEF Limit

LEMMA StruckFinite ==
  IsFiniteSet(Struck) /\ Cardinality(Struck) \in Nat
  /\ Cardinality(Struck) <= Cardinality(RequestThreads)
  /\ Cardinality(RequestThreads) \in Nat
<1>1. Struck \in SUBSET RequestThreads
  BY DEF Struck
<1> QED
  BY <1>1, FiniteAssumption, FS_Subset, FS_CardinalityType

LEMMA GraceTimes ==
  \A m, n \in Nat : /\ Grace * m \in Nat
                    /\ Grace * (m + 1) = Grace * m + Grace
                    /\ m <= n => Grace * m <= Grace * n
<1> SUFFICES ASSUME NEW m \in Nat, NEW n \in Nat
             PROVE  /\ Grace * m \in Nat
                    /\ Grace * (m + 1) = Grace * m + Grace
                    /\ m <= n => Grace * m <= Grace * n
  OBVIOUS
<1>1. Grace \in Nat
  BY TimeAssumption
<1> QED
  BY <1>1

LEMMA AllowedType ==
  ASSUME TypeOK
  PROVE  Allowed \in Nat /\ Limit <= Allowed /\ began <= Allowed
BY LimitType, StruckFinite, GraceTimes DEF TypeOK, Allowed, Later

\* Steps that leave the clock, the joins and the strikes alone.
LEMMA DeadlineKept ==
  ASSUME DeadlineInv, UNCHANGED <<phase, now, began, offline, deadline, target, strikes, lastJoin>>
  PROVE  DeadlineInv'
BY DEF DeadlineInv, Allowed, Struck, Limit, Later

LEMMA DeadlineInductive == TInv /\ [Next]_vars => DeadlineInv'
<1> SUFFICES ASSUME TInv, [Next]_vars PROVE DeadlineInv'
  OBVIOUS
<1> USE DEF TInv, IInv, threadVars, listenerVars, timeVars
<1>1. CASE ApplicationStep
  BY <1>1, DeadlineKept DEF ApplicationStep, StartThread, AddListener, Die
<1>2. CASE BeginDispatch
  <2>1. TypeOK'
    BY Inductive
  <2>2. now' <= Allowed'
    BY <2>1, AllowedType, LimitType, StruckFinite, GraceTimes, <1>2
      DEF BeginDispatch, TypeOK, Allowed, Struck, Limit, Later
  <2> QED
    BY <1>2, <2>2 DEF BeginDispatch, DeadlineInv
<1>3. ASSUME NEW t \in RequestThreads, VisitDead(t)
      PROVE  DeadlineInv'
  BY <1>3, DeadlineKept DEF VisitDead
<1>4. ASSUME NEW t \in RequestThreads, VisitAlive(t)
      PROVE  DeadlineInv'
  <2>1. Struck' = Struck \cup {t} /\ t \notin Struck
    BY <1>4 DEF VisitAlive, TypeOK, VisitInv, Struck
  <2>2. Cardinality(Struck') = Cardinality(Struck) + 1
    BY <2>1, StruckFinite, FS_AddElement
  <2>3. Allowed' = Allowed + Grace
    <3>1. Limit' = Limit /\ began' = began
      BY <1>4 DEF VisitAlive, Limit
    <3>2. Later(began, Limit) \in Nat
      BY LimitType DEF TypeOK, Later
    <3>3. Grace * Cardinality(Struck') = Grace * Cardinality(Struck) + Grace
      BY <2>2, StruckFinite, GraceTimes
    <3> QED
      BY <3>1, <3>2, <3>3, StruckFinite, GraceTimes, TimeAssumption DEF Allowed, Later
  <2>4. lastJoin' = lastJoin /\ now' = now /\ deadline' = now + Grace
        /\ phase = "dispatch" /\ phase' = "grace"
    BY <1>4 DEF VisitAlive
  <2> QED
    BY <2>3, <2>4, AllowedType, TimeAssumption DEF DeadlineInv, TypeOK
<1>5. CASE JoinDead \/ JoinGivesUp \/ EndDispatch
  <2>1. Allowed' = Allowed /\ lastJoin' = lastJoin /\ now' = now
    BY <1>5 DEF JoinDead, JoinGivesUp, EndDispatch, Allowed, Struck, Limit, Later
  <2>2. phase # "serving" /\ phase' \in {"dispatch", "again", "ended"}
    BY <1>5 DEF JoinDead, JoinGivesUp, EndDispatch
  <2> QED
    BY <2>1, <2>2 DEF DeadlineInv
<1>6. CASE SecondStrike
  <2>1. target \in RequestThreads /\ strikes[target] = 1 /\ lastJoin[target] = "none"
    BY <1>6 DEF SecondStrike, TypeOK, VisitInv
  <2>2. Struck' = Struck
    BY <1>6, <2>1 DEF SecondStrike, Struck, TypeOK
  <2>3. Allowed' = Allowed /\ Limit' = Limit /\ now' = now /\ now \in Nat /\ Limit \in Nat
    BY <1>6, <2>2, LimitType DEF SecondStrike, Allowed, Limit, Later, TypeOK
  <2>4. ASSUME NEW u \in RequestThreads, lastJoin[u] = "forever"
        PROVE  lastJoin'[u] = "forever"
    BY <1>6, <2>1, <2>4 DEF SecondStrike, TypeOK
  <2>5. CASE Remaining = 0
    BY <1>6, <2>1, <2>5 DEF SecondStrike, DeadlineInv, JoinOf, TypeOK
  <2>6. CASE Remaining > 0
    <3>1. /\ phase = "again" /\ phase' = "last" /\ target' = target
          /\ lastJoin'[target] = "timed" /\ deadline' = Limit /\ now <= Limit
      BY <1>6, <2>1, <2>3, <2>6 DEF SecondStrike, JoinOf, Remaining, TypeOK
    <3> QED
      BY <3>1, <2>3, <2>4, AllowedType DEF DeadlineInv
  <2>7. CASE Remaining < 0
    <3>1. phase = "again" /\ phase' = "dispatch"
      BY <1>6, <2>7 DEF SecondStrike
    <3> QED
      BY <3>1, <2>3, <2>4 DEF DeadlineInv
  <2> QED
    BY <2>3, <2>5, <2>6, <2>7 DEF Remaining
<1>7. ASSUME NEW t \in Threads, Interrupt(t) \/ TakeInterrupt(t)
      PROVE  DeadlineInv'
  BY <1>7, DeadlineKept DEF Interrupt, TakeInterrupt
<1>8. CASE Tick
  <2>1. Allowed' = Allowed /\ Limit' = Limit /\ now' = now + 1 /\ now \in Nat /\ deadline \in Int
    BY <1>8 DEF Tick, Allowed, Struck, Limit, Later, TypeOK
  <2>2. UNCHANGED <<phase, lastJoin, deadline, target>>
    BY <1>8 DEF Tick
  <2>3. CASE phase = "serving"
    BY <2>1, <2>2, <2>3 DEF DeadlineInv
  <2>4. CASE phase # "serving"
    <3>1. phase \in {"grace", "last"} /\ (now < deadline \/ Forever)
      BY <1>8, <2>4, <2>1 DEF Tick, Waiting, Expired
    <3>2. target \in RequestThreads
      BY <3>1 DEF TypeOK
    <3>3. CASE Forever
      BY <3>2, <3>3, <2>2 DEF Forever, DeadlineInv
    <3>4. CASE now < deadline
      BY <3>1, <3>4, <2>1, <2>2, AllowedType DEF DeadlineInv
    <3> QED
      BY <3>1, <3>3, <3>4
  <2> QED
    BY <2>3, <2>4
<1>9. CASE UNCHANGED vars
  BY <1>9, DeadlineKept DEF vars
<1> QED
  BY <1>1, <1>2, <1>3, <1>4, <1>5, <1>6, <1>7, <1>8, <1>9 DEF Next, ListenerStep

\* However many threads refuse to end, the handler is through by the limit of
\* the request (or when the servlet returned) plus one Grace for each.
THEOREM OneDeadline == Spec => []SharedDeadline
<1>1. Init => TInv
  BY Initial DEF Init, TInv, DeadlineInv
<1>2. TInv /\ [Next]_vars => TInv'
  BY DeadlineInductive, Inductive DEF TInv
<1>3. TInv => SharedDeadline
  <2> SUFFICES ASSUME TInv, phase # "serving",
                      ~ \E t \in RequestThreads : lastJoin[t] = "forever"
               PROVE  now <= Later(began, Limit) + Grace * Cardinality(RequestThreads)
    BY DEF SharedDeadline
  <2>1. now <= Later(began, Limit) + Grace * Cardinality(Struck)
    BY DEF TInv, DeadlineInv, Allowed
  <2>2. Grace * Cardinality(Struck) <= Grace * Cardinality(RequestThreads)
    BY StruckFinite, GraceTimes
  <2>3. Later(began, Limit) \in Nat /\ now \in Nat
    BY LimitType DEF TInv, IInv, TypeOK, Later
  <2> QED
    BY <2>1, <2>2, <2>3, StruckFinite, GraceTimes
<1> QED
  BY <1>1, <1>2, <1>3, PTL DEF Spec

=============================================================================
