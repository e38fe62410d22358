--------------------------- MODULE RequestThreads ---------------------------
(***************************************************************************)
(* The threads an application starts during a request                      *)
(* (CurrentRequestThreadFactory) and what the end of the request does to   *)
(* them (RuntimeEnvironmentListener.requestEnd, in the handler's thread).  *)
(*                                                                         *)
(* Thread.start() is overridden: it starts the thread and then adds a      *)
(* listener to the environment of the thread that called start().  At the  *)
(* end of the request the handler visits the listeners one after the       *)
(* other.  Each interrupts its thread, joins it for Grace, interrupts it   *)
(* again and joins it for what is left of the request's time limit.        *)
(*                                                                         *)
(* Time is counted from the start_time of the request, in ticks of Grace   *)
(* (100 ms) or finer.  The steps of the handler take no time; waiting does.*)
(***************************************************************************)
EXTENDS Integers, FiniteSets

CONSTANTS
  Handler,        \* the Jetty thread that runs handle() and the listeners
  RequestThreads, \* the threads of CurrentRequestThreadFactory
  Outsider,       \* a thread with the environment of no request or another one
  NoThread,       \* the starter of a thread nobody has started
  Grace,          \* the timeout of the first join
  OnlineLimit,    \* the limit of a request, 1 minute
  OfflineLimit,   \* the limit of an offline (task queue) request, 10 minutes
  ServeMax,       \* bound of the model: the servlet returns by then
  ForeverMax      \* bound of the model: how long a join without timeout is watched

Threads == {Handler} \cup RequestThreads

ASSUME StarterAssumption ==
  /\ Handler \notin RequestThreads
  /\ Outsider \notin Threads
  /\ NoThread \notin Threads \cup {Outsider}

ASSUME FiniteAssumption == IsFiniteSet(RequestThreads)

ASSUME TimeAssumption ==
  /\ Grace \in Nat \ {0} /\ OnlineLimit \in Nat \ {0} /\ OfflineLimit \in Nat \ {0}
  /\ ServeMax \in Nat /\ ForeverMax \in Nat \ {0}

VARIABLES
  phase,       \* where the handler is
  life,        \* the life of each request thread
  starter,     \* the thread that called start() on it
  pending,     \* threads started, whose start() has not added a listener yet
  listeners,   \* threads with a listener in the request's environment
  toVisit,     \* what the iterator of the dispatch has still to return
  target,      \* the thread whose listener runs
  deadline,    \* when the handler's join times out
  strikes,     \* how many times the end of the request interrupted a thread
  lastJoin,    \* the timeout the second join of a thread was given
  offline,     \* ATTR_OFFLINE of the request
  now,         \* System.currentTimeMillis() - start_time
  began,       \* when the dispatch began
  interrupted  \* Thread interrupt flags

threadVars == <<life, starter, pending, listeners>>
listenerVars == <<toVisit, target, deadline, strikes, lastJoin>>
timeVars == <<offline, now, began>>
vars == <<phase, threadVars, listenerVars, timeVars, interrupted>>

Phases == {"serving", "dispatch", "grace", "again", "last", "ended"}
Lives == {"new", "alive", "dead"}
Joins == {"none", "timed", "forever", "refused"}

Init ==
  /\ phase = "serving"
  /\ life = [t \in RequestThreads |-> "new"]
  /\ starter = [t \in RequestThreads |-> NoThread]
  /\ pending = {} /\ listeners = {} /\ toVisit = {}
  /\ target = NoThread /\ deadline = 0
  /\ strikes = [t \in RequestThreads |-> 0]
  /\ lastJoin = [t \in RequestThreads |-> "none"]
  /\ offline \in BOOLEAN
  /\ now = 0 /\ began = 0
  /\ interrupted = [t \in Threads |-> FALSE]

Dispatching == phase \in {"dispatch", "grace", "again", "last"}

-----------------------------------------------------------------------------
(* The application's threads.                                              *)

\* s can call start(): it runs and is not inside another start().
CanStart(s) ==
  /\ \/ s = Outsider
     \/ s = Handler /\ phase = "serving"
     \/ s \in RequestThreads /\ life[s] = "alive"
  /\ \A u \in pending : starter[u] # s

\* start(), first statement: super.start().
StartThread(s, t) ==
  /\ CanStart(s) /\ life[t] = "new"
  /\ life' = [life EXCEPT ![t] = "alive"]
  /\ starter' = [starter EXCEPT ![t] = s]
  /\ pending' = pending \cup {t}
  /\ UNCHANGED <<phase, listeners, listenerVars, timeVars, interrupted>>

\* Defect: the listener goes to the request that created the thread.
AddListenerOfCreator(t) ==
  /\ t \in pending
  /\ pending' = pending \ {t}
  /\ listeners' = listeners \cup {t}
  /\ \/ UNCHANGED toVisit
     \/ Dispatching /\ toVisit' = toVisit \cup {t}
  /\ UNCHANGED <<phase, life, starter, target, deadline, strikes, lastJoin, timeVars, interrupted>>

\* start(), second statement: onRequestEnd adds a listener to the environment
\* of the thread that runs start().  The set is a ConcurrentHashMap: a dispatch
\* that is under way may or may not meet the new listener.
AddListener(t) ==
  /\ t \in pending
  /\ pending' = pending \ {t}
  /\ IF starter[t] = Outsider
     THEN UNCHANGED <<listeners, toVisit>>
     ELSE /\ listeners' = listeners \cup {t}
          /\ \/ UNCHANGED toVisit
             \/ Dispatching /\ toVisit' = toVisit \cup {t}
  /\ UNCHANGED <<phase, life, starter, target, deadline, strikes, lastJoin, timeVars, interrupted>>

\* run() returns or throws, interrupted or not.
Die(t) ==
  /\ life[t] = "alive"
  /\ \A u \in pending : starter[u] # t
  /\ life' = [life EXCEPT ![t] = "dead"]
  /\ UNCHANGED <<phase, starter, pending, listeners, listenerVars, timeVars, interrupted>>

-----------------------------------------------------------------------------
(* The handler at the end of the request.                                  *)

\* requestEnd: the iterator is created.
BeginDispatch ==
  /\ phase = "serving"
  /\ \A u \in pending : starter[u] # Handler
  /\ phase' = "dispatch"
  /\ toVisit' = listeners
  /\ began' = now
  /\ UNCHANGED <<threadVars, target, deadline, strikes, lastJoin, offline, now, interrupted>>

\* The next listener finds its thread dead.
VisitDead(t) ==
  /\ phase = "dispatch" /\ t \in toVisit /\ life[t] # "alive"
  /\ toVisit' = toVisit \ {t}
  /\ UNCHANGED <<phase, threadVars, target, deadline, strikes, lastJoin, timeVars, interrupted>>

\* The next listener finds its thread alive: interrupt(), join(Grace).
VisitAlive(t) ==
  /\ phase = "dispatch" /\ t \in toVisit /\ life[t] = "alive"
  /\ toVisit' = toVisit \ {t}
  /\ phase' = "grace"
  /\ target' = t
  /\ deadline' = now + Grace
  /\ strikes' = [strikes EXCEPT ![t] = 1]
  /\ interrupted' = [interrupted EXCEPT ![t] = TRUE]
  /\ UNCHANGED <<threadVars, lastJoin, timeVars>>

\* join() returns when the thread has died, and isAlive() is false after it.
JoinDead ==
  /\ phase \in {"grace", "again", "last"} /\ life[target] # "alive"
  /\ phase' = "dispatch"
  /\ UNCHANGED <<threadVars, listenerVars, timeVars, interrupted>>

\* A join of a living thread ends when its time is over, or when the handler
\* itself is interrupted: that clears the handler's flag.  join(0) has no time.
Forever == phase = "last" /\ lastJoin[target] = "forever"
Expired == phase \in {"grace", "last"} /\ now >= deadline /\ ~Forever

\* The first join goes on to the second interrupt, the second one to the end of
\* the listener ("Thread left running").
JoinGivesUp ==
  /\ phase \in {"grace", "last"} /\ life[target] = "alive"
  /\ \/ Expired /\ UNCHANGED interrupted
     \/ interrupted[Handler] /\ interrupted' = [interrupted EXCEPT ![Handler] = FALSE]
  /\ phase' = IF phase = "grace" THEN "again" ELSE "dispatch"
  /\ UNCHANGED <<threadVars, listenerVars, timeVars>>

Limit == IF offline THEN OfflineLimit ELSE OnlineLimit

\* Defect: the second join may take the whole limit again.
RemainingFull == Limit

\* Defect: no exception for a limit that has passed, and no join() that returns.
RemainingClamped == IF now > Limit THEN 0 ELSE Limit - now

\* getRemainingMillis
Remaining == Limit - now

\* Thread.join(millis): zero is no timeout, a negative one is refused.
JoinOf(millis) ==
  CASE millis > 0 -> "timed" [] millis = 0 -> "forever" [] OTHER -> "refused"

\* Defect: dispatch does not catch what a listener throws.
SecondStrikeUncaught ==
  /\ phase = "again" /\ life[target] = "alive"
  /\ interrupted' = [interrupted EXCEPT ![target] = TRUE]
  /\ strikes' = [strikes EXCEPT ![target] = 2]
  /\ lastJoin' = [lastJoin EXCEPT ![target] = JoinOf(Remaining)]
  /\ deadline' = now + Remaining
  /\ phase' = IF Remaining < 0 THEN "ended" ELSE "last"
  /\ UNCHANGED <<threadVars, toVisit, target, timeVars>>

\* After the first join: interrupt() again, join(getRemainingMillis()).  The
\* IllegalArgumentException of a refused join ends the listener, not the
\* dispatch.
SecondStrike ==
  /\ phase = "again" /\ life[target] = "alive"
  /\ interrupted' = [interrupted EXCEPT ![target] = TRUE]
  /\ strikes' = [strikes EXCEPT ![target] = 2]
  /\ lastJoin' = [lastJoin EXCEPT ![target] = JoinOf(Remaining)]
  /\ deadline' = now + Remaining
  /\ phase' = IF Remaining < 0 THEN "dispatch" ELSE "last"
  /\ UNCHANGED <<threadVars, toVisit, target, timeVars>>

EndDispatch ==
  /\ phase = "dispatch" /\ toVisit = {}
  /\ phase' = "ended"
  /\ UNCHANGED <<threadVars, listenerVars, timeVars, interrupted>>

-----------------------------------------------------------------------------
(* Interrupts from elsewhere, and time.                                    *)

Runs(t) == t # Handler => life[t] = "alive"

Interrupt(t) ==
  /\ Runs(t) /\ ~interrupted[t]
  /\ interrupted' = [interrupted EXCEPT ![t] = TRUE]
  /\ UNCHANGED <<phase, threadVars, listenerVars, timeVars>>

\* An interruptible operation of the application notices the flag.
TakeInterrupt(t) ==
  /\ Runs(t) /\ interrupted[t]
  /\ t = Handler => phase = "serving"
  /\ interrupted' = [interrupted EXCEPT ![t] = FALSE]
  /\ UNCHANGED <<phase, threadVars, listenerVars, timeVars>>

\* Time passes while the servlet runs and while the handler waits in a join.
Waiting ==
  /\ phase \in {"grace", "last"} /\ life[target] = "alive"
  /\ ~Expired /\ ~interrupted[Handler]

Tick ==
  /\ (phase = "serving" /\ now < ServeMax) \/ Waiting
  /\ Forever => now < deadline + ForeverMax
  /\ now' = now + 1
  /\ UNCHANGED <<phase, threadVars, listenerVars, offline, began, interrupted>>

-----------------------------------------------------------------------------

ApplicationStep ==
  \E t \in RequestThreads :
    \/ \E s \in Threads \cup {Outsider} : StartThread(s, t)
    \/ AddListener(t) \/ Die(t)

ListenerStep ==
  \/ \E t \in RequestThreads : VisitDead(t) \/ VisitAlive(t)
  \/ JoinDead \/ JoinGivesUp \/ SecondStrike \/ EndDispatch

Next ==
  \/ ApplicationStep
  \/ BeginDispatch
  \/ ListenerStep
  \/ \E t \in Threads : Interrupt(t) \/ TakeInterrupt(t)
  \/ Tick

Spec == Init /\ [][Next]_vars

\* The handler goes on and time passes.  Nothing is assumed of the threads:
\* they need not end, interrupted or not.
Fairness == WF_vars(ListenerStep) /\ WF_vars(Tick)

FairSpec == Spec /\ Fairness

-----------------------------------------------------------------------------
(* Correctness.                                                            *)

\* The type of every variable; and the listeners of the request belong to
\* threads that were started in its environment, the visited one among them.
TypeOK ==
  /\ phase \in Phases
  /\ life \in [RequestThreads -> Lives]
  /\ starter \in [RequestThreads -> Threads \cup {Outsider, NoThread}]
  /\ pending \in SUBSET RequestThreads
  /\ listeners \in SUBSET {t \in RequestThreads : starter[t] \in Threads}
  /\ toVisit \in SUBSET listeners
  /\ target \in RequestThreads \cup {NoThread}
  /\ phase \in {"grace", "again", "last"} => target \in listeners
  /\ deadline \in Int
  /\ strikes \in [RequestThreads -> 0..2]
  /\ lastJoin \in [RequestThreads -> Joins]
  /\ offline \in BOOLEAN
  /\ now \in Nat /\ began \in 0..now
  /\ interrupted \in [Threads -> BOOLEAN]

\* No thread that the servlet started itself is overlooked: when the request
\* has ended it is dead or has been interrupted twice, whatever the other
\* listeners ran into and however late the request was.
ServletThreadsStruck ==
  phase = "ended" =>
    \A t \in RequestThreads :
      starter[t] = Handler => life[t] = "dead" \/ strikes[t] = 2

\* The threads share one time limit: however many of them refuse to end, the
\* handler has dealt with them by the limit of the request, or when the
\* servlet returned if that was later, plus Grace for each.  A join without
\* timeout is the exception.
Later(a, b) == IF a > b THEN a ELSE b

SharedDeadline ==
  \/ phase = "serving"
  \/ \E t \in RequestThreads : lastJoin[t] = "forever"
  \/ now <= Later(began, Limit) + Grace * Cardinality(RequestThreads)

\* The dispatch comes to an end although threads refuse to, unless a second
\* join began exactly at the limit.
DispatchEnds == Dispatching ~> phase = "ended" \/ (Forever /\ deadline = Limit)

\* "Waiting up to ... ms for thread to complete": the handler is not kept in
\* a second join beyond the limit.
JoinBounded == phase = "last" => now <= Limit

=============================================================================
