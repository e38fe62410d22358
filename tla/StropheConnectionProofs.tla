------------------------ MODULE StropheConnectionProofs ------------------------
(***************************************************************************)
(* Theorems about StropheConnection, for every value of its constants.     *)
(***************************************************************************)
EXTENDS StropheConnection, FiniteSetTheorems, WellFoundedInduction, TLAPS

-----------------------------------------------------------------------------
(* The client's state.                                                     *)

Queues == UNION {[D -> Requests] : D \in SUBSET Nat}

HandlerSets == SUBSET {"auth", "message"}

ReadyStates == {"CONNECTING", "OPEN", "CLOSING"}

Deliveries == [Messages -> Nat]

Errors == 0..(ErrorLimit + 1)

Stages == 0..Rounds

Clients ==
  [rid : Nat, sid : BOOLEAN, data : BOOLEAN, requests : Queues, errors : Errors,
   connected : BOOLEAN, authenticated : BOOLEAN, disconnecting : BOOLEAN,
   timers : Nat, stage : Stages, handlers : HandlerSets, addHandlers : HandlerSets,
   readyState : ReadyStates, opened : Nat, closed : Nat, delivered : Deliveries,
   abandoned : BOOLEAN, threw : BOOLEAN]

\* The rids in use are behind the one that comes next.
Good(c) == c \in Clients /\ c.rid > 0 /\ DOMAIN c.requests \subseteq 1..(c.rid - 1)

\* Everything but the queue and the count of errors.
Frame(c, d) ==
  /\ d.rid = c.rid /\ d.sid = c.sid /\ d.data = c.data
  /\ d.connected = c.connected /\ d.authenticated = c.authenticated
  /\ d.disconnecting = c.disconnecting /\ d.timers = c.timers /\ d.stage = c.stage
  /\ d.handlers = c.handlers /\ d.addHandlers = c.addHandlers
  /\ d.readyState = c.readyState /\ d.opened = c.opened /\ d.closed = c.closed
  /\ d.delivered = c.delivered /\ d.abandoned = c.abandoned /\ d.threw = c.threw

\* A terminate that the disconnect timer overtakes.
Young(q) ==
  q.kind = "terminate" => ~q.old /\ q.sends <= 3 /\ (q.sends = 3 => q.xhr = "delayed")

\* Postings only.
Quiet(c, d) ==
  /\ Frame(c, d) /\ DOMAIN d.requests = DOMAIN c.requests
  /\ \A r \in DOMAIN c.requests :
       /\ d.requests[r].kind = c.requests[r].kind /\ d.requests[r].sid = c.requests[r].sid
       /\ Young(c.requests[r]) => Young(d.requests[r])

-----------------------------------------------------------------------------
(* Postings leave all but the queue's postings alone.                      *)

\* What a queue is.
LEMMA QueueType ==
  ASSUME NEW q \in Queues
  PROVE  DOMAIN q \in SUBSET Nat /\ q \in [DOMAIN q -> Requests]
BY DEF Queues

\* A function from rids to requests is a queue.
LEMMA QueueIntro ==
  ASSUME NEW D \in SUBSET Nat, NEW q \in [D -> Requests]
  PROVE  q \in Queues
BY DEF Queues

\* The fields of a client.
LEMMA ClientFields ==
  ASSUME NEW c \in Clients
  PROVE  /\ c.rid \in Nat /\ c.sid \in BOOLEAN /\ c.data \in BOOLEAN
         /\ c.requests \in Queues /\ c.errors \in Errors /\ c.connected \in BOOLEAN
         /\ c.authenticated \in BOOLEAN /\ c.disconnecting \in BOOLEAN
         /\ c.timers \in Nat /\ c.stage \in Stages
         /\ c.handlers \in HandlerSets /\ c.addHandlers \in HandlerSets
         /\ c.readyState \in ReadyStates
         /\ c.opened \in Nat /\ c.closed \in Nat /\ c.delivered \in Deliveries
         /\ c.abandoned \in BOOLEAN /\ c.threw \in BOOLEAN
BY DEF Clients

\* A field that gets a new value of its type.
LEMMA SetField ==
  ASSUME NEW c \in Clients
  PROVE  /\ \A v \in Nat : [c EXCEPT !.rid = v] \in Clients
         /\ \A v \in BOOLEAN : [c EXCEPT !.sid = v] \in Clients
         /\ \A v \in BOOLEAN : [c EXCEPT !.data = v] \in Clients
         /\ \A v \in Queues : [c EXCEPT !.requests = v] \in Clients
         /\ \A v \in Errors : [c EXCEPT !.errors = v] \in Clients
         /\ \A v \in BOOLEAN : [c EXCEPT !.connected = v] \in Clients
         /\ \A v \in BOOLEAN : [c EXCEPT !.authenticated = v] \in Clients
         /\ \A v \in BOOLEAN : [c EXCEPT !.disconnecting = v] \in Clients
         /\ \A v \in Nat : [c EXCEPT !.timers = v] \in Clients
         /\ \A v \in Stages : [c EXCEPT !.stage = v] \in Clients
         /\ \A v \in HandlerSets : [c EXCEPT !.handlers = v] \in Clients
         /\ \A v \in HandlerSets : [c EXCEPT !.addHandlers = v] \in Clients
         /\ \A v \in ReadyStates : [c EXCEPT !.readyState = v] \in Clients
         /\ \A v \in Nat : [c EXCEPT !.opened = v] \in Clients
         /\ \A v \in Nat : [c EXCEPT !.closed = v] \in Clients
         /\ \A v \in Deliveries : [c EXCEPT !.delivered = v] \in Clients
         /\ \A v \in BOOLEAN : [c EXCEPT !.abandoned = v] \in Clients
         /\ \A v \in BOOLEAN : [c EXCEPT !.threw = v] \in Clients
BY DEF Clients

\* A change of the queue.
LEMMA SetRequests ==
  ASSUME NEW c \in Clients, NEW q \in Queues
  PROVE  /\ [c EXCEPT !.requests = q] \in Clients
         /\ Frame(c, [c EXCEPT !.requests = q])
         /\ [c EXCEPT !.requests = q].requests = q
BY DEF Clients, Frame

\* One request of a queue changes.
LEMMA QueueExcept ==
  ASSUME NEW q \in Queues, NEW r, NEW e \in Requests
  PROVE  /\ [q EXCEPT ![r] = e] \in Queues
         /\ DOMAIN [q EXCEPT ![r] = e] = DOMAIN q
         /\ \A s \in DOMAIN q : [q EXCEPT ![r] = e][s] = IF s = r THEN e ELSE q[s]
BY DEF Queues

\* A posting as a change of the queue.
LEMMA PostQueue ==
  ASSUME NEW c \in Clients, NEW r
  PROVE  Post(c, r) = [c EXCEPT !.requests = [c.requests EXCEPT ![r] = Posted(c.requests[r])]]
BY DEF Clients, Post

\* A changed status.
LEMMA XhrQueue ==
  ASSUME NEW c \in Clients, NEW r, NEW x
  PROVE  [c EXCEPT !.requests[r].xhr = x] = [c EXCEPT !.requests = [c.requests EXCEPT ![r] = [c.requests[r] EXCEPT !.xhr = x]]]
BY DEF Clients

\* A set of naturals has a least element.
LEMMA Least ==
  ASSUME NEW S \in SUBSET Nat, S # {}
  PROVE  \E x \in S : \A y \in S : x <= y
<1>1. PICK x \in S : \A y \in S : <<y, x>> \notin OpToRel(<, Nat)
  BY NatLessThanWellFounded, WFMin
<1>2. \A y \in S : ~(y < x)
  BY <1>1 DEF OpToRel
<1> QED BY <1>2

\* The first two requests are requests.
LEMMA FirstSecond ==
  ASSUME NEW c, Good(c)
  PROVE  /\ IsFiniteSet(DOMAIN c.requests) /\ Pending(c) \in Nat
         /\ Pending(c) = 0 <=> DOMAIN c.requests = {}
         /\ Pending(c) > 0 => First(c) \in DOMAIN c.requests
         /\ Pending(c) > 1 => Second(c) \in DOMAIN c.requests \ {First(c)}
         /\ Pending(c) = 1 => \E r : DOMAIN c.requests = {r}
<1> DEFINE D == DOMAIN c.requests
<1>1. D \in SUBSET Nat /\ c.rid \in Nat /\ D \in SUBSET (1..(c.rid - 1))
  BY ClientFields, QueueType DEF Good
<1>2. IsFiniteSet(D)
  <2>1. c.rid - 1 \in Int
    BY <1>1
  <2>2. IsFiniteSet(1..(c.rid - 1))
    BY <2>1, FS_Interval
  <2> QED BY <1>1, <2>2, FS_Subset
<1>3. Pending(c) \in Nat /\ (Pending(c) = 0 <=> D = {}) /\ (Pending(c) = 1 => \E r : D = {r})
  BY <1>2, FS_CardinalityType, FS_EmptySet, FS_Singleton DEF Pending
<1>4. ASSUME Pending(c) > 0 PROVE First(c) \in D
  <2>1. D # {}
    BY <1>3, <1>4
  <2>2. \E r \in D : \A s \in D : r <= s
    BY <1>1, <2>1, Least
  <2> QED BY <2>2 DEF First
<1>5. ASSUME Pending(c) > 1 PROVE Second(c) \in D \ {First(c)}
  <2>1. ~(D \subseteq {First(c)})
    <3>1. Cardinality({First(c)}) = 1
      BY FS_Singleton
    <3>2. D \subseteq {First(c)} => D = {First(c)}
      BY <1>4, <1>5, <1>3
    <3> QED BY <3>1, <3>2, <1>5 DEF Pending
  <2>2. \E r \in D \ {First(c)} : \A s \in D \ {First(c)} : r <= s
    BY <1>1, <2>1, Least
  <2> QED BY <2>2 DEF Second
<1> QED BY <1>2, <1>3, <1>4, <1>5

\* A repetition keeps what the request is.
LEMMA PostedType ==
  ASSUME NEW q \in Requests
  PROVE  /\ Posted(q) \in Requests /\ Posted(q).kind = q.kind /\ Posted(q).sid = q.sid
         /\ Young(q) /\ (q.xhr \in {"unsent", "failed"} \/ q.old) => Young(Posted(q))
BY DEF Requests, Posted, Young

\* Quiet changes one after the other.
LEMMA QuietTransitive ==
  ASSUME NEW c, NEW d, NEW e, Quiet(c, d), Quiet(d, e)
  PROVE  Quiet(c, e)
BY DEF Quiet, Frame

\* Nothing is a quiet change.
LEMMA QuietReflexive ==
  ASSUME NEW c
  PROVE  Quiet(c, c)
BY DEF Quiet, Frame

\* A quiet change keeps the rids in order.
LEMMA QuietGood ==
  ASSUME NEW c, NEW d \in Clients, Good(c), Quiet(c, d)
  PROVE  Good(d)
BY DEF Good, Quiet, Frame

\* A posting, of a request that needs one, is quiet.
LEMMA PostQuiet ==
  ASSUME NEW c, Good(c), NEW r \in DOMAIN c.requests, NeedsPosting(c, r)
  PROVE  Good(Post(c, r)) /\ Quiet(c, Post(c, r))
<1> DEFINE e == Posted(c.requests[r])
           q == [c.requests EXCEPT ![r] = e]
<1>1. c \in Clients /\ c.requests \in Queues /\ c.requests[r] \in Requests
  BY ClientFields, QueueType DEF Good
<1>2. /\ e \in Requests /\ e.kind = c.requests[r].kind /\ e.sid = c.requests[r].sid
      /\ Young(c.requests[r]) => Young(e)
  BY <1>1, PostedType DEF NeedsPosting
<1> HIDE DEF e
<1>3. q \in Queues /\ DOMAIN q = DOMAIN c.requests
      /\ \A s \in DOMAIN c.requests : q[s] = IF s = r THEN e ELSE c.requests[s]
  BY <1>1, <1>2, QueueExcept
<1>4. Post(c, r) = [c EXCEPT !.requests = q]
  BY <1>1, PostQueue DEF e
<1> HIDE DEF q
<1>5. Post(c, r) \in Clients /\ Frame(c, Post(c, r)) /\ Post(c, r).requests = q
  BY <1>1, <1>3, <1>4, SetRequests
<1>6. Quiet(c, Post(c, r))
  BY <1>2, <1>3, <1>5 DEF Quiet
<1> QED BY <1>5, <1>6, QuietGood

-----------------------------------------------------------------------------
(* Requests that are added, and the end of the connection.                 *)

\* The fields that say what the page has seen, and the handlers.
SamePage(c, d) ==
  /\ d.readyState = c.readyState /\ d.opened = c.opened /\ d.closed = c.closed
  /\ d.delivered = c.delivered /\ d.abandoned = c.abandoned /\ d.threw = c.threw
  /\ d.stage = c.stage /\ d.handlers = c.handlers /\ d.addHandlers = c.addHandlers

\* The fields that say what the connection is.
SameSession(c, d) ==
  /\ d.sid = c.sid /\ d.data = c.data /\ d.errors = c.errors
  /\ d.connected = c.connected /\ d.authenticated = c.authenticated
  /\ d.disconnecting = c.disconnecting /\ d.timers = c.timers

\* d has the requests of c and new ones.
Added(c, d, kind) ==
  /\ d.rid = c.rid + 1 /\ DOMAIN d.requests = DOMAIN c.requests \cup {c.rid}
  /\ \A r \in DOMAIN c.requests : d.requests[r] = c.requests[r]
  /\ d.requests[c.rid] =
       [kind |-> kind, sid |-> c.sid, sends |-> 0, xhr |-> "unsent", old |-> FALSE]

\* What Push does.
LEMMA PushFacts ==
  ASSUME NEW c, Good(c), NEW kind \in {"connect", "data", "terminate"}
  PROVE  /\ Good(Push(c, kind)) /\ Added(c, Push(c, kind), kind)
         /\ SamePage(c, Push(c, kind)) /\ SameSession(c, Push(c, kind))
         /\ c.rid \notin DOMAIN c.requests
<1> DEFINE new == [kind |-> kind, sid |-> c.sid, sends |-> 0, xhr |-> "unsent", old |-> FALSE]
           D == DOMAIN c.requests \cup {c.rid}
           q == [r \in D |-> IF r = c.rid THEN new ELSE c.requests[r]]
<1>1. /\ c \in Clients /\ c.rid \in Nat /\ c.sid \in BOOLEAN
      /\ DOMAIN c.requests \in SUBSET Nat /\ c.requests \in [DOMAIN c.requests -> Requests]
      /\ DOMAIN c.requests \subseteq 1..(c.rid - 1)
  BY ClientFields, QueueType DEF Good
<1>2. new \in Requests
  BY <1>1 DEF Requests
<1>3. c.rid \notin DOMAIN c.requests
  BY <1>1
<1> HIDE DEF new
<1>4. D \in SUBSET Nat /\ q \in [D -> Requests]
  BY <1>1, <1>2
<1>5. q \in Queues
  BY <1>4, QueueIntro
<1>6. DOMAIN q = D /\ q[c.rid] = new /\ \A r \in DOMAIN c.requests : q[r] = c.requests[r]
  BY <1>3
<1>7. Push(c, kind) = [c EXCEPT !.requests = q, !.rid = c.rid + 1]
  BY <1>1 DEF Push, new
<1> HIDE DEF q
<1>8. /\ Push(c, kind) \in Clients /\ Push(c, kind).requests = q /\ Push(c, kind).rid = c.rid + 1
      /\ SamePage(c, Push(c, kind)) /\ SameSession(c, Push(c, kind))
  <2> DEFINE p == [c EXCEPT !.requests = q, !.rid = c.rid + 1]
  <2>1. p \in Clients
    <3> DEFINE e == [c EXCEPT !.requests = q]
    <3>1. e \in Clients
      BY <1>1, <1>5, SetField
    <3>2. c.rid + 1 \in Nat
      BY <1>1
    <3>3. p = [e EXCEPT !.rid = c.rid + 1]
      OBVIOUS
    <3> HIDE DEF e, p
    <3> QED BY <3>1, <3>2, <3>3, SetField
  <2>2. p.requests = q /\ p.rid = c.rid + 1
    BY <1>1 DEF Clients
  <2>3. SamePage(c, p)
    BY <1>1 DEF Clients, SamePage
  <2>4. SameSession(c, p)
    BY <1>1 DEF Clients, SameSession
  <2> QED BY <1>7, <2>1, <2>2, <2>3, <2>4
<1>9. Good(Push(c, kind))
  <2>1. D \subseteq 1..((c.rid + 1) - 1) /\ c.rid + 1 > 0
    BY <1>1 DEF Good
  <2> QED BY <1>6, <1>8, <2>1 DEF Good
<1> QED BY <1>3, <1>6, <1>8, <1>9 DEF Added, new

\* What Ending does.
LEMMA EndingFacts ==
  ASSUME NEW c, Good(c)
  PROVE  LET e == Ending(c)
         IN  /\ Good(e) /\ SamePage(c, e)
             /\ ~e.authenticated /\ ~e.disconnecting /\ ~e.sid
             /\ e.rid = c.rid + Window /\ e.requests = c.requests /\ e.data = c.data
             /\ e.errors = c.errors /\ e.connected = c.connected /\ e.timers = c.timers
<1> DEFINE e1 == [c EXCEPT !.authenticated = FALSE]
           e2 == [e1 EXCEPT !.disconnecting = FALSE]
           e3 == [e2 EXCEPT !.sid = FALSE]
           e == [e3 EXCEPT !.rid = c.rid + Window]
<1>1. c \in Clients /\ c.rid \in Nat /\ Window \in Nat /\ Window > 0
  BY ClientFields, LimitAssumption DEF Good
<1>2. Ending(c) = e
  BY <1>1 DEF Ending, Clients
<1>3. e \in Clients
  <2>1. e1 \in Clients
    BY <1>1, SetField
  <2> HIDE DEF e1
  <2>2. e2 \in Clients
    BY <2>1, SetField
  <2> HIDE DEF e2
  <2>3. e3 \in Clients
    BY <2>2, SetField
  <2> HIDE DEF e3
  <2> QED BY <1>1, <2>3, SetField
<1>4. SamePage(c, e)
  BY <1>1 DEF Clients, SamePage
<1>5. /\ ~e.authenticated /\ ~e.disconnecting /\ ~e.sid
      /\ e.rid = c.rid + Window /\ e.requests = c.requests /\ e.data = c.data
      /\ e.errors = c.errors /\ e.connected = c.connected /\ e.timers = c.timers
  BY <1>1 DEF Clients
<1>6. Good(e)
  BY <1>1, <1>3, <1>5 DEF Good
<1> QED BY <1>2, <1>4, <1>5, <1>6

\* What the callback for DISCONNECTED and the rest of _doDisconnect do.
LEMMA EndedFacts ==
  ASSUME NEW c, Good(c)
  PROVE  LET e == Ended(c)
         IN  /\ Good(e) /\ e.rid = c.rid /\ e.requests = c.requests /\ ~e.connected
             /\ e.handlers = {} /\ e.addHandlers = {} /\ e.timers = 0
             /\ e.sid = c.sid /\ e.data = c.data /\ e.errors = c.errors
             /\ e.authenticated = c.authenticated /\ e.disconnecting = c.disconnecting
             /\ e.readyState = c.readyState /\ e.opened = c.opened /\ e.closed = c.closed
             /\ e.delivered = c.delivered /\ e.abandoned = c.abandoned /\ e.threw = c.threw
             /\ e.stage = c.stage
<1> DEFINE e1 == [c EXCEPT !.connected = FALSE]
           e2 == [e1 EXCEPT !.handlers = {}]
           e3 == [e2 EXCEPT !.addHandlers = {}]
           e == [e3 EXCEPT !.timers = 0]
<1>1. c \in Clients
  BY DEF Good
<1>2. Ended(c) = e
  BY <1>1 DEF Ended, Clients
<1>3. e \in Clients
  <2>0. {} \in HandlerSets
    BY DEF HandlerSets
  <2>1. e1 \in Clients
    BY <1>1, SetField
  <2> HIDE DEF e1
  <2>2. e2 \in Clients
    BY <2>0, <2>1, SetField
  <2> HIDE DEF e2
  <2>3. e3 \in Clients
    BY <2>0, <2>2, SetField
  <2> HIDE DEF e3
  <2> QED BY <1>1, <2>3, SetField
<1>4. /\ e.rid = c.rid /\ e.requests = c.requests /\ ~e.connected
      /\ e.handlers = {} /\ e.addHandlers = {} /\ e.timers = 0
      /\ e.sid = c.sid /\ e.data = c.data /\ e.errors = c.errors
  BY <1>1 DEF Clients
<1>5. /\ e.authenticated = c.authenticated /\ e.disconnecting = c.disconnecting
      /\ e.readyState = c.readyState /\ e.opened = c.opened /\ e.closed = c.closed
      /\ e.delivered = c.delivered /\ e.abandoned = c.abandoned /\ e.threw = c.threw
      /\ e.stage = c.stage
  BY <1>1 DEF Clients
<1>6. Good(e)
  BY <1>1, <1>3, <1>4 DEF Good
<1> QED BY <1>2, <1>4, <1>5, <1>6

\* One field changes.
LEMMA ClosingFacts ==
  ASSUME NEW c, Good(c)
  PROVE  LET d == Closing(c)
         IN  /\ Good(d) /\ SameSession(c, d) /\ d.rid = c.rid /\ d.requests = c.requests
             /\ d.readyState = "CLOSING" /\ d.opened = c.opened /\ d.closed = c.closed
             /\ d.delivered = c.delivered /\ d.abandoned = c.abandoned /\ d.threw = c.threw
             /\ d.stage = c.stage /\ d.handlers = c.handlers /\ d.addHandlers = c.addHandlers
<1>1. c \in Clients /\ "CLOSING" \in ReadyStates
  BY DEF Good, ReadyStates
<1>2. Closing(c) \in Clients
  BY <1>1, SetField DEF Closing
<1>3. /\ Closing(c).rid = c.rid /\ Closing(c).requests = c.requests
      /\ SameSession(c, Closing(c))
  BY <1>1 DEF Clients, Closing, SameSession
<1>4. /\ Closing(c).readyState = "CLOSING" /\ Closing(c).opened = c.opened
      /\ Closing(c).closed = c.closed /\ Closing(c).delivered = c.delivered
      /\ Closing(c).abandoned = c.abandoned /\ Closing(c).threw = c.threw
      /\ Closing(c).stage = c.stage /\ Closing(c).handlers = c.handlers
      /\ Closing(c).addHandlers = c.addHandlers
  BY <1>1 DEF Clients, Closing
<1> QED BY <1>2, <1>3, <1>4 DEF Good

\* One field changes.
LEMMA OnCloseFacts ==
  ASSUME NEW c, Good(c)
  PROVE  LET d == OnClose(c)
         IN  /\ Good(d) /\ SameSession(c, d) /\ d.rid = c.rid /\ d.requests = c.requests
             /\ d.readyState = c.readyState /\ d.opened = c.opened /\ d.closed = c.closed + 1
             /\ d.delivered = c.delivered /\ d.abandoned = c.abandoned /\ d.threw = c.threw
             /\ d.stage = c.stage /\ d.handlers = c.handlers /\ d.addHandlers = c.addHandlers
<1>1. c \in Clients /\ c.closed + 1 \in Nat
  BY ClientFields DEF Good
<1>2. OnClose(c) \in Clients
  BY <1>1, SetField DEF OnClose
<1>3. /\ OnClose(c).rid = c.rid /\ OnClose(c).requests = c.requests
      /\ SameSession(c, OnClose(c))
  BY <1>1 DEF Clients, OnClose, SameSession
<1>4. /\ OnClose(c).readyState = c.readyState /\ OnClose(c).opened = c.opened
      /\ OnClose(c).closed = c.closed + 1 /\ OnClose(c).delivered = c.delivered
      /\ OnClose(c).abandoned = c.abandoned /\ OnClose(c).threw = c.threw
      /\ OnClose(c).stage = c.stage /\ OnClose(c).handlers = c.handlers
      /\ OnClose(c).addHandlers = c.addHandlers
  BY <1>1 DEF Clients, OnClose
<1> QED BY <1>2, <1>3, <1>4 DEF Good

\* The terminate is in the queue, not yet posted.
LEMMA SendTerminateFacts ==
  ASSUME NEW c, Good(c)
  PROVE  LET d == SendTerminate(c)
         IN  /\ Good(d) /\ Added(c, d, "terminate") /\ SamePage(c, d) /\ d.disconnecting
             /\ d.sid = c.sid /\ d.data = c.data /\ d.errors = c.errors
             /\ d.connected = c.connected /\ d.authenticated = c.authenticated
             /\ d.timers = c.timers /\ c.rid \notin DOMAIN c.requests
             /\ NeedsPosting(d, c.rid) /\ c.rid \in DOMAIN d.requests
<1> DEFINE b == [c EXCEPT !.disconnecting = TRUE]
<1>1. c \in Clients
  BY DEF Good
<1>2. b \in Clients
  BY <1>1, SetField
<1>3. /\ b.rid = c.rid /\ b.requests = c.requests /\ b.disconnecting
      /\ b.sid = c.sid /\ b.data = c.data /\ b.errors = c.errors
      /\ b.connected = c.connected /\ b.authenticated = c.authenticated
      /\ b.timers = c.timers /\ SamePage(c, b)
  BY <1>1 DEF Clients, SamePage
<1>4. SendTerminate(c) = Push(b, "terminate")
  BY DEF SendTerminate
<1> HIDE DEF b
<1>5. Good(b)
  BY <1>2, <1>3 DEF Good
<1>6. /\ Good(Push(b, "terminate")) /\ Added(b, Push(b, "terminate"), "terminate")
      /\ SamePage(b, Push(b, "terminate")) /\ SameSession(b, Push(b, "terminate"))
      /\ b.rid \notin DOMAIN b.requests
  BY <1>5, PushFacts
<1>7. Added(c, SendTerminate(c), "terminate")
  BY <1>3, <1>4, <1>6 DEF Added
<1>8. SamePage(c, SendTerminate(c))
  BY <1>3, <1>4, <1>6 DEF SamePage
<1>9. NeedsPosting(SendTerminate(c), c.rid) /\ c.rid \in DOMAIN SendTerminate(c).requests
  BY <1>7 DEF NeedsPosting, Added
<1> QED BY <1>3, <1>4, <1>6, <1>7, <1>8, <1>9 DEF SameSession

\* A queue that is given up.
LEMMA ClearFacts ==
  ASSUME NEW c, Good(c)
  PROVE  LET d == [c EXCEPT !.requests = <<>>]
         IN  Good(d) /\ Frame(c, d) /\ DOMAIN d.requests = {}
<1>1. c \in Clients
  BY DEF Good
<1>2. DOMAIN <<>> = {}
  OBVIOUS
<1>3. <<>> \in [{} -> Requests]
  OBVIOUS
<1>4. <<>> \in Queues
  BY <1>3, QueueIntro
<1>5. /\ [c EXCEPT !.requests = <<>>] \in Clients
      /\ Frame(c, [c EXCEPT !.requests = <<>>])
      /\ [c EXCEPT !.requests = <<>>].requests = <<>>
  BY <1>1, <1>4, SetRequests
<1> QED BY <1>2, <1>5 DEF Good, Frame

-----------------------------------------------------------------------------
(* The end of the connection: the page is told once, and no request for    *)
(* the mechanisms is left.                                                 *)

Finished(c, d) ==
  /\ Good(d) /\ d.rid >= c.rid
  /\ d.closed = IF c.connected THEN c.closed + 1 ELSE c.closed
  /\ ~d.connected /\ ~d.authenticated /\ ~d.sid /\ d.handlers = {} /\ d.addHandlers = {}
  /\ IF c.connected THEN d.readyState = "CLOSING" ELSE d.readyState \in {c.readyState, "CLOSING"}
  /\ d.opened = c.opened /\ d.delivered = c.delivered /\ d.stage = c.stage /\ d.threw = c.threw
  /\ \A r \in DOMAIN d.requests :
       /\ d.requests[r].kind # "connect"
       /\ r >= c.rid \/ (r \in DOMAIN c.requests /\ d.requests[r].kind = c.requests[r].kind)

\* What the terminate of the callback for DISCONNECTED and the rest of
\* _doDisconnect leave behind.
LEMMA LastTerminate ==
  ASSUME NEW c, Good(c), NEW e, Good(e), NEW y, Good(y), c.connected, e.rid >= c.rid,
         ~y.authenticated, ~y.sid, y.closed = c.closed, y.opened = c.opened,
         y.readyState = "CLOSING",
         y.delivered = c.delivered, y.stage = c.stage, y.threw = c.threw,
         y.rid > e.rid, DOMAIN y.requests = {e.rid},
         y.requests[e.rid].kind = "terminate", ~y.requests[e.rid].sid
  PROVE  Finished(c, Ended(OnClose(y)))
<1> DEFINE o == OnClose(y)
           d == Ended(o)
<1>1. /\ Good(o) /\ SameSession(y, o) /\ o.rid = y.rid /\ o.requests = y.requests
      /\ o.readyState = y.readyState /\ o.opened = y.opened /\ o.closed = y.closed + 1
      /\ o.delivered = y.delivered /\ o.threw = y.threw /\ o.stage = y.stage
  BY OnCloseFacts
<1> HIDE DEF o
<1>2. /\ Good(d) /\ d.rid = o.rid /\ d.requests = o.requests /\ ~d.connected
      /\ d.handlers = {} /\ d.addHandlers = {} /\ d.sid = o.sid
      /\ d.authenticated = o.authenticated /\ d.readyState = o.readyState
      /\ d.opened = o.opened /\ d.closed = o.closed /\ d.delivered = o.delivered
      /\ d.threw = o.threw /\ d.stage = o.stage
  BY <1>1, EndedFacts
<1> HIDE DEF d
<1>3. c.rid \in Nat /\ e.rid \in Nat /\ y.rid \in Nat
  BY ClientFields DEF Good
<1>4. Finished(c, d)
  BY <1>1, <1>2, <1>3 DEF Finished, SameSession
<1> QED BY <1>4 DEF d, o

\* _onDisconnectTimeout ends the connection.
LEMMA TimeoutFinishes ==
  ASSUME NEW c, Good(c)
  PROVE  Finished(c, OnDisconnectTimeout(c))
<1> DEFINE b == [c EXCEPT !.requests = <<>>]
           e == Ending(b)
           x == Closing(e)
           z == SendTerminate(x)
           y == Post(z, e.rid)
<1>0. c.connected \in BOOLEAN /\ c.rid \in Nat /\ Window \in Nat
  BY ClientFields, LimitAssumption DEF Good
<1>1. Good(b) /\ Frame(c, b) /\ DOMAIN b.requests = {}
  BY ClearFacts
<1> HIDE DEF b
<1>2. /\ Good(e) /\ SamePage(b, e)
      /\ ~e.authenticated /\ ~e.disconnecting /\ ~e.sid
      /\ e.rid = b.rid + Window /\ e.requests = b.requests
      /\ e.connected = b.connected
  BY <1>1, EndingFacts
<1>3. OnDisconnectTimeout(c) = Ended(IF c.connected THEN OnClose(y) ELSE e)
  BY DEF OnDisconnectTimeout, b
<1> HIDE DEF e
<1>4. CASE ~c.connected
  <2> DEFINE d == Ended(e)
  <2>1. /\ Good(d) /\ d.rid = e.rid /\ d.requests = e.requests /\ ~d.connected
        /\ d.handlers = {} /\ d.addHandlers = {} /\ d.sid = e.sid
        /\ d.authenticated = e.authenticated /\ d.readyState = e.readyState
        /\ d.opened = e.opened /\ d.closed = e.closed /\ d.delivered = e.delivered
        /\ d.threw = e.threw /\ d.stage = e.stage
    BY <1>2, EndedFacts
  <2> HIDE DEF d
  <2>2. Finished(c, d)
    BY <1>0, <1>1, <1>2, <1>4, <2>1 DEF Finished, Frame, SamePage
  <2> QED BY <1>3, <1>4, <2>2 DEF d
<1>5. CASE c.connected
  <2>1. /\ Good(x) /\ SameSession(e, x) /\ x.rid = e.rid /\ x.requests = e.requests
        /\ x.readyState = "CLOSING" /\ x.opened = e.opened /\ x.closed = e.closed
        /\ x.delivered = e.delivered /\ x.threw = e.threw
        /\ x.stage = e.stage
    BY <1>2, ClosingFacts
  <2> HIDE DEF x
  <2>2. /\ Good(z) /\ Added(x, z, "terminate") /\ SamePage(x, z)
        /\ z.sid = x.sid /\ z.authenticated = x.authenticated
        /\ NeedsPosting(z, x.rid) /\ x.rid \in DOMAIN z.requests
    BY <2>1, SendTerminateFacts
  <2> HIDE DEF z
  <2>3. Good(y) /\ Quiet(z, y)
    BY <2>1, <2>2, PostQuiet
  <2> HIDE DEF y
  <2>4. /\ ~y.authenticated /\ ~y.sid
        /\ y.closed = c.closed /\ y.opened = c.opened /\ y.readyState = "CLOSING"
        /\ y.delivered = c.delivered /\ y.stage = c.stage /\ y.threw = c.threw
    BY <1>1, <1>2, <2>1, <2>2, <2>3 DEF Quiet, Frame, SamePage, SameSession
  <2>5. /\ y.rid = e.rid + 1 /\ DOMAIN y.requests = {e.rid}
        /\ y.requests[e.rid].kind = "terminate" /\ ~y.requests[e.rid].sid
    BY <1>1, <1>2, <2>1, <2>2, <2>3 DEF Quiet, Frame, Added, SameSession
  <2>6. e.rid >= c.rid /\ e.rid \in Nat /\ y.rid > e.rid
    BY <1>0, <1>1, <1>2, <2>5, ClientFields DEF Frame, Good
  <2>7. Finished(c, Ended(OnClose(y)))
    BY <1>2, <1>5, <2>3, <2>4, <2>5, <2>6, LastTerminate
  <2> QED BY <1>3, <1>5, <2>7
<1> QED BY <1>0, <1>4, <1>5

\* The end of the connection, before and after other changes.
LEMMA FinishedCompose ==
  /\ \A c, d, e : Quiet(c, d) /\ Finished(d, e) => Finished(c, e)
  /\ \A c, d, e : Finished(c, d) /\ Quiet(d, e) /\ Good(e) => Finished(c, e)
  /\ \A c, d, e : Good(c) /\ Finished(c, d) /\ Finished(d, e) => Finished(c, e)
<1>1. ASSUME NEW c, NEW d, NEW e, Quiet(c, d), Finished(d, e) PROVE Finished(c, e)
  BY <1>1 DEF Quiet, Frame, Finished
<1>2. ASSUME NEW c, NEW d, NEW e, Finished(c, d), Quiet(d, e), Good(e) PROVE Finished(c, e)
  BY <1>2 DEF Quiet, Frame, Finished
<1>3. ASSUME NEW c, NEW d, NEW e, Good(c), Finished(c, d), Finished(d, e) PROVE Finished(c, e)
  <2>1. c.rid \in Nat /\ d.rid \in Nat /\ e.rid \in Nat /\ DOMAIN e.requests \in SUBSET Nat
    BY <1>3, ClientFields, QueueType DEF Finished, Good
  <2> QED BY <1>3, <2>1 DEF Finished
<1> QED BY <1>1, <1>2, <1>3

-----------------------------------------------------------------------------
(* _processRequest and _throttledRequestHandler: postings, or the end.     *)

OnlyTerminates(c) == \A r \in DOMAIN c.requests : c.requests[r].kind = "terminate"

AllYoung(c) == \A r \in DOMAIN c.requests : Young(c.requests[r])

QuietOrFinished(c, d) == Good(d) /\ (Quiet(c, d) \/ Finished(c, d))

\* One request is processed.
LEMMA ProcessRequestFacts ==
  ASSUME NEW c, Good(c), NEW r \in DOMAIN c.requests
  PROVE  /\ QuietOrFinished(c, ProcessRequest(c, r))
         /\ OnlyTerminates(c) /\ AllYoung(c) => Quiet(c, ProcessRequest(c, r))
<1>1. c.requests[r] \in Requests
  BY ClientFields, QueueType DEF Good
<1>2. OnlyTerminates(c) /\ AllYoung(c) => ~(c.requests[r].sends > SendLimit)
  BY <1>1, LimitAssumption DEF OnlyTerminates, AllYoung, Young, Requests
<1>3. CASE c.requests[r].sends > SendLimit
  <2>1. ProcessRequest(c, r) = OnDisconnectTimeout(c)
    BY <1>3 DEF ProcessRequest
  <2>2. Finished(c, ProcessRequest(c, r))
    BY <2>1, TimeoutFinishes
  <2> QED BY <1>2, <1>3, <2>2 DEF QuietOrFinished, Finished
<1>4. CASE ~(c.requests[r].sends > SendLimit)
  <2>1. ProcessRequest(c, r) = IF NeedsPosting(c, r) THEN Post(c, r) ELSE c
    BY <1>4 DEF ProcessRequest
  <2>2. Good(ProcessRequest(c, r)) /\ Quiet(c, ProcessRequest(c, r))
    BY <2>1, PostQuiet, QuietReflexive
  <2> QED BY <2>2 DEF QuietOrFinished
<1> QED BY <1>3, <1>4

\* A quiet change keeps the kinds.
LEMMA QuietKinds ==
  ASSUME NEW c, NEW d, Quiet(c, d)
  PROVE  /\ OnlyTerminates(c) <=> OnlyTerminates(d)
         /\ AllYoung(c) => AllYoung(d)
BY DEF Quiet, OnlyTerminates, AllYoung

\* One change after the other.
LEMMA QuietOrFinishedTransitive ==
  ASSUME NEW c, NEW d, NEW e, Good(c), QuietOrFinished(c, d), QuietOrFinished(d, e)
  PROVE  QuietOrFinished(c, e)
BY FinishedCompose, QuietTransitive DEF QuietOrFinished

\* The first two requests are processed.
LEMMA ThrottledFacts ==
  ASSUME NEW c, Good(c)
  PROVE  /\ QuietOrFinished(c, ProcessFirst(c))
         /\ QuietOrFinished(c, ThrottledRequestHandler(c))
         /\ OnlyTerminates(c) /\ AllYoung(c) =>
              Quiet(c, ProcessFirst(c)) /\ Quiet(c, ThrottledRequestHandler(c))
<1> DEFINE d == ProcessFirst(c)
           e == ProcessSecond(d)
<1>1. /\ QuietOrFinished(c, d)
      /\ OnlyTerminates(c) /\ AllYoung(c) => Quiet(c, d)
  <2>1. CASE Pending(c) > 0
    BY <2>1, FirstSecond, ProcessRequestFacts DEF ProcessFirst
  <2>2. CASE ~(Pending(c) > 0)
    BY <2>2, QuietReflexive DEF ProcessFirst, QuietOrFinished
  <2> QED BY <2>1, <2>2
<1> HIDE DEF d
<1>2. Good(d)
  BY <1>1 DEF QuietOrFinished
<1>3. /\ QuietOrFinished(d, e)
      /\ OnlyTerminates(d) /\ AllYoung(d) => Quiet(d, e)
  <2>1. CASE Pending(d) > 1 /\ Second(d) - First(d) < Window
    <3>1. Second(d) \in DOMAIN d.requests
      BY <1>2, <2>1, FirstSecond
    <3> QED BY <1>2, <2>1, <3>1, ProcessRequestFacts DEF ProcessSecond
  <2>2. CASE ~(Pending(d) > 1 /\ Second(d) - First(d) < Window)
    BY <1>2, <2>2, QuietReflexive DEF ProcessSecond, QuietOrFinished
  <2> QED BY <2>1, <2>2
<1>4. ThrottledRequestHandler(c) = e
  BY DEF ThrottledRequestHandler, d
<1> HIDE DEF e
<1>5. QuietOrFinished(c, e)
  BY <1>1, <1>3, QuietOrFinishedTransitive
<1>6. OnlyTerminates(c) /\ AllYoung(c) => Quiet(c, e)
  BY <1>1, <1>3, QuietKinds, QuietTransitive
<1> QED BY <1>1, <1>4, <1>5, <1>6 DEF d

-----------------------------------------------------------------------------
(* What holds of the client after every event, and between the calls of    *)
(* one.                                                                    *)

HasConnect(c) == \E r \in DOMAIN c.requests : c.requests[r].kind = "connect"

Waiting(c) == c.handlers \cup c.addHandlers

\* A connection ends once, and the page sees OPEN only while it lasts.
Life(c) ==
  /\ c.closed \in {0, 1} /\ c.opened \in {0, 1}
  /\ c.connected => c.closed = 0
  /\ ~c.connected => ~c.authenticated /\ ~c.sid
  /\ c.authenticated => c.opened = 1
  /\ c.readyState = "OPEN" => c.authenticated
  /\ c.opened = 1 => c.stage = Rounds
  /\ "auth" \in Waiting(c) => c.stage < Rounds /\ c.connected

\* A request for the mechanisms comes before everything else.
Fresh(c) ==
  HasConnect(c) =>
    /\ c.stage = 0 /\ c.opened = 0 /\ c.closed = 0
    /\ "auth" \notin Waiting(c) /\ ~c.data
    /\ ~c.connected =>
         /\ ~c.disconnecting
         /\ \A r, s \in DOMAIN c.requests : r = s

\* One request at a time, besides terminates, which the timer overtakes.
Queue(c) ==
  c.connected =>
    /\ \A r, s \in DOMAIN c.requests :
         c.requests[r].kind # "terminate" /\ c.requests[s].kind # "terminate" => r = s
    /\ c.data => OnlyTerminates(c)
    /\ ~c.disconnecting => \A r \in DOMAIN c.requests : c.requests[r].kind # "terminate"
    /\ c.disconnecting => c.timers > 0 /\ AllYoung(c)

ClientInv(c) == Good(c) /\ Life(c) /\ Fresh(c) /\ Queue(c)

\* Postings keep the invariant.
LEMMA QuietInv ==
  ASSUME NEW c, ClientInv(c), NEW d, Good(d), Quiet(c, d)
  PROVE  ClientInv(d)
<1>1. Life(d)
  BY DEF ClientInv, Life, Quiet, Frame, Waiting
<1>2. HasConnect(d) <=> HasConnect(c)
  BY DEF Quiet, HasConnect
<1>3. Fresh(d)
  BY <1>2 DEF ClientInv, Fresh, Quiet, Frame, Waiting
<1>4. Queue(d)
  <2>1. Queue(c) /\ d.connected = c.connected /\ d.data = c.data
        /\ d.disconnecting = c.disconnecting /\ d.timers = c.timers
        /\ DOMAIN d.requests = DOMAIN c.requests
        /\ \A r \in DOMAIN c.requests : d.requests[r].kind = c.requests[r].kind
    BY DEF ClientInv, Quiet, Frame
  <2>2. (OnlyTerminates(c) <=> OnlyTerminates(d)) /\ (AllYoung(c) => AllYoung(d))
    BY QuietKinds
  <2> QED BY <2>1, <2>2 DEF Queue
<1> QED BY <1>1, <1>3, <1>4 DEF ClientInv

\* So does the end of the connection.
LEMMA FinishedInv ==
  ASSUME NEW c, Life(c), c.connected \in BOOLEAN, NEW d, Finished(c, d)
  PROVE  ClientInv(d)
<1>1. Life(d)
  BY DEF Life, Finished, Waiting
<1>2. ~HasConnect(d)
  BY DEF Finished, HasConnect
<1> QED BY <1>1, <1>2 DEF ClientInv, Fresh, Queue, Finished

\* Whatever the handling of the queue ends in.
LEMMA QuietOrFinishedInv ==
  ASSUME NEW c, ClientInv(c), NEW d, QuietOrFinished(c, d)
  PROVE  ClientInv(d)
<1>1. c.connected \in BOOLEAN
  BY ClientFields DEF ClientInv, Good
<1> QED BY <1>1, QuietInv, FinishedInv DEF QuietOrFinished, ClientInv

\* A request leaves the queue.
LEMMA WithoutFacts ==
  ASSUME NEW c, Good(c), NEW r
  PROVE  LET d == Without(c, r)
         IN  /\ Good(d) /\ Frame(c, d) /\ DOMAIN d.requests = DOMAIN c.requests \ {r}
             /\ \A s \in DOMAIN d.requests : d.requests[s] = c.requests[s]
<1> DEFINE q == Restrict(c.requests, DOMAIN c.requests \ {r})
<1>1. c \in Clients /\ DOMAIN c.requests \in SUBSET Nat /\ c.requests \in [DOMAIN c.requests -> Requests]
  BY ClientFields, QueueType DEF Good
<1>2. /\ DOMAIN q = DOMAIN c.requests \ {r}
      /\ \A s \in DOMAIN q : q[s] = c.requests[s]
      /\ q \in [DOMAIN c.requests \ {r} -> Requests]
  BY <1>1 DEF Restrict
<1>3. q \in Queues
  BY <1>1, <1>2, QueueIntro
<1>4. Without(c, r) = [c EXCEPT !.requests = q]
  BY <1>1 DEF Without, Clients
<1> HIDE DEF q
<1>5. /\ Without(c, r) \in Clients /\ Frame(c, Without(c, r))
      /\ Without(c, r).requests = q
  BY <1>1, <1>3, <1>4, SetRequests
<1> QED BY <1>2, <1>5 DEF Good, Frame

\* Removal keeps the invariant, and so does what _removeRequest posts next.
LEMMA RemoveInv ==
  ASSUME NEW c, ClientInv(c), NEW r
  PROVE  /\ ClientInv(Without(c, r)) /\ ClientInv(RemoveRequest(c, r))
         /\ QuietOrFinished(Without(c, r), RemoveRequest(c, r))
<1> DEFINE d == Without(c, r)
<1>1. /\ Good(d) /\ Frame(c, d) /\ DOMAIN d.requests = DOMAIN c.requests \ {r}
      /\ \A s \in DOMAIN d.requests : d.requests[s] = c.requests[s]
  BY WithoutFacts DEF ClientInv
<1>2. RemoveRequest(c, r) = ThrottledRequestHandler(d)
  BY DEF RemoveRequest
<1> HIDE DEF d
<1>3. Life(d)
  BY <1>1 DEF ClientInv, Life, Frame, Waiting
<1>4. Fresh(d)
  BY <1>1 DEF ClientInv, Fresh, Frame, Waiting, HasConnect
<1>5. Queue(d)
  BY <1>1 DEF ClientInv, Queue, Frame, OnlyTerminates, AllYoung
<1>6. ClientInv(d)
  BY <1>1, <1>3, <1>4, <1>5 DEF ClientInv
<1>7. QuietOrFinished(d, ThrottledRequestHandler(d))
  BY <1>1, ThrottledFacts
<1> QED BY <1>2, <1>6, <1>7, QuietOrFinishedInv DEF d

-----------------------------------------------------------------------------
(* What the handlers do to the session: it goes on, with more requests at  *)
(* most, or it is finished.                                                *)

\* The queue of c with new requests, none of them a connect.
Grows(c, d) ==
  /\ d.rid >= c.rid
  /\ \A n : n \in DOMAIN d.requests <=> n \in DOMAIN c.requests \/ n \in c.rid..(d.rid - 1)
  /\ \A n \in DOMAIN c.requests :
       d.requests[n].kind = c.requests[n].kind /\ d.requests[n].sid = c.requests[n].sid
  /\ \A n \in c.rid..(d.rid - 1) :
       d.requests[n].kind # "connect" /\ d.requests[n].sid = d.sid

\* A stanza is on its way, or about to be.
Busy(c) == c.data \/ \E r \in DOMAIN c.requests : c.requests[r].kind = "data"

Steady(c, d) ==
  /\ Good(d) /\ Grows(c, d)
  /\ d.sid = c.sid /\ d.connected = c.connected /\ d.authenticated = c.authenticated
  /\ d.opened = c.opened /\ d.closed = c.closed /\ d.stage = c.stage
  /\ d.delivered = c.delivered /\ d.threw = c.threw /\ d.abandoned = c.abandoned
  /\ c.disconnecting => d.disconnecting
  /\ d.readyState \in {c.readyState, "CLOSING"} /\ Waiting(d) = Waiting(c)
  /\ ~d.authenticated /\ Busy(d) => Busy(c)
  /\ c.data => d.data \/ DOMAIN d.requests # {}

Outcome(c, d) == Steady(c, d) \/ Finished(c, d)

\* Rids are integers.
LEMMA Rids ==
  ASSUME NEW c, Good(c)
  PROVE  c.rid \in Nat /\ c.rid > 0 /\ DOMAIN c.requests \subseteq 1..(c.rid - 1)
BY ClientFields DEF Good

\* Postings are steady.
LEMMA QuietSteady ==
  ASSUME NEW c, Good(c), NEW d, Good(d), Quiet(c, d)
  PROVE  Steady(c, d)
<1>1. Grows(c, d)
  <2>1. c.rid \in Nat /\ d.rid = c.rid
    BY Rids DEF Quiet, Frame
  <2> QED BY <2>1 DEF Quiet, Grows
<1>2. Busy(d) <=> Busy(c)
  BY DEF Quiet, Frame, Busy
<1> QED BY <1>1, <1>2 DEF Steady, Quiet, Frame, Waiting

\* Growth in two steps.
LEMMA GrowsTransitive ==
  ASSUME NEW c, Good(c), NEW d, Good(d), NEW e, Good(e),
         Grows(c, d), Grows(d, e), d.sid = e.sid
  PROVE  Grows(c, e)
<1>1. c.rid \in Nat /\ d.rid \in Nat /\ e.rid \in Nat
  BY Rids
<1>2. e.rid >= c.rid
  BY <1>1 DEF Grows
<1>3. ASSUME NEW n
      PROVE  n \in DOMAIN e.requests <=> n \in DOMAIN c.requests \/ n \in c.rid..(e.rid - 1)
  BY <1>1, <1>3 DEF Grows
<1>4. ASSUME NEW n \in DOMAIN c.requests
      PROVE  e.requests[n].kind = c.requests[n].kind /\ e.requests[n].sid = c.requests[n].sid
  BY <1>4 DEF Grows
<1>5. ASSUME NEW n \in c.rid..(e.rid - 1)
      PROVE  e.requests[n].kind # "connect" /\ e.requests[n].sid = e.sid
  <2>1. CASE n \in d.rid..(e.rid - 1)
    BY <2>1 DEF Grows
  <2>2. CASE n \in c.rid..(d.rid - 1)
    BY <2>2 DEF Grows
  <2> QED BY <1>1, <1>5, <2>1, <2>2
<1> QED BY <1>2, <1>3, <1>4, <1>5 DEF Grows

\* Steady changes one after the other.
LEMMA SteadyTransitive ==
  ASSUME NEW c, Good(c), NEW d, NEW e, Steady(c, d), Steady(d, e)
  PROVE  Steady(c, e)
<1>1. Grows(c, e)
  BY GrowsTransitive DEF Steady
<1>2. c.data => e.data \/ DOMAIN e.requests # {}
  BY DEF Steady, Grows
<1> QED BY <1>1, <1>2 DEF Steady

\* The end after and before steady changes.
LEMMA SteadyFinished ==
  /\ \A c, d, e : Good(c) /\ Steady(c, d) /\ Finished(d, e) => Finished(c, e)
  /\ \A c, d, e : Good(c) /\ Finished(c, d) /\ Steady(d, e) => Finished(c, e)
<1>1. ASSUME NEW c, NEW d, NEW e, Good(c), Steady(c, d), Finished(d, e)
      PROVE  Finished(c, e)
  <2>1. c.rid \in Nat /\ d.rid \in Nat /\ e.rid \in Nat /\ d.rid >= c.rid
        /\ DOMAIN e.requests \subseteq 1..(e.rid - 1)
    BY <1>1, Rids DEF Steady, Finished, Grows
  <2>2. ASSUME NEW r \in DOMAIN e.requests
        PROVE  /\ e.requests[r].kind # "connect"
               /\ r >= c.rid \/ (r \in DOMAIN c.requests
                                /\ e.requests[r].kind = c.requests[r].kind)
    <3>1. /\ e.requests[r].kind # "connect" /\ r \in Nat
          /\ r >= d.rid \/ (r \in DOMAIN d.requests
                           /\ e.requests[r].kind = d.requests[r].kind)
      BY <1>1, <2>1, <2>2 DEF Finished
    <3>2. r \in DOMAIN d.requests =>
            r \in c.rid..(d.rid - 1)
              \/ (r \in DOMAIN c.requests /\ d.requests[r].kind = c.requests[r].kind)
      BY <1>1 DEF Steady, Grows
    <3> QED BY <2>1, <3>1, <3>2
  <2> QED BY <1>1, <2>1, <2>2 DEF Steady, Finished
<1>2. ASSUME NEW c, NEW d, NEW e, Good(c), Finished(c, d), Steady(d, e)
      PROVE  Finished(c, e)
  <2>1. c.rid \in Nat /\ d.rid \in Nat /\ e.rid \in Nat /\ d.rid >= c.rid /\ e.rid >= d.rid
    BY <1>2, Rids DEF Steady, Finished, Grows
  <2>2. ~e.sid /\ ~e.connected /\ ~e.authenticated
    BY <1>2 DEF Steady, Finished
  <2>3. \A r \in DOMAIN e.requests :
          /\ e.requests[r].kind # "connect"
          /\ r >= c.rid \/ (r \in DOMAIN c.requests /\ e.requests[r].kind = c.requests[r].kind)
    <3> SUFFICES ASSUME NEW r \in DOMAIN e.requests
                 PROVE  /\ e.requests[r].kind # "connect"
                        /\ r >= c.rid \/ (r \in DOMAIN c.requests
                                         /\ e.requests[r].kind = c.requests[r].kind)
      OBVIOUS
    <3>1. CASE r \in DOMAIN d.requests
      BY <1>2, <3>1 DEF Steady, Finished, Grows
    <3>2. CASE r \in d.rid..(e.rid - 1)
      BY <1>2, <2>1, <3>2 DEF Steady, Grows
    <3> QED BY <1>2, <3>1, <3>2 DEF Steady, Grows
  <2>4. e.handlers = {} /\ e.addHandlers = {}
    BY <1>2 DEF Steady, Finished, Waiting
  <2> QED BY <1>2, <2>1, <2>2, <2>3, <2>4 DEF Steady, Finished
<1> QED BY <1>1, <1>2

\* One thing after the other.
LEMMA OutcomeTransitive ==
  ASSUME NEW c, Good(c), NEW d, NEW e, Outcome(c, d), Outcome(d, e)
  PROVE  Outcome(c, e)
BY SteadyTransitive, SteadyFinished, FinishedCompose DEF Outcome

\* Nothing, and postings.
LEMMA OutcomeQuiet ==
  ASSUME NEW c, Good(c)
  PROVE  /\ Outcome(c, c)
         /\ \A d : QuietOrFinished(c, d) => Outcome(c, d)
BY QuietSteady, QuietReflexive DEF Outcome, QuietOrFinished

-----------------------------------------------------------------------------
(* The functions the handlers are built from.                              *)

\* Stanzas are sent when nothing but a terminate is in the queue.
LEMMA SendFacts ==
  ASSUME NEW c, ClientInv(c), c.connected, OnlyTerminates(c)
  PROVE  LET b == [c EXCEPT !.data = TRUE]
         IN  /\ ClientInv(b) /\ ClientInv(Send(c)) /\ Quiet(b, Send(c))
             /\ b.data /\ b.rid = c.rid /\ b.requests = c.requests /\ SamePage(c, b)
             /\ b.sid = c.sid /\ b.errors = c.errors
             /\ b.connected = c.connected /\ b.authenticated = c.authenticated
             /\ b.disconnecting = c.disconnecting /\ b.timers = c.timers
<1> DEFINE b == [c EXCEPT !.data = TRUE]
<1>0. c \in Clients
  BY DEF ClientInv, Good
<1>1. /\ b \in Clients /\ b.data /\ b.rid = c.rid /\ b.requests = c.requests /\ SamePage(c, b)
      /\ b.sid = c.sid /\ b.errors = c.errors
      /\ b.connected = c.connected /\ b.authenticated = c.authenticated
      /\ b.disconnecting = c.disconnecting /\ b.timers = c.timers
  <2>1. b \in Clients
    BY <1>0, SetField
  <2>2. SamePage(c, b)
    BY <1>0 DEF Clients, SamePage
  <2>3. /\ b.data /\ b.rid = c.rid /\ b.requests = c.requests
        /\ b.sid = c.sid /\ b.errors = c.errors
        /\ b.connected = c.connected /\ b.authenticated = c.authenticated
        /\ b.disconnecting = c.disconnecting /\ b.timers = c.timers
    BY <1>0 DEF Clients
  <2> QED BY <2>1, <2>2, <2>3
<1>2. Send(c) = ThrottledRequestHandler(b)
  BY DEF Send
<1> HIDE DEF b
<1>3. Good(b)
  BY <1>1 DEF ClientInv, Good
<1>4. OnlyTerminates(b) /\ ~HasConnect(b)
  BY <1>1 DEF OnlyTerminates, HasConnect
<1>5. AllYoung(b)
  BY <1>1 DEF ClientInv, Queue, OnlyTerminates, AllYoung
<1>6. ClientInv(b)
  <2>1. Life(b)
    BY <1>1 DEF ClientInv, Life, SamePage, Waiting
  <2>2. Queue(b)
    BY <1>1, <1>4, <1>5 DEF ClientInv, Queue
  <2> QED BY <1>3, <1>4, <2>1, <2>2 DEF ClientInv, Fresh
<1>7. Quiet(b, Send(c)) /\ Good(Send(c))
  BY <1>2, <1>3, <1>4, <1>5, ThrottledFacts DEF QuietOrFinished
<1>8. ClientInv(Send(c))
  BY <1>6, <1>7, QuietInv
<1> QED BY <1>1, <1>6, <1>7, <1>8 DEF b

\* CLOSING alone.
LEMMA ClosingInv ==
  ASSUME NEW c, ClientInv(c)
  PROVE  ClientInv(Closing(c)) /\ Steady(c, Closing(c))
<1> DEFINE d == Closing(c)
<1>1. /\ Good(d) /\ SameSession(c, d) /\ d.rid = c.rid /\ d.requests = c.requests
      /\ d.readyState = "CLOSING" /\ d.opened = c.opened /\ d.closed = c.closed
      /\ d.delivered = c.delivered /\ d.abandoned = c.abandoned /\ d.threw = c.threw
      /\ d.stage = c.stage /\ d.handlers = c.handlers /\ d.addHandlers = c.addHandlers
  BY ClosingFacts DEF ClientInv
<1> HIDE DEF d
<1>2. Life(d)
  BY <1>1 DEF ClientInv, Life, SameSession, Waiting
<1>3. Fresh(d) /\ Queue(d)
  BY <1>1 DEF ClientInv, Fresh, Queue, SameSession, Waiting, HasConnect, OnlyTerminates, AllYoung
<1>4. Grows(c, d)
  BY <1>1, Rids DEF Grows, ClientInv
<1>5. Steady(c, d)
  BY <1>1, <1>4 DEF Steady, SameSession, Waiting, Busy
<1> QED BY <1>1, <1>2, <1>3, <1>5 DEF ClientInv, d

\* disconnect.
LEMMA DisconnectFacts ==
  ASSUME NEW c, ClientInv(c)
  PROVE  /\ ClientInv(Disconnect(c)) /\ Outcome(c, Disconnect(c))
         /\ OnlyTerminates(c) =>
              /\ Steady(c, Disconnect(c)) /\ OnlyTerminates(Disconnect(c))
              /\ Disconnect(c).handlers = c.handlers
              /\ Disconnect(c).addHandlers = c.addHandlers
<1> DEFINE a == Closing(c)
           b == [a EXCEPT !.timers = a.timers + 1]
           t == SendTerminate(b)
           d == ThrottledRequestHandler(t)
<1>1. /\ ClientInv(a) /\ Steady(c, a) /\ a.requests = c.requests /\ a.connected = c.connected
      /\ a.handlers = c.handlers /\ a.addHandlers = c.addHandlers
      /\ a.readyState = "CLOSING" /\ a.rid = c.rid
  BY ClosingInv, ClosingFacts DEF ClientInv, SameSession
<1>2. CASE ~c.connected
  <2>1. Disconnect(c) = a
    BY <1>2 DEF Disconnect
  <2> QED BY <1>1, <2>1 DEF Outcome, OnlyTerminates
<1>3. CASE c.connected
  <2>1. Disconnect(c) = d
    BY <1>3 DEF Disconnect
  <2> HIDE DEF a
  <2>2. a \in Clients /\ a.timers \in Nat
    BY <1>1, ClientFields DEF ClientInv, Good
  <2>3. /\ b \in Clients /\ SamePage(a, b) /\ b.timers > 0 /\ b.rid = a.rid
        /\ b.requests = a.requests /\ b.sid = a.sid /\ b.data = a.data
        /\ b.connected = a.connected /\ b.authenticated = a.authenticated
        /\ b.disconnecting = a.disconnecting
    <3>1. b \in Clients
      BY <2>2, SetField
    <3>2. SamePage(a, b)
      BY <2>2 DEF Clients, SamePage
    <3>3. /\ b.timers > 0 /\ b.rid = a.rid
          /\ b.requests = a.requests /\ b.sid = a.sid /\ b.data = a.data
          /\ b.connected = a.connected /\ b.authenticated = a.authenticated
          /\ b.disconnecting = a.disconnecting
      BY <2>2 DEF Clients
    <3> QED BY <3>1, <3>2, <3>3
  <2> HIDE DEF b
  <2>4. Good(b)
    BY <1>1, <2>3 DEF ClientInv, Good
  <2>5. /\ Good(t) /\ Added(b, t, "terminate") /\ SamePage(b, t) /\ t.disconnecting
        /\ t.sid = b.sid /\ t.data = b.data
        /\ t.connected = b.connected /\ t.authenticated = b.authenticated
        /\ t.timers = b.timers
        /\ b.rid \notin DOMAIN b.requests
    BY <2>4, SendTerminateFacts
  <2> HIDE DEF t
  <2>6. /\ DOMAIN t.requests = DOMAIN a.requests \cup {a.rid} /\ t.rid = a.rid + 1
        /\ \A r \in DOMAIN a.requests : t.requests[r] = a.requests[r]
        /\ t.requests[a.rid] = [kind |-> "terminate", sid |-> a.sid, sends |-> 0,
                                xhr |-> "unsent", old |-> FALSE]
        /\ a.rid \notin DOMAIN a.requests
    BY <2>3, <2>5 DEF Added
  <2>7. Life(t)
    BY <1>1, <1>3, <2>3, <2>5 DEF ClientInv, Life, SamePage, Waiting
  <2>8. /\ HasConnect(t) <=> HasConnect(a)
        /\ OnlyTerminates(t) <=> OnlyTerminates(a)
        /\ Young(t.requests[a.rid])
    BY <2>6 DEF HasConnect, OnlyTerminates, Young
  <2>9. Fresh(t)
    BY <1>1, <1>3, <2>3, <2>5, <2>8 DEF ClientInv, Fresh, SamePage, Waiting
  <2>10. AllYoung(t)
    <3>1. \A r \in DOMAIN a.requests : Young(a.requests[r])
      BY <1>1, <1>3 DEF ClientInv, Queue, AllYoung, Young
    <3> QED BY <2>6, <2>8, <3>1 DEF AllYoung
  <2>11. Queue(t)
    <3>1. \A r, s \in DOMAIN t.requests :
            t.requests[r].kind # "terminate" /\ t.requests[s].kind # "terminate" => r = s
      BY <1>1, <1>3, <2>6 DEF ClientInv, Queue
    <3>2. t.data => OnlyTerminates(t)
      BY <1>1, <1>3, <2>3, <2>5, <2>8 DEF ClientInv, Queue
    <3> QED BY <2>3, <2>5, <2>10, <3>1, <3>2 DEF Queue
  <2>12. ClientInv(t)
    BY <2>5, <2>7, <2>9, <2>11 DEF ClientInv
  <2>13. Steady(a, t)
    <3>1. Grows(a, t)
      <4>1. a.rid \in Nat /\ t.sid = a.sid
        BY <1>1, <2>3, <2>5, Rids DEF ClientInv
      <4> QED BY <2>6, <4>1 DEF Grows
    <3>2. Busy(t) <=> Busy(a)
      BY <2>3, <2>5, <2>6 DEF Busy
    <3> QED BY <2>3, <2>5, <3>1, <3>2 DEF Steady, SamePage, Waiting
  <2>14. /\ QuietOrFinished(t, d)
         /\ OnlyTerminates(t) => Quiet(t, d)
    BY <2>5, <2>10, ThrottledFacts
  <2> HIDE DEF d
  <2>15. ClientInv(d)
    BY <2>12, <2>14, QuietOrFinishedInv
  <2>16. Outcome(c, t) /\ Outcome(t, d)
    BY <1>1, <2>5, <2>13, <2>14, SteadyTransitive, OutcomeQuiet DEF Outcome, ClientInv
  <2>17. Outcome(c, d)
    BY <2>16, OutcomeTransitive DEF ClientInv
  <2>18. ASSUME OnlyTerminates(c)
         PROVE  /\ Steady(c, d) /\ OnlyTerminates(d)
                /\ d.handlers = c.handlers /\ d.addHandlers = c.addHandlers
    <3>1. OnlyTerminates(t)
      BY <1>1, <2>8, <2>18 DEF OnlyTerminates
    <3>2. Quiet(t, d) /\ Good(d)
      BY <2>14, <3>1 DEF QuietOrFinished
    <3>3. Steady(c, d)
      BY <1>1, <2>5, <2>13, <3>2, QuietSteady, SteadyTransitive DEF ClientInv
    <3> QED BY <1>1, <2>3, <2>5, <3>1, <3>2, <3>3, QuietKinds DEF Quiet, Frame, SamePage
  <2> QED BY <2>1, <2>15, <2>17, <2>18
<1>4. c.connected \in BOOLEAN
  BY ClientFields DEF ClientInv, Good
<1> QED BY <1>2, <1>3, <1>4

\* _doDisconnect, on an empty queue or after the end.
LEMMA DoDisconnectFinishes ==
  ASSUME NEW c, ClientInv(c), c.connected => DOMAIN c.requests = {},
         ~c.connected => ~HasConnect(c)
  PROVE  Finished(c, DoDisconnect(c))
<1> DEFINE e == Ending(c)
           a == Closing(e)
           b == [a EXCEPT !.timers = a.timers + 1]
           t == SendTerminate(b)
           y == ThrottledRequestHandler(t)
<1>0. c.connected \in BOOLEAN /\ c.rid \in Nat /\ Window \in Nat /\ Good(c)
  BY ClientFields, LimitAssumption DEF ClientInv, Good
<1>2. /\ Good(e) /\ SamePage(c, e)
      /\ ~e.authenticated /\ ~e.disconnecting /\ ~e.sid
      /\ e.rid = c.rid + Window /\ e.requests = c.requests
      /\ e.connected = c.connected
  BY <1>0, EndingFacts
<1>3. DoDisconnect(c) = Ended(IF c.connected THEN OnClose(Disconnect(e)) ELSE e)
  BY DEF DoDisconnect
<1> HIDE DEF e
<1>4. CASE ~c.connected
  <2> DEFINE d == Ended(e)
  <2>1. /\ Good(d) /\ d.rid = e.rid /\ d.requests = e.requests /\ ~d.connected
        /\ d.handlers = {} /\ d.addHandlers = {} /\ d.sid = e.sid
        /\ d.authenticated = e.authenticated /\ d.readyState = e.readyState
        /\ d.opened = e.opened /\ d.closed = e.closed /\ d.delivered = e.delivered
        /\ d.threw = e.threw /\ d.stage = e.stage
    BY <1>2, EndedFacts
  <2> HIDE DEF d
  <2>2. Finished(c, d)
    BY <1>0, <1>2, <1>4, <2>1 DEF Finished, SamePage, HasConnect
  <2> QED BY <1>3, <1>4, <2>2 DEF d
<1>5. CASE c.connected
  <2>0. Disconnect(e) = y
    BY <1>2, <1>5 DEF Disconnect
  <2>1. /\ Good(a) /\ SameSession(e, a) /\ a.rid = e.rid /\ a.requests = e.requests
        /\ a.readyState = "CLOSING" /\ a.opened = e.opened /\ a.closed = e.closed
        /\ a.delivered = e.delivered /\ a.threw = e.threw /\ a.stage = e.stage
    BY <1>2, ClosingFacts
  <2> HIDE DEF a
  <2>2. a \in Clients /\ a.timers + 1 \in Nat
    BY <2>1, ClientFields DEF Good
  <2>3. /\ b \in Clients /\ SamePage(a, b) /\ b.rid = a.rid
        /\ b.requests = a.requests /\ b.sid = a.sid
        /\ b.authenticated = a.authenticated
    <3>1. b \in Clients
      BY <2>2, SetField
    <3>2. SamePage(a, b)
      BY <2>2 DEF Clients, SamePage
    <3>3. /\ b.rid = a.rid /\ b.requests = a.requests /\ b.sid = a.sid
          /\ b.authenticated = a.authenticated
      BY <2>2 DEF Clients
    <3> QED BY <3>1, <3>2, <3>3
  <2> HIDE DEF b
  <2>4. Good(b)
    BY <2>1, <2>3 DEF Good
  <2>5. /\ Good(t) /\ Added(b, t, "terminate") /\ SamePage(b, t)
        /\ t.sid = b.sid /\ t.authenticated = b.authenticated
    BY <2>4, SendTerminateFacts
  <2> HIDE DEF t
  <2>6. /\ t.rid = e.rid + 1 /\ DOMAIN t.requests = {e.rid}
        /\ t.requests[e.rid] = [kind |-> "terminate", sid |-> FALSE, sends |-> 0,
                                xhr |-> "unsent", old |-> FALSE]
    <3>1. e.sid = FALSE
      BY <1>2, ClientFields DEF Good
    <3>2. b.rid = e.rid /\ DOMAIN b.requests = {} /\ b.sid = FALSE
      BY <1>2, <1>5, <2>1, <2>3, <3>1 DEF SameSession
    <3> QED BY <2>5, <3>2 DEF Added
  <2>7. OnlyTerminates(t) /\ AllYoung(t)
    BY <2>6 DEF OnlyTerminates, AllYoung, Young
  <2>8. Quiet(t, y) /\ Good(y)
    BY <2>5, <2>7, ThrottledFacts DEF QuietOrFinished
  <2> HIDE DEF y
  <2>9. /\ ~y.authenticated /\ ~y.sid
        /\ y.closed = c.closed /\ y.opened = c.opened /\ y.readyState = "CLOSING"
        /\ y.delivered = c.delivered /\ y.stage = c.stage /\ y.threw = c.threw
    BY <1>2, <2>1, <2>3, <2>5, <2>8 DEF Quiet, Frame, SamePage, SameSession
  <2>10. /\ y.rid = e.rid + 1 /\ DOMAIN y.requests = {e.rid}
         /\ y.requests[e.rid].kind = "terminate" /\ ~y.requests[e.rid].sid
    BY <2>6, <2>8 DEF Quiet, Frame
  <2>11. e.rid >= c.rid /\ e.rid \in Nat /\ y.rid > e.rid
    BY <1>0, <1>2, <2>10
  <2>12. Finished(c, Ended(OnClose(y)))
    BY <1>0, <1>2, <1>5, <2>8, <2>9, <2>10, <2>11, LastTerminate
  <2> QED BY <1>3, <1>5, <2>0, <2>12
<1> QED BY <1>0, <1>4, <1>5

\* _hitError.
LEMMA HitErrorFacts ==
  ASSUME NEW c, ClientInv(c)
  PROVE  /\ ClientInv(HitError(c)) /\ Outcome(c, HitError(c))
         /\ \/ Finished(c, HitError(c))
            \/ Quiet(c, HitError(c)) /\ HitError(c).requests = c.requests
<1>1. /\ c \in Clients /\ Good(c) /\ Life(c) /\ c.connected \in BOOLEAN
      /\ c.errors \in Errors /\ ErrorLimit \in Nat
  BY ClientFields, LimitAssumption DEF ClientInv, Good
<1>2. ASSUME NEW n \in Errors
      PROVE  LET f == [c EXCEPT !.errors = n]
             IN  Good(f) /\ Quiet(c, f) /\ f.requests = c.requests
  <2> DEFINE f == [c EXCEPT !.errors = n]
  <2>1. f \in Clients
    BY <1>1, SetField
  <2>2. f.requests = c.requests /\ f.rid = c.rid
    BY <1>1 DEF Clients
  <2>3. Frame(c, f)
    BY <1>1 DEF Clients, Frame
  <2> HIDE DEF f
  <2>4. Good(f) /\ Quiet(c, f)
    BY <1>1, <2>1, <2>2, <2>3 DEF Good, Quiet
  <2> QED BY <2>2, <2>4 DEF f
<1>3. CASE c.errors + 1 > ErrorLimit
  <2> DEFINE b == [c EXCEPT !.errors = ErrorLimit + 1]
  <2>1. ErrorLimit + 1 \in Errors
    BY <1>1 DEF Errors
  <2>2. Good(b) /\ Quiet(c, b)
    BY <1>2, <2>1
  <2>3. HitError(c) = OnDisconnectTimeout(b)
    BY <1>3 DEF HitError
  <2> HIDE DEF b
  <2>4. Finished(c, HitError(c))
    BY <2>2, <2>3, TimeoutFinishes, FinishedCompose
  <2> QED BY <1>1, <2>4, FinishedInv DEF Outcome
<1>4. CASE ~(c.errors + 1 > ErrorLimit)
  <2> DEFINE b == [c EXCEPT !.errors = c.errors + 1]
  <2>1. c.errors + 1 \in Errors
    BY <1>1, <1>4 DEF Errors
  <2>2. Good(b) /\ Quiet(c, b) /\ b.requests = c.requests
    BY <1>2, <2>1
  <2>3. HitError(c) = b
    BY <1>4 DEF HitError
  <2> HIDE DEF b
  <2> QED BY <1>1, <2>2, <2>3, QuietInv, QuietSteady DEF Outcome
<1> QED BY <1>3, <1>4

\* _onIdle polls.
LEMMA PollFacts ==
  ASSUME NEW c, ClientInv(c)
  PROVE  ClientInv(Poll(c)) /\ Steady(c, Poll(c))
<1>1. Good(c) /\ Steady(c, c)
  BY OutcomeQuiet, QuietReflexive, QuietSteady DEF ClientInv
<1>2. CASE Poll(c) # c
  <2> DEFINE b == [c EXCEPT !.data = TRUE]
  <2>1. Poll(c) = b /\ c.authenticated /\ Pending(c) = 0
    BY <1>2 DEF Poll
  <2>2. OnlyTerminates(c) /\ c.connected
    BY <1>1, <2>1, FirstSecond DEF OnlyTerminates, ClientInv, Life
  <2>3. /\ ClientInv(b) /\ b.data /\ b.rid = c.rid /\ b.requests = c.requests /\ SamePage(c, b)
        /\ b.sid = c.sid /\ b.connected = c.connected /\ b.authenticated = c.authenticated
        /\ b.disconnecting = c.disconnecting
    BY <2>2, SendFacts
  <2> HIDE DEF b
  <2>4. Steady(c, b)
    BY <1>1, <2>1, <2>3, Rids DEF Steady, SamePage, Grows, Waiting, ClientInv
  <2> QED BY <2>1, <2>3, <2>4
<1> QED BY <1>1, <1>2

\* _onIdle sends what is put off, with a new request.
LEMMA SendDataFacts ==
  ASSUME NEW c, ClientInv(c)
  PROVE  ClientInv(SendData(c)) /\ Outcome(c, SendData(c))
<1>1. c \in Clients /\ Good(c) /\ Outcome(c, c) /\ c.rid \in Nat /\ c.sid \in BOOLEAN
  BY OutcomeQuiet, ClientFields DEF ClientInv, Good
<1>2. CASE c.data /\ Pending(c) < 2
  <2> DEFINE b == [c EXCEPT !.data = FALSE]
             p == Push(b, "data")
  <2>1. b \in Clients
    BY <1>1, SetField
  <2>2. /\ ~b.data /\ b.requests = c.requests /\ b.rid = c.rid /\ b.sid = c.sid
        /\ b.connected = c.connected /\ b.authenticated = c.authenticated
        /\ b.disconnecting = c.disconnecting /\ b.timers = c.timers
    BY <1>1 DEF Clients
  <2>3. SamePage(c, b)
    BY <1>1 DEF Clients, SamePage
  <2> HIDE DEF b
  <2>4. Good(b)
    BY <1>1, <2>1, <2>2 DEF Good
  <2>5. /\ Good(p) /\ Added(b, p, "data") /\ SamePage(b, p) /\ SameSession(b, p)
        /\ b.rid \notin DOMAIN b.requests
    BY <2>4, PushFacts
  <2>6. SendData(c) = ProcessRequest(p, c.rid)
    BY <1>2 DEF SendData, b
  <2> HIDE DEF p
  <2>7. /\ p.rid = c.rid + 1 /\ DOMAIN p.requests = DOMAIN c.requests \cup {c.rid}
        /\ c.rid \notin DOMAIN c.requests
        /\ \A r \in DOMAIN c.requests : p.requests[r] = c.requests[r]
        /\ p.requests[c.rid].kind = "data" /\ p.requests[c.rid].sid = c.sid
    BY <2>2, <2>5 DEF Added
  <2>8. /\ p.sid = c.sid /\ p.connected = c.connected /\ p.authenticated = c.authenticated
        /\ p.disconnecting = c.disconnecting /\ p.timers = c.timers /\ ~p.data
        /\ SamePage(c, p)
    BY <2>2, <2>3, <2>5 DEF SameSession, SamePage
  <2>9. HasConnect(p) <=> HasConnect(c)
    BY <2>7 DEF HasConnect
  <2>10. ~HasConnect(c)
    BY <1>2 DEF ClientInv, Fresh
  <2>11. Life(p)
    BY <2>8 DEF ClientInv, Life, SamePage, Waiting
  <2>12. Queue(p)
    <3>1. SUFFICES ASSUME c.connected PROVE Queue(p)
      BY <2>8 DEF Queue
    <3>2. OnlyTerminates(c)
      BY <1>2, <3>1 DEF ClientInv, Queue
    <3>3. \A r \in DOMAIN p.requests : p.requests[r].kind # "terminate" => r = c.rid
      BY <2>7, <3>2 DEF OnlyTerminates
    <3>4. ~c.disconnecting => \A r \in DOMAIN p.requests : p.requests[r].kind # "terminate"
      BY <2>7, <3>1 DEF ClientInv, Queue
    <3>5. c.disconnecting => c.timers > 0 /\ AllYoung(p)
      BY <2>7, <3>1 DEF ClientInv, Queue, AllYoung, Young
    <3> QED BY <2>8, <3>3, <3>4, <3>5 DEF Queue
  <2>13. ClientInv(p)
    BY <2>5, <2>9, <2>10, <2>11, <2>12 DEF ClientInv, Fresh
  <2>14. Grows(c, p)
    BY <1>1, <2>7, <2>8 DEF Grows
  <2>15. Steady(c, p)
    BY <1>2, <2>5, <2>7, <2>8, <2>14 DEF Steady, SamePage, Waiting, Busy
  <2>16. QuietOrFinished(p, SendData(c))
    BY <2>5, <2>6, <2>7, ProcessRequestFacts
  <2>17. Outcome(p, SendData(c)) /\ Outcome(c, p)
    BY <2>5, <2>15, <2>16, OutcomeQuiet DEF Outcome
  <2> QED BY <1>1, <2>13, <2>16, <2>17, OutcomeTransitive, QuietOrFinishedInv
<1> QED BY <1>1, <1>2 DEF SendData

\* _onIdle.
LEMMA IdleFacts ==
  ASSUME NEW c, ClientInv(c)
  PROVE  ClientInv(Idle(c)) /\ Outcome(c, Idle(c))
<1> DEFINE p == Poll(c)
           s == SendData(p)
<1>1. Good(c) /\ ClientInv(p) /\ Outcome(c, p)
  BY PollFacts DEF ClientInv, Outcome
<1>2. ClientInv(s) /\ Good(s) /\ Outcome(p, s)
  BY <1>1, SendDataFacts DEF ClientInv
<1>3. Idle(c) = RestartOld(s)
  BY DEF Idle
<1> HIDE DEF p, s
<1>4. RestartOld(s) \in {s, ThrottledRequestHandler(s)}
  BY DEF RestartOld
<1>5. QuietOrFinished(s, RestartOld(s))
  BY <1>2, <1>4, ThrottledFacts, QuietReflexive DEF QuietOrFinished
<1>6. ClientInv(Idle(c)) /\ Outcome(s, Idle(c))
  BY <1>2, <1>3, <1>5, QuietOrFinishedInv, OutcomeQuiet
<1> QED BY <1>1, <1>2, <1>6, OutcomeTransitive


\* _onIdle when the timer of disconnect is due.
LEMMA IdleTimeoutFacts ==
  ASSUME NEW c, ClientInv(c), NEW left \in Nat
  PROVE  LET d == Idle([OnDisconnectTimeout(c) EXCEPT !.timers = left])
         IN  ClientInv(d) /\ Finished(c, d)
<1> DEFINE t == OnDisconnectTimeout(c)
           b == [t EXCEPT !.timers = left]
<1>1. Good(c) /\ Life(c) /\ c.connected \in BOOLEAN /\ Finished(c, t) /\ t \in Clients
  BY ClientFields, TimeoutFinishes DEF ClientInv, Good, Finished
<1> HIDE DEF t
<1>2. b \in Clients
  BY <1>1, SetField
<1>3. /\ b.rid = t.rid /\ b.closed = t.closed /\ b.connected = t.connected
      /\ b.authenticated = t.authenticated /\ b.sid = t.sid /\ b.handlers = t.handlers
      /\ b.addHandlers = t.addHandlers /\ b.readyState = t.readyState
  BY <1>1 DEF Clients
<1>4. /\ b.opened = t.opened /\ b.delivered = t.delivered /\ b.stage = t.stage
      /\ b.threw = t.threw /\ b.requests = t.requests
  BY <1>1 DEF Clients
<1> HIDE DEF b
<1>5. Good(b)
  BY <1>1, <1>2, <1>3, <1>4 DEF Good, Finished
<1>6. Finished(c, b)
  BY <1>1, <1>3, <1>4, <1>5 DEF Finished
<1>7. ClientInv(b)
  BY <1>1, <1>6, FinishedInv
<1>8. ClientInv(Idle(b)) /\ Outcome(b, Idle(b))
  BY <1>7, IdleFacts
<1>9. Finished(c, Idle(b))
  BY <1>1, <1>6, <1>8, SteadyFinished, FinishedCompose DEF Outcome
<1> QED BY <1>8, <1>9 DEF b, t

\* A request changes, with its kind and its session kept.
LEMMA ChangeFacts ==
  ASSUME NEW c, ClientInv(c), NEW r \in DOMAIN c.requests, NEW e \in Requests,
         e.kind = c.requests[r].kind, e.sid = c.requests[r].sid,
         c.connected /\ c.disconnecting => Young(e)
  PROVE  LET d == [c EXCEPT !.requests = [c.requests EXCEPT ![r] = e]]
         IN  ClientInv(d) /\ Steady(c, d)
<1> DEFINE q == [c.requests EXCEPT ![r] = e]
           d == [c EXCEPT !.requests = q]
<1>1. Good(c) /\ c \in Clients /\ c.requests \in Queues /\ c.rid \in Nat
  BY ClientFields DEF ClientInv, Good
<1>2. /\ q \in Queues /\ DOMAIN q = DOMAIN c.requests
      /\ \A s \in DOMAIN c.requests : q[s] = IF s = r THEN e ELSE c.requests[s]
  BY <1>1, QueueExcept
<1> HIDE DEF q
<1>3. d \in Clients /\ Frame(c, d) /\ d.requests = q
  BY <1>1, <1>2, SetRequests
<1> HIDE DEF d
<1>4. Good(d)
  BY <1>1, <1>2, <1>3 DEF Good, Frame
<1>5. /\ DOMAIN d.requests = DOMAIN c.requests
      /\ \A s \in DOMAIN c.requests : /\ d.requests[s].kind = c.requests[s].kind
                                      /\ d.requests[s].sid = c.requests[s].sid
  BY <1>2, <1>3
<1>6. Life(d) /\ Fresh(d)
  BY <1>3, <1>5 DEF ClientInv, Life, Fresh, Frame, HasConnect, Waiting
<1>7. Queue(d)
  <2>1. SUFFICES ASSUME c.connected PROVE Queue(d)
    BY <1>3 DEF Queue, Frame
  <2>2. c.disconnecting => AllYoung(d)
    BY <1>2, <1>3, <2>1 DEF AllYoung, ClientInv, Queue
  <2>3. OnlyTerminates(c) <=> OnlyTerminates(d)
    BY <1>5 DEF OnlyTerminates
  <2> QED BY <1>3, <1>5, <2>1, <2>2, <2>3 DEF Queue, Frame, ClientInv
<1>8. Steady(c, d)
  BY <1>1, <1>3, <1>4, <1>5 DEF Steady, Grows, Frame, Waiting, Busy
<1> QED BY <1>4, <1>6, <1>7, <1>8 DEF ClientInv, d, q

\* A posting fails, is refused or put through.
LEMMA XhrFacts ==
  ASSUME NEW c, ClientInv(c), NEW r \in DOMAIN c.requests,
         NEW x \in {"posted", "failed", "refused"},
         \/ c.requests[r].xhr = "posted"
         \/ ~TimerFirst(c, r)
  PROVE  LET d == [c EXCEPT !.requests[r].xhr = x]
         IN  ClientInv(d) /\ Steady(c, d)
<1> DEFINE e == [c.requests[r] EXCEPT !.xhr = x]
<1>1. c \in Clients /\ c.requests[r] \in Requests /\ c.timers \in Nat
  BY ClientFields, QueueType DEF ClientInv, Good
<1>2. /\ e \in Requests /\ e.kind = c.requests[r].kind /\ e.sid = c.requests[r].sid
      /\ e.sends = c.requests[r].sends /\ e.old = c.requests[r].old
  BY <1>1 DEF Requests
<1> HIDE DEF e
<1>3. ASSUME c.connected, c.disconnecting PROVE Young(e)
  <2>1. c.timers > 0 /\ Young(c.requests[r])
    BY <1>3 DEF ClientInv, Queue, AllYoung
  <2> QED BY <1>1, <1>2, <2>1 DEF Young, TimerFirst, Requests
<1>4. [c EXCEPT !.requests[r].xhr = x] = [c EXCEPT !.requests = [c.requests EXCEPT ![r] = e]]
  BY <1>1, XhrQueue DEF e
<1> QED BY <1>2, <1>3, <1>4, ChangeFacts

\* A request waits for long.
LEMMA AgeFacts ==
  ASSUME NEW c, ClientInv(c), NEW r \in DOMAIN c.requests, ~TimerFirst(c, r)
  PROVE  LET d == [c EXCEPT !.requests[r].old = TRUE]
         IN  ClientInv(d) /\ Steady(c, d)
<1> DEFINE e == [c.requests[r] EXCEPT !.old = TRUE]
<1>1. c \in Clients /\ c.requests[r] \in Requests /\ c.timers \in Nat
  BY ClientFields, QueueType DEF ClientInv, Good
<1>2. e \in Requests /\ e.kind = c.requests[r].kind /\ e.sid = c.requests[r].sid
  BY <1>1 DEF Requests
<1> HIDE DEF e
<1>3. ASSUME c.connected, c.disconnecting PROVE Young(e)
  BY <1>1, <1>2, <1>3 DEF Young, TimerFirst, ClientInv, Queue
<1>4. [c EXCEPT !.requests[r].old = TRUE] = [c EXCEPT !.requests = [c.requests EXCEPT ![r] = e]]
  BY <1>1 DEF e, Clients
<1> QED BY <1>2, <1>3, <1>4, ChangeFacts


-----------------------------------------------------------------------------
(* Answers that are none.                                                  *)

\* The end of the connection after the removal of a request.
LEMMA WithoutFinished ==
  ASSUME NEW c, Good(c), NEW r, NEW d, Finished(Without(c, r), d)
  PROVE  Finished(c, d)
<1>1. /\ Frame(c, Without(c, r)) /\ DOMAIN Without(c, r).requests \subseteq DOMAIN c.requests
      /\ \A s \in DOMAIN Without(c, r).requests : Without(c, r).requests[s] = c.requests[s]
  BY WithoutFacts
<1> QED BY <1>1 DEF Finished, Frame

\* 4xx.
LEMMA RefuseFacts ==
  ASSUME NEW c, ClientInv(c), NEW r \in DOMAIN c.requests, c.requests[r].xhr = "posted"
  PROVE  ClientInv(Refuse(c, r)) /\ Outcome(c, Refuse(c, r))
<1>1. Good(c) /\ Life(c) /\ c.connected \in BOOLEAN
  BY ClientFields DEF ClientInv, Good
<1>2. CASE c.disconnecting
  <2> DEFINE f == [c EXCEPT !.requests[r].xhr = "refused"]
  <2>1. ClientInv(f) /\ Steady(c, f)
    BY XhrFacts
  <2>2. Refuse(c, r) = HitError(f)
    BY <1>2 DEF Refuse
  <2> HIDE DEF f
  <2>3. ClientInv(HitError(f)) /\ Outcome(f, HitError(f))
    BY <2>1, HitErrorFacts
  <2> QED BY <1>1, <2>1, <2>2, <2>3, OutcomeTransitive DEF Outcome
<1>3. CASE ~c.disconnecting
  <2> DEFINE w == Without(c, r)
             m == RemoveRequest(c, r)
             h == HitError(m)
             g == Closing(h)
  <2>1. ClientInv(w) /\ ClientInv(m) /\ QuietOrFinished(w, m)
    BY RemoveInv
  <2>2. Refuse(c, r) = DoDisconnect(g)
    BY <1>3 DEF Refuse
  <2>3. /\ Good(w) /\ Frame(c, w) /\ DOMAIN w.requests = DOMAIN c.requests \ {r}
        /\ \A s \in DOMAIN w.requests : w.requests[s] = c.requests[s]
    BY <1>1, WithoutFacts
  <2> HIDE DEF w, m
  <2>4. (w.connected => DOMAIN w.requests = {}) /\ (~w.connected => ~HasConnect(w))
    <3>1. CASE c.connected
      BY <1>3, <2>3, <3>1 DEF ClientInv, Queue, Frame
    <3>2. CASE ~c.connected
      BY <2>3, <3>2 DEF ClientInv, Fresh, HasConnect, Frame
    <3> QED BY <3>1, <3>2
  <2>5. (m.connected => DOMAIN m.requests = {}) /\ (~m.connected => ~HasConnect(m))
    BY <2>1, <2>3, <2>4 DEF QuietOrFinished, Quiet, Frame, Finished, HasConnect
  <2>6. /\ ClientInv(h) /\ Outcome(m, h)
        /\ Finished(m, h) \/ (Quiet(m, h) /\ h.requests = m.requests)
    BY <2>1, HitErrorFacts
  <2> HIDE DEF h
  <2>7. (h.connected => DOMAIN h.requests = {}) /\ (~h.connected => ~HasConnect(h))
    BY <2>5, <2>6 DEF Quiet, Frame, Finished, HasConnect
  <2>8. ClientInv(g) /\ Steady(h, g) /\ g.requests = h.requests /\ g.connected = h.connected
    BY <2>6, ClosingInv, ClosingFacts DEF ClientInv, SameSession
  <2> HIDE DEF g
  <2>9. Finished(g, DoDisconnect(g))
    BY <2>7, <2>8, DoDisconnectFinishes DEF HasConnect
  <2>10. Outcome(w, g) /\ Good(w)
    BY <2>1, <2>3, <2>6, <2>8, OutcomeQuiet, OutcomeTransitive DEF Outcome
  <2>11. Finished(w, DoDisconnect(g))
    BY <2>9, <2>10, SteadyFinished, FinishedCompose DEF Outcome
  <2>12. Finished(c, DoDisconnect(g))
    BY <1>1, <2>11, WithoutFinished DEF w
  <2> QED BY <1>1, <2>2, <2>12, FinishedInv DEF Outcome
<1> QED BY <1>1, <1>2, <1>3

\* A request that is given up.
Abandons(c, r) == [Without(c, r) EXCEPT !.abandoned = TRUE]

\* The mark that a request was given up.
LEMMA AbandonFacts ==
  ASSUME NEW c, ClientInv(c)
  PROVE  LET d == [c EXCEPT !.abandoned = TRUE]
         IN  /\ ClientInv(d) /\ d.abandoned
             /\ \A w : QuietOrFinished(w, c) /\ w \in Clients =>
                         QuietOrFinished([w EXCEPT !.abandoned = TRUE], d)
<1> DEFINE d == [c EXCEPT !.abandoned = TRUE]
<1>1. c \in Clients /\ Good(c)
  BY DEF ClientInv, Good
<1>2. ASSUME NEW w \in Clients
      PROVE  LET a == [w EXCEPT !.abandoned = TRUE]
             IN  /\ a \in Clients /\ a.abandoned
                 /\ a.rid = w.rid /\ a.sid = w.sid /\ a.data = w.data /\ a.requests = w.requests
                 /\ a.connected = w.connected /\ a.authenticated = w.authenticated
                 /\ a.disconnecting = w.disconnecting /\ a.timers = w.timers
                 /\ a.stage = w.stage /\ a.handlers = w.handlers
                 /\ a.addHandlers = w.addHandlers /\ a.readyState = w.readyState
                 /\ a.opened = w.opened /\ a.closed = w.closed
                 /\ a.delivered = w.delivered /\ a.threw = w.threw
  <2> DEFINE a == [w EXCEPT !.abandoned = TRUE]
  <2>1. a \in Clients
    BY SetField
  <2>2. /\ a.abandoned
        /\ a.rid = w.rid /\ a.sid = w.sid /\ a.data = w.data /\ a.requests = w.requests
        /\ a.connected = w.connected /\ a.authenticated = w.authenticated
        /\ a.disconnecting = w.disconnecting /\ a.timers = w.timers
    BY DEF Clients
  <2>3. /\ a.stage = w.stage /\ a.handlers = w.handlers
        /\ a.addHandlers = w.addHandlers /\ a.readyState = w.readyState
        /\ a.opened = w.opened /\ a.closed = w.closed
        /\ a.delivered = w.delivered /\ a.threw = w.threw
    BY DEF Clients
  <2> QED BY <2>1, <2>2, <2>3
<1>3. /\ d \in Clients /\ d.abandoned
      /\ d.rid = c.rid /\ d.sid = c.sid /\ d.data = c.data /\ d.requests = c.requests
      /\ d.connected = c.connected /\ d.authenticated = c.authenticated
      /\ d.disconnecting = c.disconnecting /\ d.timers = c.timers
      /\ d.stage = c.stage /\ d.handlers = c.handlers
      /\ d.addHandlers = c.addHandlers /\ d.readyState = c.readyState
      /\ d.opened = c.opened /\ d.closed = c.closed
      /\ d.delivered = c.delivered /\ d.threw = c.threw
  BY <1>1, <1>2
<1> HIDE DEF d
<1>4. Good(d)
  BY <1>1, <1>3 DEF Good
<1>5. Life(d) /\ Fresh(d)
  BY <1>3 DEF ClientInv, Life, Fresh, Waiting, HasConnect
<1>6. Queue(d)
  BY <1>3 DEF ClientInv, Queue, OnlyTerminates, AllYoung
<1>7. ASSUME NEW w \in Clients, QuietOrFinished(w, c)
      PROVE  QuietOrFinished([w EXCEPT !.abandoned = TRUE], d)
  <2> DEFINE a == [w EXCEPT !.abandoned = TRUE]
  <2>1. /\ a.abandoned
        /\ a.rid = w.rid /\ a.sid = w.sid /\ a.data = w.data /\ a.requests = w.requests
        /\ a.connected = w.connected /\ a.authenticated = w.authenticated
        /\ a.disconnecting = w.disconnecting /\ a.timers = w.timers
        /\ a.stage = w.stage /\ a.handlers = w.handlers
        /\ a.addHandlers = w.addHandlers /\ a.readyState = w.readyState
        /\ a.opened = w.opened /\ a.closed = w.closed
        /\ a.delivered = w.delivered /\ a.threw = w.threw
    BY <1>2
  <2> HIDE DEF a
  <2>2. CASE Quiet(w, c)
    <3>1. Frame(a, d)
      BY <1>3, <2>1, <2>2 DEF Quiet, Frame
    <3>2. Quiet(a, d)
      BY <1>3, <2>1, <2>2, <3>1 DEF Quiet
    <3> QED BY <1>4, <3>2 DEF QuietOrFinished, a
  <2>3. CASE Finished(w, c)
    <3>1. Finished(a, d)
      BY <1>3, <1>4, <2>1, <2>3 DEF Finished
    <3> QED BY <1>4, <3>1 DEF QuietOrFinished, a
  <2> QED BY <1>7, <2>2, <2>3 DEF QuietOrFinished
<1> QED BY <1>3, <1>4, <1>5, <1>6, <1>7 DEF ClientInv, d


\* What is left when a request is removed does not depend on its status.
LEMMA WithoutFailed ==
  ASSUME NEW c \in Clients, NEW r, NEW x
  PROVE  Without([c EXCEPT !.requests[r].xhr = x], r) = Without(c, r)
<1> DEFINE e == [c.requests[r] EXCEPT !.xhr = x]
           q == [c.requests EXCEPT ![r] = e]
           f == [c EXCEPT !.requests = q]
<1>1. [c EXCEPT !.requests[r].xhr = x] = f
  BY XhrQueue
<1> HIDE DEF e
<1>2. f.requests = q
  BY DEF Clients
<1>3. Restrict(q, DOMAIN q \ {r}) = Restrict(c.requests, DOMAIN c.requests \ {r})
  BY DEF Restrict
<1>4. Without(f, r) = [f EXCEPT !.requests = Restrict(c.requests, DOMAIN c.requests \ {r})]
  BY <1>2, <1>3 DEF Without
<1> HIDE DEF q
<1>5. [f EXCEPT !.requests = Restrict(c.requests, DOMAIN c.requests \ {r})]
      = [c EXCEPT !.requests = Restrict(c.requests, DOMAIN c.requests \ {r})]
  BY DEF Clients
<1> QED BY <1>1, <1>4, <1>5 DEF Without

\* Status 0 and 5xx.
LEMMA FailFacts ==
  ASSUME NEW c, ClientInv(c), NEW r \in DOMAIN c.requests, c.requests[r].xhr = "posted",
         NEW fault
  PROVE  /\ ClientInv(Fail(c, r, fault))
         /\ Outcome(c, Fail(c, r, fault)) \/ Outcome(Abandons(c, r), Fail(c, r, fault))
<1> DEFINE f == [c EXCEPT !.requests[r].xhr = "failed"]
           h == HitError(f)
           m == RemoveRequest(f, r)
           a == [m EXCEPT !.abandoned = TRUE]
<1>1. ClientInv(f) /\ Steady(c, f) /\ Good(c) /\ c \in Clients
  BY XhrFacts DEF ClientInv, Good
<1>2. Without(f, r) = Without(c, r)
  BY <1>1, WithoutFailed
<1>3. Fail(c, r, fault) \in {h, HitError(a), ThrottledRequestHandler(h)}
  BY DEF Fail
<1> HIDE DEF f
<1>4. ClientInv(h) /\ Outcome(c, h) /\ Good(h)
  BY <1>1, HitErrorFacts, OutcomeTransitive DEF Outcome, ClientInv
<1> HIDE DEF h
<1>5. CASE Fail(c, r, fault) = h
  BY <1>4, <1>5
<1>6. CASE Fail(c, r, fault) = ThrottledRequestHandler(h)
  <2>1. QuietOrFinished(h, ThrottledRequestHandler(h))
    BY <1>4, ThrottledFacts
  <2> QED BY <1>1, <1>4, <1>6, <2>1, QuietOrFinishedInv, OutcomeQuiet, OutcomeTransitive
<1>7. CASE Fail(c, r, fault) = HitError(a)
  <2>1. ClientInv(Without(c, r)) /\ ClientInv(m) /\ QuietOrFinished(Without(c, r), m)
    BY <1>1, <1>2, RemoveInv
  <2>2. Without(c, r) \in Clients
    BY <2>1 DEF ClientInv, Good
  <2> HIDE DEF m
  <2>3. ClientInv(a) /\ QuietOrFinished(Abandons(c, r), a)
    BY <2>1, <2>2, AbandonFacts DEF Abandons
  <2>4. ClientInv(HitError(a)) /\ Outcome(a, HitError(a))
    BY <2>3, HitErrorFacts
  <2>5. ClientInv(Abandons(c, r))
    BY <2>1, AbandonFacts DEF Abandons
  <2> HIDE DEF a
  <2> QED BY <1>7, <2>3, <2>4, <2>5, OutcomeQuiet, OutcomeTransitive DEF ClientInv
<1> QED BY <1>3, <1>5, <1>6, <1>7


-----------------------------------------------------------------------------
(* Stanzas.                                                                *)

\* _dataRecv puts the new handlers with the others.
LEMMA MergeFacts ==
  ASSUME NEW c, ClientInv(c)
  PROVE  LET m == MergeHandlers(c)
         IN  /\ ClientInv(m) /\ Steady(c, m) /\ m.requests = c.requests /\ m.rid = c.rid
             /\ m.readyState = c.readyState
             /\ m.handlers = Waiting(c) /\ m.addHandlers = {} /\ m.data = c.data
             /\ m.disconnecting = c.disconnecting
<1> DEFINE e == [c EXCEPT !.handlers = c.handlers \cup c.addHandlers]
           m == [e EXCEPT !.addHandlers = {}]
<1>1. c \in Clients /\ Good(c) /\ Steady(c, c)
  BY OutcomeQuiet, QuietReflexive, QuietSteady DEF ClientInv, Good
<1>2. c.handlers \cup c.addHandlers \in HandlerSets /\ {} \in HandlerSets
  BY <1>1, ClientFields DEF HandlerSets
<1>3. e \in Clients
  BY <1>1, <1>2, SetField
<1>4. m \in Clients
  <2> HIDE DEF e
  <2> QED BY <1>2, <1>3, SetField
<1>5. MergeHandlers(c) = m
  BY <1>1 DEF MergeHandlers, Clients
<1>6. /\ m.rid = c.rid /\ m.sid = c.sid /\ m.data = c.data /\ m.requests = c.requests
      /\ m.connected = c.connected /\ m.authenticated = c.authenticated
      /\ m.disconnecting = c.disconnecting /\ m.timers = c.timers
      /\ m.handlers = c.handlers \cup c.addHandlers /\ m.addHandlers = {}
  BY <1>1 DEF Clients
<1>7. /\ m.stage = c.stage /\ m.readyState = c.readyState
      /\ m.opened = c.opened /\ m.closed = c.closed /\ m.delivered = c.delivered
      /\ m.abandoned = c.abandoned /\ m.threw = c.threw
  BY <1>1 DEF Clients
<1> HIDE DEF m
<1>8. Good(m)
  BY <1>1, <1>4, <1>6 DEF Good
<1>9. Waiting(m) = Waiting(c)
  BY <1>6 DEF Waiting
<1>10. Life(m) /\ Fresh(m)
  BY <1>6, <1>7, <1>9 DEF ClientInv, Life, Fresh, HasConnect
<1>11. Queue(m)
  BY <1>6 DEF ClientInv, Queue, OnlyTerminates, AllYoung
<1>12. Grows(c, m)
  BY <1>1, <1>6 DEF Steady, Grows
<1>13. Steady(c, m)
  BY <1>6, <1>7, <1>8, <1>9, <1>12 DEF Steady, Busy
<1> QED BY <1>5, <1>6, <1>7, <1>8, <1>9, <1>10, <1>11, <1>13 DEF ClientInv, Waiting

\* Handlers that are taken off.
LEMMA HandlersFacts ==
  ASSUME NEW c, ClientInv(c), NEW h \in SUBSET c.handlers
  PROVE  LET d == [c EXCEPT !.handlers = h]
         IN  /\ ClientInv(d) /\ d.handlers = h /\ d.addHandlers = c.addHandlers
             /\ d.rid = c.rid /\ d.sid = c.sid /\ d.data = c.data /\ d.requests = c.requests
             /\ d.connected = c.connected /\ d.authenticated = c.authenticated
             /\ d.disconnecting = c.disconnecting /\ d.stage = c.stage
             /\ d.readyState = c.readyState /\ d.opened = c.opened /\ d.closed = c.closed
             /\ d.delivered = c.delivered /\ d.abandoned = c.abandoned /\ d.threw = c.threw
<1> DEFINE d == [c EXCEPT !.handlers = h]
<1>1. c \in Clients /\ Good(c) /\ c.handlers \in HandlerSets
  BY ClientFields DEF ClientInv, Good
<1>2. h \in HandlerSets
  BY <1>1 DEF HandlerSets
<1>3. d \in Clients
  BY <1>1, <1>2, SetField
<1>4. /\ d.handlers = h /\ d.addHandlers = c.addHandlers
      /\ d.rid = c.rid /\ d.sid = c.sid /\ d.data = c.data /\ d.requests = c.requests
      /\ d.connected = c.connected /\ d.authenticated = c.authenticated
  BY <1>1 DEF Clients
<1>5. /\ d.disconnecting = c.disconnecting /\ d.stage = c.stage /\ d.timers = c.timers
      /\ d.readyState = c.readyState /\ d.opened = c.opened /\ d.closed = c.closed
      /\ d.delivered = c.delivered /\ d.abandoned = c.abandoned /\ d.threw = c.threw
  BY <1>1 DEF Clients
<1> HIDE DEF d
<1>6. Good(d)
  BY <1>1, <1>3, <1>4 DEF Good
<1>7. Life(d) /\ Fresh(d)
  BY <1>4, <1>5 DEF ClientInv, Life, Fresh, HasConnect, Waiting
<1>8. Queue(d)
  BY <1>4, <1>5 DEF ClientInv, Queue, OnlyTerminates, AllYoung
<1> QED BY <1>4, <1>5, <1>6, <1>7, <1>8 DEF ClientInv, d

\* send, between two calls that belong together.
LEMMA SendQuiet ==
  ASSUME NEW b, Good(b), OnlyTerminates(b), AllYoung(b)
  PROVE  LET s == [b EXCEPT !.data = TRUE]
         IN  /\ Good(s) /\ Quiet(s, Send(b)) /\ Good(Send(b)) /\ s.data
             /\ s.rid = b.rid /\ s.requests = b.requests /\ s.sid = b.sid
             /\ s.connected = b.connected /\ s.authenticated = b.authenticated
             /\ s.disconnecting = b.disconnecting /\ s.timers = b.timers /\ SamePage(b, s)
<1> DEFINE s == [b EXCEPT !.data = TRUE]
<1>1. b \in Clients
  BY DEF Good
<1>2. s \in Clients
  BY <1>1, SetField
<1>3. /\ s.data /\ s.rid = b.rid /\ s.requests = b.requests /\ s.sid = b.sid
      /\ s.connected = b.connected /\ s.authenticated = b.authenticated
      /\ s.disconnecting = b.disconnecting /\ s.timers = b.timers
  BY <1>1 DEF Clients
<1>4. SamePage(b, s)
  BY <1>1 DEF Clients, SamePage
<1>5. Send(b) = ThrottledRequestHandler(s)
  BY DEF Send
<1> HIDE DEF s
<1>6. Good(s) /\ OnlyTerminates(s) /\ AllYoung(s)
  BY <1>2, <1>3 DEF Good, OnlyTerminates, AllYoung
<1>7. Quiet(s, Send(b)) /\ Good(Send(b))
  BY <1>5, <1>6, ThrottledFacts DEF QuietOrFinished
<1> QED BY <1>3, <1>4, <1>6, <1>7 DEF s


\* The authentication has taken its next step.
Advances(c, d) ==
  /\ Good(d) /\ d.rid = c.rid /\ DOMAIN d.requests = DOMAIN c.requests
  /\ \A r \in DOMAIN c.requests :
       d.requests[r].kind = c.requests[r].kind /\ d.requests[r].sid = c.requests[r].sid
  /\ d.sid = c.sid /\ d.connected = c.connected /\ d.closed = c.closed
  /\ d.delivered = c.delivered /\ d.abandoned = c.abandoned /\ d.threw = c.threw
  /\ c.disconnecting => d.disconnecting
  /\ d.data /\ d.stage = c.stage + 1
  /\ IF d.stage < Rounds
     THEN /\ "auth" \in Waiting(d) /\ d.authenticated = c.authenticated
          /\ d.opened = c.opened /\ d.readyState = c.readyState
     ELSE /\ d.authenticated /\ d.opened = c.opened + 1 /\ d.readyState = "OPEN"
          /\ "auth" \notin Waiting(d)

\* A step of the authentication keeps the invariant.
LEMMA AdvancesInv ==
  ASSUME NEW c, ClientInv(c), "auth" \in Waiting(c), OnlyTerminates(c), NEW d, Advances(c, d),
         d.disconnecting = c.disconnecting, d.timers = c.timers, AllYoung(c) => AllYoung(d)
  PROVE  ClientInv(d)
<1>1. /\ c.stage < Rounds /\ c.connected /\ c.opened = 0 /\ c.closed = 0 /\ ~c.authenticated
      /\ c.stage \in Nat /\ Rounds \in Nat /\ c.readyState # "OPEN"
  BY ClientFields, LimitAssumption DEF ClientInv, Life, Good, Stages
<1>2. Life(d)
  BY <1>1 DEF Advances, Life
<1>3. Fresh(d)
  BY DEF Advances, Fresh, HasConnect, OnlyTerminates
<1>4. Queue(d)
  BY <1>1 DEF Advances, Queue, OnlyTerminates, ClientInv
<1> QED BY <1>2, <1>3, <1>4 DEF ClientInv, Advances

\* A callback of the authentication that asks for the next stanza.
LEMMA AuthenticateFacts ==
  ASSUME NEW c, ClientInv(c), c.addHandlers = {}, "auth" \in c.handlers, OnlyTerminates(c)
  PROVE  LET d == [Authenticate(c) EXCEPT !.handlers = c.handlers \ {"auth"}]
         IN  ClientInv(d) /\ Advances(c, d) /\ d.handlers = c.handlers \ {"auth"}
<1> DEFINE h == c.handlers \ {"auth"}
           b1 == [c EXCEPT !.stage = c.stage + 1]
<1>1. /\ c \in Clients /\ Good(c) /\ c.handlers \in HandlerSets
      /\ c.stage \in Nat /\ Rounds \in Nat /\ c.stage < Rounds /\ "auth" \in Waiting(c)
      /\ c.opened \in Nat /\ c.connected /\ h \in HandlerSets
  BY ClientFields, LimitAssumption DEF ClientInv, Life, Good, Stages, Waiting, HandlerSets
<1>2. AllYoung(c)
  BY <1>1 DEF ClientInv, Queue, OnlyTerminates, AllYoung
<1>3. c.stage + 1 \in Stages
  BY <1>1 DEF Stages
<1>4. b1 \in Clients
  BY <1>1, <1>3, SetField
<1>5. /\ b1.stage = c.stage + 1 /\ b1.rid = c.rid /\ b1.requests = c.requests
      /\ b1.sid = c.sid /\ b1.connected = c.connected /\ b1.authenticated = c.authenticated
      /\ b1.disconnecting = c.disconnecting /\ b1.timers = c.timers
  BY <1>1 DEF Clients
<1>6. /\ b1.addHandlers = {} /\ b1.readyState = c.readyState
      /\ b1.opened = c.opened /\ b1.closed = c.closed /\ b1.delivered = c.delivered
      /\ b1.abandoned = c.abandoned /\ b1.threw = c.threw
  BY <1>1 DEF Clients
<1> HIDE DEF h
<1>7. CASE c.stage + 1 < Rounds
  <2> DEFINE b == [b1 EXCEPT !.addHandlers = {"auth"}]
             t == Send(b)
             d == [t EXCEPT !.handlers = h]
  <2>1. Authenticate(c) = t
    <3>1. [c EXCEPT !.stage = @ + 1, !.addHandlers = @ \cup {"auth"}] = b
      BY <1>1 DEF Clients
    <3> QED BY <1>7, <3>1 DEF Authenticate
  <2> HIDE DEF b1
  <2>2. b \in Clients
    BY <1>4, SetField DEF HandlerSets
  <2>3. /\ b.stage = c.stage + 1 /\ b.rid = c.rid /\ b.requests = c.requests
        /\ b.sid = c.sid /\ b.connected = c.connected /\ b.authenticated = c.authenticated
        /\ b.disconnecting = c.disconnecting /\ b.timers = c.timers
    BY <1>4, <1>5 DEF Clients
  <2>4. /\ b.addHandlers = {"auth"} /\ b.readyState = c.readyState
        /\ b.opened = c.opened /\ b.closed = c.closed /\ b.delivered = c.delivered
        /\ b.abandoned = c.abandoned /\ b.threw = c.threw
    BY <1>4, <1>6 DEF Clients
  <2> HIDE DEF b
  <2>5. Good(b) /\ OnlyTerminates(b) /\ AllYoung(b)
    BY <1>1, <1>2, <2>2, <2>3 DEF Good, OnlyTerminates, AllYoung
  <2> DEFINE s == [b EXCEPT !.data = TRUE]
  <2>6. /\ Good(s) /\ Quiet(s, t) /\ Good(t) /\ s.data
        /\ s.rid = b.rid /\ s.requests = b.requests /\ s.sid = b.sid
        /\ s.connected = b.connected /\ s.authenticated = b.authenticated
        /\ s.disconnecting = b.disconnecting /\ s.timers = b.timers /\ SamePage(b, s)
    BY <2>5, SendQuiet
  <2> HIDE DEF s, t
  <2>7. t \in Clients
    BY <2>6 DEF Good
  <2>8. d \in Clients
    BY <1>1, <2>7, SetField
  <2>9. /\ d.rid = t.rid /\ d.requests = t.requests /\ d.sid = t.sid /\ d.data = t.data
        /\ d.connected = t.connected /\ d.authenticated = t.authenticated
        /\ d.disconnecting = t.disconnecting /\ d.timers = t.timers
    BY <2>7 DEF Clients
  <2>10. /\ d.stage = t.stage /\ d.addHandlers = t.addHandlers /\ d.readyState = t.readyState
         /\ d.opened = t.opened /\ d.closed = t.closed /\ d.delivered = t.delivered
         /\ d.abandoned = t.abandoned /\ d.threw = t.threw /\ d.handlers = h
    BY <2>7 DEF Clients
  <2> HIDE DEF d
  <2>11. Good(d)
    BY <2>6, <2>8, <2>9 DEF Good
  <2>12. /\ d.rid = c.rid /\ DOMAIN d.requests = DOMAIN c.requests
         /\ \A r \in DOMAIN c.requests :
              /\ d.requests[r].kind = c.requests[r].kind /\ d.requests[r].sid = c.requests[r].sid
              /\ Young(c.requests[r]) => Young(d.requests[r])
    BY <2>3, <2>6, <2>9 DEF Quiet, Frame
  <2>13. /\ d.sid = c.sid /\ d.connected = c.connected /\ d.authenticated = c.authenticated
         /\ d.disconnecting = c.disconnecting /\ d.timers = c.timers /\ d.data
    BY <2>3, <2>6, <2>9 DEF Quiet, Frame
  <2>14. /\ d.stage = c.stage + 1 /\ d.addHandlers = {"auth"} /\ d.readyState = c.readyState
         /\ d.opened = c.opened /\ d.closed = c.closed /\ d.delivered = c.delivered
         /\ d.abandoned = c.abandoned /\ d.threw = c.threw
    BY <2>3, <2>4, <2>6, <2>10 DEF Quiet, Frame, SamePage
  <2>15. Advances(c, d)
    BY <1>7, <2>11, <2>12, <2>13, <2>14 DEF Advances, Waiting
  <2>16. AllYoung(c) => AllYoung(d)
    BY <2>12 DEF AllYoung
  <2> QED BY <1>1, <2>1, <2>10, <2>13, <2>15, <2>16, AdvancesInv DEF d, h
<1>8. CASE ~(c.stage + 1 < Rounds)
  <2> DEFINE b == [b1 EXCEPT !.authenticated = TRUE]
             t == Send(b)
             o1 == [t EXCEPT !.readyState = "OPEN"]
             o == [o1 EXCEPT !.opened = t.opened + 1]
             d == [o EXCEPT !.handlers = h]
  <2>1. Authenticate(c) = [t EXCEPT !.readyState = "OPEN", !.opened = @ + 1]
    <3>1. [c EXCEPT !.stage = @ + 1, !.authenticated = TRUE] = b
      BY <1>1 DEF Clients
    <3> HIDE DEF b
    <3> QED BY <1>8, <3>1 DEF Authenticate, OnConnected
  <2> HIDE DEF b1
  <2>2. b \in Clients
    BY <1>4, SetField
  <2>3. /\ b.stage = c.stage + 1 /\ b.rid = c.rid /\ b.requests = c.requests
        /\ b.sid = c.sid /\ b.connected = c.connected /\ b.authenticated
        /\ b.disconnecting = c.disconnecting /\ b.timers = c.timers
    BY <1>4, <1>5 DEF Clients
  <2>4. /\ b.addHandlers = {} /\ b.readyState = c.readyState
        /\ b.opened = c.opened /\ b.closed = c.closed /\ b.delivered = c.delivered
        /\ b.abandoned = c.abandoned /\ b.threw = c.threw
    BY <1>4, <1>6 DEF Clients
  <2> HIDE DEF b
  <2>5. Good(b) /\ OnlyTerminates(b) /\ AllYoung(b)
    BY <1>1, <1>2, <2>2, <2>3 DEF Good, OnlyTerminates, AllYoung
  <2> DEFINE s == [b EXCEPT !.data = TRUE]
  <2>6. /\ Good(s) /\ Quiet(s, t) /\ Good(t) /\ s.data
        /\ s.rid = b.rid /\ s.requests = b.requests /\ s.sid = b.sid
        /\ s.connected = b.connected /\ s.authenticated = b.authenticated
        /\ s.disconnecting = b.disconnecting /\ s.timers = b.timers /\ SamePage(b, s)
    BY <2>5, SendQuiet
  <2> HIDE DEF s, t
  <2>7. t \in Clients
    BY <2>6 DEF Good
  <2>8. o1 \in Clients /\ t.opened + 1 \in Nat
    <3>1. "OPEN" \in ReadyStates
      BY DEF ReadyStates
    <3> QED BY <2>7, <3>1, SetField, ClientFields
  <2>9. o \in Clients
    <3> HIDE DEF o1
    <3> QED BY <2>8, SetField
  <2>10. d \in Clients
    <3> HIDE DEF o
    <3> QED BY <1>1, <2>9, SetField
  <2>11. /\ d.rid = t.rid /\ d.requests = t.requests /\ d.sid = t.sid /\ d.data = t.data
         /\ d.connected = t.connected /\ d.authenticated = t.authenticated
         /\ d.disconnecting = t.disconnecting /\ d.timers = t.timers
    BY <2>7 DEF Clients
  <2>12. /\ d.stage = t.stage /\ d.addHandlers = t.addHandlers /\ d.readyState = "OPEN"
         /\ d.opened = t.opened + 1 /\ d.closed = t.closed /\ d.delivered = t.delivered
         /\ d.abandoned = t.abandoned /\ d.threw = t.threw /\ d.handlers = h
    BY <2>7 DEF Clients
  <2>13. [Authenticate(c) EXCEPT !.handlers = h] = d
    BY <2>1, <2>7 DEF Clients
  <2> HIDE DEF d
  <2>14. Good(d)
    BY <2>6, <2>10, <2>11 DEF Good
  <2>15. /\ d.rid = c.rid /\ DOMAIN d.requests = DOMAIN c.requests
         /\ \A r \in DOMAIN c.requests :
              /\ d.requests[r].kind = c.requests[r].kind /\ d.requests[r].sid = c.requests[r].sid
              /\ Young(c.requests[r]) => Young(d.requests[r])
    BY <2>3, <2>6, <2>11 DEF Quiet, Frame
  <2>16. /\ d.sid = c.sid /\ d.connected = c.connected /\ d.authenticated
         /\ d.disconnecting = c.disconnecting /\ d.timers = c.timers /\ d.data
    BY <2>3, <2>6, <2>11 DEF Quiet, Frame
  <2>17. /\ d.stage = c.stage + 1 /\ d.addHandlers = {} /\ d.readyState = "OPEN"
         /\ d.opened = c.opened + 1 /\ d.closed = c.closed /\ d.delivered = c.delivered
         /\ d.abandoned = c.abandoned /\ d.threw = c.threw
    BY <2>3, <2>4, <2>6, <2>12 DEF Quiet, Frame, SamePage
  <2>18. "auth" \notin Waiting(d)
    BY <2>12, <2>17 DEF Waiting, h
  <2>19. Advances(c, d)
    BY <1>1, <1>8, <2>14, <2>15, <2>16, <2>17, <2>18 DEF Advances
  <2>20. AllYoung(c) => AllYoung(d)
    BY <2>15 DEF AllYoung
  <2> QED BY <1>1, <2>12, <2>13, <2>16, <2>19, <2>20, AdvancesInv DEF h
<1> QED BY <1>7, <1>8


\* The session goes on, without a step of the authentication; its handler may
\* be taken off when nothing is under way.
Stays(c, d) ==
  /\ Good(d) /\ Grows(c, d)
  /\ d.sid = c.sid /\ d.connected = c.connected /\ d.authenticated = c.authenticated
  /\ d.opened = c.opened /\ d.closed = c.closed /\ d.stage = c.stage
  /\ d.delivered = c.delivered /\ d.threw = c.threw /\ d.abandoned = c.abandoned
  /\ c.disconnecting => d.disconnecting
  /\ ~d.authenticated /\ Busy(d) => Busy(c)
  /\ c.data => d.data \/ DOMAIN d.requests # {}
  /\ d.readyState \in {c.readyState, "CLOSING"} /\ Waiting(d) \subseteq Waiting(c)
  /\ "message" \in Waiting(c) => "message" \in Waiting(d)
  /\ "auth" \in Waiting(c) => "auth" \in Waiting(d) \/ ~Busy(d)

\* What a stanza of the authentication does.
LEMMA AuthStanzaFacts ==
  ASSUME NEW c, ClientInv(c), c.addHandlers = {}, NEW auth \in {"none", "next", "failure"},
         auth # "none" /\ "auth" \in Waiting(c) => OnlyTerminates(c) /\ ~c.data, NEW legacy
  PROVE  LET a == AuthStanza(c, auth, legacy)
         IN  /\ ClientInv(a) /\ ("message" \in a.handlers <=> "message" \in c.handlers)
             /\ \/ Stays(c, a) /\ (auth = "next" => "auth" \notin Waiting(c))
                \/ auth = "next" /\ "auth" \in Waiting(c) /\ Advances(c, a)
<1> DEFINE a == AuthStanza(c, auth, legacy)
           h == c.handlers \ {"auth"}
<1>1. Good(c) /\ Waiting(c) = c.handlers /\ h \in SUBSET c.handlers
  BY DEF ClientInv, Waiting
<1>2. ASSUME NEW d, Steady(c, d) PROVE Stays(c, d)
  BY <1>2 DEF Steady, Stays
<1>3. CASE auth = "none" \/ "auth" \notin c.handlers
  <2>1. a = c
    BY <1>3 DEF AuthStanza
  <2>2. Steady(c, c)
    BY <1>1, QuietReflexive, QuietSteady
  <2> QED BY <1>1, <1>2, <1>3, <2>1, <2>2
<1>4. CASE auth = "next" /\ "auth" \in c.handlers
  <2>1. a = [Authenticate(c) EXCEPT !.handlers = h]
    BY <1>4 DEF AuthStanza
  <2>2. ClientInv(a) /\ Advances(c, a) /\ a.handlers = h
    BY <1>1, <1>4, <2>1, AuthenticateFacts
  <2> QED BY <1>1, <1>4, <2>2
<1>5. CASE auth = "failure" /\ "auth" \in c.handlers
  <2> DEFINE f == AuthFails(c, legacy)
             d == [f EXCEPT !.handlers = h]
  <2>1. a = d
    BY <1>5 DEF AuthStanza
  <2>2. f \in {c, Disconnect(c)} /\ OnlyTerminates(c)
    BY <1>1, <1>5 DEF AuthFails
  <2>3. ClientInv(f) /\ Steady(c, f) /\ f.handlers = c.handlers
    BY <1>1, <2>2, DisconnectFacts, QuietReflexive, QuietSteady
  <2> HIDE DEF f
  <2>4. /\ ClientInv(d) /\ d.handlers = h /\ d.addHandlers = f.addHandlers
        /\ d.readyState = f.readyState
        /\ d.rid = f.rid /\ d.sid = f.sid /\ d.data = f.data /\ d.requests = f.requests
        /\ d.connected = f.connected /\ d.authenticated = f.authenticated
        /\ d.disconnecting = f.disconnecting
        /\ d.stage = f.stage /\ d.opened = f.opened /\ d.closed = f.closed
        /\ d.delivered = f.delivered /\ d.abandoned = f.abandoned /\ d.threw = f.threw
    BY <1>1, <2>3, HandlersFacts
  <2> HIDE DEF d
  <2>5. ~c.authenticated /\ ~Busy(c)
    <3>1. ~c.authenticated
      BY <1>1, <1>5, ClientFields DEF ClientInv, Life, Good, Stages
    <3>2. ~Busy(c)
      BY <1>1, <1>5, <2>2 DEF Busy, OnlyTerminates
    <3> QED BY <3>1, <3>2
  <2>6. ~Busy(d)
    BY <2>3, <2>4, <2>5 DEF Steady, Busy
  <2>7. Waiting(d) \subseteq Waiting(c) /\ ("message" \in Waiting(c) => "message" \in Waiting(d))
    BY <2>3, <2>4 DEF Steady, Waiting
  <2>8. Stays(c, d)
    BY <2>3, <2>4, <2>6, <2>7 DEF Steady, Stays, Grows, ClientInv, Busy
  <2> QED BY <1>1, <1>5, <2>1, <2>4, <2>8
<1> QED BY <1>3, <1>4, <1>5

\* The messages of an answer reach the page.
Delivers(c, d, messages, thrown) ==
  /\ Good(d) /\ d.rid = c.rid /\ d.requests = c.requests /\ d.sid = c.sid /\ d.data = c.data
  /\ d.connected = c.connected /\ d.authenticated = c.authenticated /\ d.stage = c.stage
  /\ d.opened = c.opened /\ d.closed = c.closed /\ d.abandoned = c.abandoned
  /\ d.readyState = c.readyState
  /\ c.disconnecting => d.disconnecting
  /\ IF c.authenticated /\ "message" \in c.handlers
     THEN LET last == IF thrown \in messages THEN thrown ELSE MaxMessages
          IN  /\ d.delivered = [m \in Messages |-> IF m \in messages /\ m <= last
                                                   THEN c.delivered[m] + 1
                                                   ELSE c.delivered[m]]
              /\ thrown \in messages => d.threw
              /\ thrown \notin messages => Waiting(d) = Waiting(c) /\ d.threw = c.threw
     ELSE /\ d.delivered = c.delivered /\ Waiting(d) = Waiting(c) /\ d.threw = c.threw

\* forwardmessage_.
LEMMA ForwardFacts ==
  ASSUME NEW c, ClientInv(c), NEW messages \in SUBSET Messages, NEW thrown \in Messages \cup {0}
  PROVE  LET d == ForwardMessages(c, messages, thrown)
         IN  ClientInv(d) /\ Delivers(c, d, messages, thrown)
<1>1. c \in Clients /\ Good(c) /\ c.handlers \in HandlerSets /\ c.delivered \in Deliveries
      /\ c.threw \in BOOLEAN
  BY ClientFields DEF ClientInv, Good
<1>2. CASE ~c.authenticated \/ "message" \notin c.handlers
  <2>1. ForwardMessages(c, messages, thrown) = c
    BY <1>2 DEF ForwardMessages
  <2> QED BY <1>1, <1>2, <2>1 DEF Delivers
<1>3. CASE c.authenticated /\ "message" \in c.handlers
  <2> DEFINE last == IF thrown \in messages THEN thrown ELSE MaxMessages
             f == [m \in Messages |-> IF m \in messages /\ m <= last
                                      THEN c.delivered[m] + 1 ELSE c.delivered[m]]
             h == IF thrown \in messages THEN {} ELSE c.handlers
             t == c.threw \/ thrown \in messages
             e1 == [c EXCEPT !.delivered = f]
             e2 == [e1 EXCEPT !.handlers = h]
             d == [e2 EXCEPT !.threw = t]
  <2>1. f \in Deliveries
    BY <1>1 DEF Deliveries
  <2>2. h \in HandlerSets /\ t \in BOOLEAN /\ h \subseteq c.handlers
    BY <1>1 DEF HandlerSets
  <2>3. ForwardMessages(c, messages, thrown) = d
    <3>1. \A m \in Messages : (IF m \in messages /\ m <= last THEN c.delivered[m] + 1 ELSE c.delivered[m]) = f[m]
      OBVIOUS
    <3>2. ForwardMessages(c, messages, thrown) = [c EXCEPT !.delivered = f, !.handlers = h, !.threw = t]
      BY <1>3 DEF ForwardMessages
    <3> HIDE DEF f, h, t
    <3>3. [c EXCEPT !.delivered = f, !.handlers = h, !.threw = t] = d
      BY <1>1 DEF Clients
    <3> QED BY <3>2, <3>3
  <2>4. /\ thrown \notin messages => h = c.handlers /\ t = c.threw
        /\ thrown \in messages => t
    BY <1>1
  <2>5. f = [m \in Messages |-> IF m \in messages /\ m <= last
                                THEN c.delivered[m] + 1 ELSE c.delivered[m]]
    OBVIOUS
  <2> HIDE DEF f, h, t
  <2>6. e1 \in Clients
    BY <1>1, <2>1, SetField
  <2>7. e2 \in Clients
    <3> HIDE DEF e1
    <3> QED BY <2>2, <2>6, SetField
  <2>8. d \in Clients
    <3> HIDE DEF e2
    <3> QED BY <2>2, <2>7, SetField
  <2>9. /\ d.rid = c.rid /\ d.requests = c.requests /\ d.sid = c.sid /\ d.data = c.data
        /\ d.connected = c.connected /\ d.authenticated = c.authenticated
        /\ d.disconnecting = c.disconnecting /\ d.timers = c.timers /\ d.stage = c.stage
    BY <1>1 DEF Clients
  <2>10. /\ d.handlers = h /\ d.addHandlers = c.addHandlers /\ d.readyState = c.readyState
         /\ d.opened = c.opened /\ d.closed = c.closed /\ d.delivered = f
         /\ d.abandoned = c.abandoned /\ d.threw = t
    BY <1>1 DEF Clients
  <2> HIDE DEF d
  <2>11. Good(d)
    BY <1>1, <2>8, <2>9 DEF Good
  <2>12. Life(d) /\ Fresh(d)
    BY <2>2, <2>9, <2>10 DEF ClientInv, Life, Fresh, HasConnect, Waiting
  <2>13. Queue(d)
    BY <2>9 DEF ClientInv, Queue, OnlyTerminates, AllYoung
  <2>14. /\ thrown \in messages => d.threw
         /\ thrown \notin messages => Waiting(d) = Waiting(c) /\ d.threw = c.threw
    BY <2>4, <2>10 DEF Waiting
  <2> HIDE DEF last
  <2>15. Delivers(c, d, messages, thrown)
    BY <1>3, <2>5, <2>9, <2>10, <2>11, <2>14 DEF Delivers, last
  <2> QED BY <2>3, <2>11, <2>12, <2>13, <2>15 DEF ClientInv
<1> QED BY <1>2, <1>3


\* What an answer with stanzas does.
Stanzas(c, d, reply, thrown) ==
  \E a :
    /\ Good(a) /\ ("message" \in a.handlers <=> "message" \in Waiting(c))
    /\ \/ Stays(c, a) /\ (reply.auth = "next" => "auth" \notin Waiting(c))
       \/ reply.auth = "next" /\ "auth" \in Waiting(c) /\ Advances(c, a)
    /\ Delivers(a, d, reply.messages, thrown)

\* _dataRecv.
LEMMA DataRecvFacts ==
  ASSUME NEW c, ClientInv(c), NEW reply \in Replies, NEW legacy,
         NEW thrown \in Messages \cup {0}, reply.type \notin {"mechanisms", "bare"},
         reply.auth # "none" /\ "auth" \in Waiting(c) => OnlyTerminates(c) /\ ~c.data
  PROVE  LET d == DataRecv(c, reply, legacy, thrown)
         IN  /\ ClientInv(d)
             /\ \/ Finished(c, d)
                \/ Steady(c, d) /\ reply.type # "stanzas"
                \/ reply.type = "stanzas" /\ Stanzas(c, d, reply, thrown)
<1> DEFINE d == DataRecv(c, reply, legacy, thrown)
           m == MergeHandlers(c)
           a == AuthStanza(m, reply.auth, legacy)
<1>1. /\ Good(c) /\ reply.auth \in {"none", "next", "failure"}
      /\ reply.messages \in SUBSET Messages
      /\ reply.type \in {"mechanisms", "bare", "stanzas", "terminate", "blank", "garbled"}
  BY DEF ClientInv, Replies
<1>2. /\ ClientInv(m) /\ Steady(c, m) /\ m.requests = c.requests /\ m.rid = c.rid
      /\ m.handlers = Waiting(c) /\ m.addHandlers = {} /\ m.data = c.data /\ Good(m)
      /\ m.readyState = c.readyState
  BY MergeFacts DEF ClientInv
<1>3. CASE reply.type = "blank"
  <2>1. d = c
    BY <1>3 DEF DataRecv
  <2>2. Steady(c, d)
    BY <1>1, <2>1, QuietReflexive, QuietSteady
  <2> QED BY <1>3, <2>1, <2>2
<1>4. CASE reply.type = "garbled"
  <2>1. d = Disconnect(c)
    BY <1>4 DEF DataRecv
  <2> QED BY <1>4, <2>1, DisconnectFacts DEF Outcome
<1>5. CASE reply.type \notin {"blank", "garbled"} /\ m.disconnecting /\ Pending(m) = 0
  <2>1. d = DoDisconnect(m)
    BY <1>5 DEF DataRecv
  <2>2. DOMAIN m.requests = {}
    BY <1>2, <1>5, FirstSecond
  <2>3. Finished(m, d)
    BY <1>2, <2>1, <2>2, DoDisconnectFinishes DEF HasConnect
  <2>4. Finished(c, d)
    BY <1>1, <1>2, <2>3, SteadyFinished
  <2>5. ClientInv(d)
    BY <1>1, <2>4, FinishedInv, ClientFields DEF ClientInv, Good
  <2> QED BY <2>4, <2>5
<1>6. CASE reply.type = "terminate" /\ ~(m.disconnecting /\ Pending(m) = 0)
  <2>1. d = IF m.disconnecting THEN m ELSE Disconnect(Closing(m))
    BY <1>6 DEF DataRecv
  <2>2. CASE m.disconnecting
    BY <1>2, <1>6, <2>1, <2>2
  <2>3. CASE ~m.disconnecting
    <3>1. ClientInv(Closing(m)) /\ Steady(m, Closing(m))
      BY <1>2, ClosingInv
    <3>2. ClientInv(d) /\ Outcome(Closing(m), d)
      BY <2>1, <2>3, <3>1, DisconnectFacts
    <3>3. Outcome(c, d)
      BY <1>1, <1>2, <3>1, <3>2, OutcomeTransitive DEF Outcome
    <3> QED BY <1>6, <3>2, <3>3 DEF Outcome
  <2> QED BY <2>2, <2>3
<1>7. CASE reply.type \notin {"blank", "garbled", "terminate"} /\ ~(m.disconnecting /\ Pending(m) = 0)
  <2>1. d = ForwardMessages(a, reply.messages, thrown)
    BY <1>7 DEF DataRecv
  <2>2. Waiting(m) = Waiting(c) /\ (OnlyTerminates(m) <=> OnlyTerminates(c))
    BY <1>2 DEF Waiting, OnlyTerminates
  <2>3. /\ ClientInv(a) /\ ("message" \in a.handlers <=> "message" \in m.handlers)
        /\ \/ Stays(m, a) /\ (reply.auth = "next" => "auth" \notin Waiting(m))
           \/ reply.auth = "next" /\ "auth" \in Waiting(m) /\ Advances(m, a)
    BY <1>1, <1>2, <2>2, AuthStanzaFacts
  <2> HIDE DEF a
  <2>4. Stays(m, a) => Stays(c, a)
    BY <1>2, <2>2 DEF Steady, Stays, Grows, Busy
  <2>5. Advances(m, a) => Advances(c, a)
    BY <1>2 DEF Steady, Advances
  <2>6. ClientInv(d) /\ Delivers(a, d, reply.messages, thrown)
    BY <1>1, <2>1, <2>3, ForwardFacts
  <2>7. Stanzas(c, d, reply, thrown)
    BY <1>2, <2>2, <2>3, <2>4, <2>5, <2>6 DEF Stanzas, ClientInv
  <2> QED BY <1>1, <1>7, <2>6, <2>7
<1> QED BY <1>1, <1>3, <1>4, <1>5, <1>6, <1>7


\* What the answer to connect() leaves, unless its handling ends the connection.
Connects(c, d, reply) ==
  /\ Good(d) /\ d.connected /\ d.authenticated = c.authenticated
  /\ d.opened = c.opened /\ d.closed = c.closed /\ d.stage = c.stage
  /\ d.delivered = c.delivered /\ d.abandoned = c.abandoned /\ d.threw = c.threw
  /\ c.disconnecting => d.disconnecting
  /\ "message" \in Waiting(d) <=> "message" \in Waiting(c)
  /\ \A r \in DOMAIN c.requests :
       /\ r \in DOMAIN d.requests
       /\ d.requests[r].kind = c.requests[r].kind /\ d.requests[r].sid = c.requests[r].sid
  /\ IF reply.type = "bare"
     THEN /\ d.rid = c.rid + 1 /\ DOMAIN d.requests = DOMAIN c.requests \cup {c.rid}
          /\ d.requests[c.rid].kind = "connect" /\ d.sid /\ d.data = c.data
     ELSE /\ d.rid = c.rid /\ DOMAIN d.requests = DOMAIN c.requests
          /\ IF reply.type \in {"blank", "garbled", "terminate"}
             THEN d.sid = c.sid /\ d.data = c.data
             ELSE d.sid /\ d.data /\ "auth" \in Waiting(d)

\* Before _connect_cb: nothing but terminates is in the queue.
Unconnected(c) ==
  /\ ClientInv(c) /\ OnlyTerminates(c) /\ ~c.data /\ "auth" \notin Waiting(c)
  /\ c.stage = 0 /\ c.opened = 0 /\ c.closed = 0
  /\ ~c.connected => ~c.disconnecting /\ DOMAIN c.requests = {}

\* connected is set.
LEMMA ConnectedFacts ==
  ASSUME NEW c, Unconnected(c)
  PROVE  LET d == [c EXCEPT !.connected = TRUE]
         IN  /\ ClientInv(d) /\ Unconnected(d) /\ AllYoung(d) /\ d.connected /\ SamePage(c, d)
             /\ d.rid = c.rid /\ d.requests = c.requests /\ d.sid = c.sid /\ d.data = c.data
             /\ d.authenticated = c.authenticated /\ d.disconnecting = c.disconnecting
<1> DEFINE d == [c EXCEPT !.connected = TRUE]
<1>1. c \in Clients /\ Good(c)
  BY DEF Unconnected, ClientInv, Good
<1>2. d \in Clients
  BY <1>1, SetField
<1>3. /\ d.connected /\ d.rid = c.rid /\ d.requests = c.requests /\ d.sid = c.sid
      /\ d.data = c.data /\ d.authenticated = c.authenticated
      /\ d.disconnecting = c.disconnecting /\ d.timers = c.timers
  BY <1>1 DEF Clients
<1>4. SamePage(c, d)
  BY <1>1 DEF Clients, SamePage
<1> HIDE DEF d
<1>5. Good(d)
  BY <1>1, <1>2, <1>3 DEF Good
<1>6. Life(d)
  BY <1>3, <1>4 DEF Unconnected, ClientInv, Life, SamePage, Waiting
<1>7. Fresh(d) /\ OnlyTerminates(d)
  BY <1>3 DEF Unconnected, OnlyTerminates, Fresh, HasConnect
<1>8. Queue(d)
  <2>1. CASE c.connected
    BY <1>3, <2>1 DEF Unconnected, ClientInv, Queue, OnlyTerminates, AllYoung
  <2>2. CASE ~c.connected
    BY <1>3, <2>2 DEF Unconnected, Queue
  <2> QED BY <2>1, <2>2
<1>9. AllYoung(d)
  BY <1>3, <1>7, <1>8 DEF Queue, OnlyTerminates, AllYoung
<1> QED BY <1>3, <1>4, <1>5, <1>6, <1>7, <1>8, <1>9 DEF ClientInv, Unconnected, SamePage, Waiting, d

\* The session id is taken.
LEMMA SidFacts ==
  ASSUME NEW c, Unconnected(c), c.connected
  PROVE  LET d == [c EXCEPT !.sid = TRUE]
         IN  /\ ClientInv(d) /\ Unconnected(d) /\ d.connected /\ d.sid /\ SamePage(c, d)
             /\ d.rid = c.rid /\ d.requests = c.requests /\ d.data = c.data
             /\ d.authenticated = c.authenticated /\ d.disconnecting = c.disconnecting
             /\ d.timers = c.timers
<1> DEFINE d == [c EXCEPT !.sid = TRUE]
<1>1. c \in Clients /\ Good(c)
  BY DEF Unconnected, ClientInv, Good
<1>2. d \in Clients
  BY <1>1, SetField
<1>3. /\ d.connected /\ d.rid = c.rid /\ d.requests = c.requests /\ d.sid
      /\ d.data = c.data /\ d.authenticated = c.authenticated
      /\ d.disconnecting = c.disconnecting /\ d.timers = c.timers
  BY <1>1 DEF Clients
<1>4. SamePage(c, d)
  BY <1>1 DEF Clients, SamePage
<1> HIDE DEF d
<1>5. Good(d)
  BY <1>1, <1>2, <1>3 DEF Good
<1>6. Life(d)
  BY <1>3, <1>4 DEF Unconnected, ClientInv, Life, SamePage, Waiting
<1>7. Fresh(d) /\ OnlyTerminates(d)
  BY <1>3 DEF Unconnected, OnlyTerminates, Fresh, HasConnect
<1>8. Queue(d)
  BY <1>3 DEF Unconnected, ClientInv, Queue, OnlyTerminates, AllYoung
<1> QED BY <1>3, <1>4, <1>5, <1>6, <1>7, <1>8 DEF ClientInv, Unconnected, SamePage, Waiting, d

\* One more request is made for the mechanisms.
LEMMA BareFacts ==
  ASSUME NEW c, Unconnected(c), c.connected, c.sid
  PROVE  LET p == Push(c, "connect")
         IN  /\ ClientInv(p) /\ Added(c, p, "connect") /\ SamePage(c, p) /\ SameSession(c, p)
             /\ c.rid \notin DOMAIN c.requests
<1> DEFINE p == Push(c, "connect")
<1>1. Good(c) /\ ClientInv(c) /\ OnlyTerminates(c)
  BY DEF Unconnected, ClientInv
<1>2. /\ Good(p) /\ Added(c, p, "connect") /\ SamePage(c, p) /\ SameSession(c, p)
      /\ c.rid \notin DOMAIN c.requests
  BY <1>1, PushFacts
<1> HIDE DEF p
<1>3. Life(p)
  BY <1>1, <1>2 DEF ClientInv, Life, SamePage, SameSession, Waiting
<1>4. Fresh(p)
  BY <1>2 DEF Unconnected, Fresh, SamePage, SameSession, Waiting
<1>5. Queue(p)
  <2>1. /\ DOMAIN p.requests = DOMAIN c.requests \cup {c.rid}
        /\ \A r \in DOMAIN c.requests : p.requests[r] = c.requests[r]
        /\ p.requests[c.rid].kind = "connect" /\ ~p.data
        /\ p.disconnecting = c.disconnecting /\ p.timers = c.timers
    BY <1>2 DEF Added, SameSession, Unconnected
  <2>2. \A r \in DOMAIN p.requests : p.requests[r].kind # "terminate" => r = c.rid
    BY <1>1, <2>1 DEF OnlyTerminates
  <2>3. ~c.disconnecting => \A r \in DOMAIN p.requests : p.requests[r].kind # "terminate"
    BY <1>1, <2>1 DEF ClientInv, Queue
  <2>4. c.disconnecting => c.timers > 0 /\ AllYoung(p)
    BY <1>1, <2>1 DEF ClientInv, Queue, AllYoung, Young
  <2> QED BY <2>1, <2>2, <2>3, <2>4 DEF Queue
<1> QED BY <1>2, <1>3, <1>4, <1>5 DEF ClientInv, p


\* _connect_cb.
LEMMA ConnectCbFacts ==
  ASSUME NEW c, Unconnected(c), NEW reply \in Replies
  PROVE  LET d == ConnectCb(c, reply)
         IN  /\ ClientInv(d)
             /\ Connects(c, d, reply) \/ Finished([c EXCEPT !.connected = TRUE], d)
<1> DEFINE k == [c EXCEPT !.connected = TRUE]
           e == [k EXCEPT !.sid = TRUE]
           d == ConnectCb(c, reply)
<1>1. c \in Clients /\ Good(c)
  BY DEF Unconnected, ClientInv, Good
<1>2. /\ ClientInv(k) /\ Unconnected(k) /\ AllYoung(k) /\ k.connected /\ SamePage(c, k)
      /\ k.rid = c.rid /\ k.requests = c.requests /\ k.sid = c.sid /\ k.data = c.data
      /\ k.authenticated = c.authenticated /\ k.disconnecting = c.disconnecting
  BY ConnectedFacts
<1>3. d = CASE reply.type \in {"blank", "garbled"} -> k
            [] reply.type = "terminate" -> Closing(k)
            [] reply.type = "bare" -> ThrottledRequestHandler(Push(e, "connect"))
            [] OTHER -> Send([e EXCEPT !.addHandlers = @ \cup {"auth"}])
  BY DEF ConnectCb
<1> HIDE DEF k, d
<1>4. CASE reply.type \in {"blank", "garbled"}
  <2>1. d = k
    BY <1>3, <1>4
  <2>2. Connects(c, k, reply)
    BY <1>2, <1>4 DEF Connects, SamePage, ClientInv, Waiting
  <2> QED BY <1>2, <2>1, <2>2 DEF d
<1>5. CASE reply.type = "terminate"
  <2>1. d = Closing(k)
    BY <1>3, <1>5
  <2>2. ClientInv(d) /\ Good(k)
    BY <1>2, <2>1, ClosingInv DEF ClientInv
  <2>3. /\ SameSession(k, d) /\ d.rid = k.rid /\ d.requests = k.requests
        /\ d.opened = k.opened /\ d.closed = k.closed
        /\ d.delivered = k.delivered /\ d.abandoned = k.abandoned /\ d.threw = k.threw
        /\ d.stage = k.stage /\ d.handlers = k.handlers /\ d.addHandlers = k.addHandlers
    BY <2>1, <2>2, ClosingFacts
  <2>4. Connects(c, d, reply)
    BY <1>2, <1>5, <2>2, <2>3 DEF Connects, SamePage, SameSession, ClientInv, Waiting
  <2> QED BY <2>2, <2>4 DEF d
<1>6. CASE reply.type \in {"bare", "mechanisms", "stanzas"}
  <2>1. /\ ClientInv(e) /\ Unconnected(e) /\ e.connected /\ e.sid /\ SamePage(k, e)
        /\ e.rid = k.rid /\ e.requests = k.requests /\ e.data = k.data
        /\ e.authenticated = k.authenticated /\ e.disconnecting = k.disconnecting
        /\ e.timers = k.timers
    BY <1>2, SidFacts
  <2> HIDE DEF e
  <2>2. CASE reply.type = "bare"
    <3> DEFINE p == Push(e, "connect")
    <3>1. d = ThrottledRequestHandler(p)
      BY <1>3, <2>2
    <3>2. /\ ClientInv(p) /\ Added(e, p, "connect") /\ SamePage(e, p) /\ SameSession(e, p)
          /\ e.rid \notin DOMAIN e.requests
      BY <2>1, BareFacts
    <3> HIDE DEF p
    <3>3. QuietOrFinished(p, d) /\ ClientInv(d)
      BY <3>1, <3>2, ThrottledFacts, QuietOrFinishedInv DEF ClientInv
    <3>4. CASE Quiet(p, d)
      <4>1. /\ d.rid = c.rid + 1 /\ DOMAIN d.requests = DOMAIN c.requests \cup {c.rid}
            /\ d.requests[c.rid].kind = "connect" /\ d.sid /\ d.data = c.data
            /\ c.rid \notin DOMAIN c.requests
        BY <1>2, <2>1, <3>2, <3>4 DEF Quiet, Frame, Added, SameSession
      <4>2. \A r \in DOMAIN c.requests :
              /\ r \in DOMAIN d.requests
              /\ d.requests[r].kind = c.requests[r].kind /\ d.requests[r].sid = c.requests[r].sid
        BY <1>2, <2>1, <3>2, <3>4 DEF Quiet, Added
      <4>3. /\ d.connected /\ d.authenticated = c.authenticated
            /\ d.disconnecting = c.disconnecting
            /\ d.opened = c.opened /\ d.closed = c.closed /\ d.stage = c.stage
            /\ d.delivered = c.delivered /\ d.abandoned = c.abandoned /\ d.threw = c.threw
            /\ d.handlers = c.handlers /\ d.addHandlers = c.addHandlers
        BY <1>2, <2>1, <3>2, <3>4 DEF Quiet, Frame, SamePage, SameSession
      <4>4. Connects(c, d, reply)
        BY <2>2, <3>3, <4>1, <4>2, <4>3 DEF Connects, QuietOrFinished, Waiting
      <4> QED BY <3>3, <4>4 DEF d
    <3>5. CASE Finished(p, d)
      <4>1. p.rid = k.rid + 1 /\ k.rid \in Nat /\ p.connected /\ k.connected
            /\ DOMAIN p.requests = DOMAIN k.requests \cup {k.rid}
            /\ \A r \in DOMAIN k.requests : p.requests[r] = k.requests[r]
        BY <1>2, <2>1, <3>2, Rids DEF Added, SameSession, Unconnected, ClientInv
      <4>2. p.closed = k.closed /\ p.opened = k.opened /\ p.delivered = k.delivered
            /\ p.stage = k.stage /\ p.threw = k.threw
        BY <2>1, <3>2 DEF SamePage
      <4>3. d.rid \in Nat
        BY <3>3, ClientFields DEF QuietOrFinished, Good
      <4>4. \A r \in DOMAIN d.requests : r \in Nat
        BY <3>3, ClientFields, QueueType DEF QuietOrFinished, Good
      <4>5. Finished(k, d)
        BY <3>5, <4>1, <4>2, <4>3, <4>4 DEF Finished
      <4> QED BY <3>3, <4>5 DEF d, k
    <3> QED BY <3>3, <3>4, <3>5 DEF QuietOrFinished
  <2>3. CASE reply.type \in {"mechanisms", "stanzas"}
    <3> DEFINE b == [e EXCEPT !.addHandlers = e.addHandlers \cup {"auth"}]
    <3>1. d = Send(b)
      BY <1>3, <2>3
    <3>2. e \in Clients /\ e.addHandlers \in HandlerSets /\ Rounds \in Nat \ {0}
          /\ Good(e)
      BY <2>1, ClientFields, LimitAssumption DEF ClientInv, Good
    <3>3. e.addHandlers \cup {"auth"} \in HandlerSets
      BY <3>2 DEF HandlerSets
    <3>4. b \in Clients
      BY <3>2, <3>3, SetField
    <3>5. /\ b.addHandlers = e.addHandlers \cup {"auth"} /\ b.handlers = e.handlers
          /\ b.rid = e.rid /\ b.sid = e.sid /\ b.data = e.data /\ b.requests = e.requests
          /\ b.connected = e.connected /\ b.authenticated = e.authenticated
          /\ b.disconnecting = e.disconnecting /\ b.timers = e.timers
      BY <3>2 DEF Clients
    <3>6. /\ b.readyState = e.readyState /\ b.opened = e.opened /\ b.closed = e.closed
          /\ b.delivered = e.delivered /\ b.abandoned = e.abandoned /\ b.threw = e.threw
          /\ b.stage = e.stage
      BY <3>2 DEF Clients
    <3> HIDE DEF b
    <3>7. Good(b)
      BY <3>2, <3>4, <3>5 DEF Good
    <3>8. Life(b)
      BY <2>1, <3>2, <3>5, <3>6 DEF Unconnected, ClientInv, Life, Waiting
    <3>9. Fresh(b) /\ OnlyTerminates(b)
      BY <2>1, <3>5 DEF Unconnected, OnlyTerminates, Fresh, HasConnect
    <3>10. Queue(b)
      BY <2>1, <3>5 DEF ClientInv, Queue, OnlyTerminates, AllYoung
    <3>11. ClientInv(b) /\ b.connected
      BY <2>1, <3>5, <3>7, <3>8, <3>9, <3>10 DEF ClientInv
    <3> DEFINE s == [b EXCEPT !.data = TRUE]
    <3>12. /\ ClientInv(d) /\ Quiet(s, d)
           /\ s.data /\ s.rid = b.rid /\ s.requests = b.requests /\ SamePage(b, s)
           /\ s.sid = b.sid /\ s.connected = b.connected /\ s.authenticated = b.authenticated
           /\ s.disconnecting = b.disconnecting
      BY <3>1, <3>9, <3>11, SendFacts
    <3> HIDE DEF s
    <3>13. /\ d.rid = c.rid /\ DOMAIN d.requests = DOMAIN c.requests /\ d.sid /\ d.data
           /\ \A r \in DOMAIN c.requests :
                d.requests[r].kind = c.requests[r].kind /\ d.requests[r].sid = c.requests[r].sid
      BY <1>2, <2>1, <3>5, <3>12 DEF Quiet, Frame
    <3>14. /\ d.connected /\ d.authenticated = c.authenticated
           /\ d.disconnecting = c.disconnecting
           /\ d.opened = c.opened /\ d.closed = c.closed /\ d.stage = c.stage
           /\ d.delivered = c.delivered /\ d.abandoned = c.abandoned /\ d.threw = c.threw
           /\ d.handlers = c.handlers /\ d.addHandlers = c.addHandlers \cup {"auth"}
      BY <1>2, <2>1, <3>5, <3>6, <3>12 DEF Quiet, Frame, SamePage
    <3>15. Connects(c, d, reply)
      BY <2>3, <3>12, <3>13, <3>14 DEF Connects, ClientInv, Waiting
    <3> QED BY <3>12, <3>15 DEF d
  <2> QED BY <1>6, <2>2, <2>3
<1>7. reply.type \in {"mechanisms", "bare", "stanzas", "terminate", "blank", "garbled"}
  BY DEF Replies
<1> QED BY <1>4, <1>5, <1>6, <1>7


-----------------------------------------------------------------------------
(* Answers.                                                                *)

\* What an answer does to the client that has taken its request, r, off.
Succeeds(c, r, d, reply, thrown) ==
  \/ Finished(c, d)
  \/ /\ c.requests[r].kind = "connect"
     /\ \E k : /\ Unconnected(k) /\ Quiet(Without(c, r), k)
               /\ Connects(k, d, reply) \/ Finished([k EXCEPT !.connected = TRUE], d)
  \/ /\ c.requests[r].kind # "connect"
     /\ \E k : /\ ClientInv(k) /\ Quiet(Without(c, r), k)
               /\ \/ Stays(k, d) /\ reply.type # "stanzas"
                  \/ reply.type = "stanzas" /\ Stanzas(k, d, reply, thrown)

\* The count of errors starts anew.
LEMMA ErrorsFacts ==
  ASSUME NEW c, ClientInv(c)
  PROVE  LET d == [c EXCEPT !.errors = 0]
         IN  ClientInv(d) /\ Quiet(c, d) /\ d.requests = c.requests
<1> DEFINE d == [c EXCEPT !.errors = 0]
<1>1. c \in Clients /\ Good(c) /\ 0 \in Errors
  BY LimitAssumption DEF ClientInv, Good, Errors
<1>2. d \in Clients
  BY <1>1, SetField
<1>3. d.requests = c.requests /\ d.rid = c.rid
  BY <1>1 DEF Clients
<1>4. Frame(c, d)
  BY <1>1 DEF Clients, Frame
<1> HIDE DEF d
<1>5. Good(d) /\ Quiet(c, d)
  BY <1>1, <1>2, <1>3, <1>4 DEF Good, Quiet
<1> QED BY <1>3, <1>5, QuietInv DEF d

\* A finished connection stays so.
LEMMA FinishedStays ==
  ASSUME NEW c, Good(c), NEW k, Good(k), Finished(c, k), NEW d
  PROVE  /\ Stays(k, d) => Finished(c, d)
         /\ \A messages, thrown : Delivers(k, d, messages, thrown) => Finished(c, d)
<1>1. /\ k.rid \in Nat /\ c.rid \in Nat /\ k.rid >= c.rid /\ Waiting(k) = {}
  BY Rids DEF Finished, Waiting
<1>2. ASSUME Stays(k, d) PROVE Finished(c, d)
  <2>1. Good(d) /\ d.rid \in Nat /\ d.rid >= c.rid
    BY <1>1, <1>2, Rids DEF Stays, Grows
  <2>2. d.handlers = {} /\ d.addHandlers = {}
    BY <1>1, <1>2 DEF Stays, Waiting
  <2>3. \A r \in DOMAIN d.requests :
          /\ d.requests[r].kind # "connect"
          /\ r >= c.rid \/ (r \in DOMAIN c.requests /\ d.requests[r].kind = c.requests[r].kind)
    BY <1>1, <1>2, <2>1 DEF Stays, Grows, Finished
  <2> QED BY <1>2, <2>1, <2>2, <2>3 DEF Finished, Stays
<1>3. ASSUME NEW messages, NEW thrown, Delivers(k, d, messages, thrown)
      PROVE  Finished(c, d)
  <2>1. ~k.authenticated
    BY DEF Finished
  <2>2. d.handlers = {} /\ d.addHandlers = {}
    BY <1>1, <1>3, <2>1 DEF Delivers, Waiting
  <2> QED BY <1>3, <2>1, <2>2 DEF Delivers, Finished
<1> QED BY <1>2, <1>3

\* Between the removal of a request and the handling of its answer.
LEMMA RemovedFacts ==
  ASSUME NEW c, ClientInv(c), NEW r \in DOMAIN c.requests, NEW k, ClientInv(k),
         QuietOrFinished(Without(c, r), k)
  PROVE  /\ Finished(Without(c, r), k) => Finished(c, k)
         /\ Quiet(Without(c, r), k) =>
              /\ k.connected = c.connected
              /\ DOMAIN k.requests = DOMAIN c.requests \ {r}
              /\ c.connected /\ c.requests[r].kind = "data" => OnlyTerminates(k) /\ ~k.data
              /\ c.requests[r].kind = "connect" => Unconnected(k)
<1> DEFINE w == Without(c, r)
<1>1. /\ Good(w) /\ Frame(c, w) /\ DOMAIN w.requests = DOMAIN c.requests \ {r}
      /\ \A s \in DOMAIN w.requests : w.requests[s] = c.requests[s]
  BY WithoutFacts DEF ClientInv
<1>2. Finished(w, k) => Finished(c, k)
  BY WithoutFinished DEF ClientInv
<1> HIDE DEF w
<1>3. ASSUME Quiet(w, k)
      PROVE  /\ k.connected = c.connected /\ k.data = c.data /\ k.disconnecting = c.disconnecting
             /\ k.stage = c.stage /\ k.opened = c.opened /\ k.closed = c.closed
             /\ k.handlers = c.handlers /\ k.addHandlers = c.addHandlers
             /\ DOMAIN k.requests = DOMAIN c.requests \ {r}
             /\ \A s \in DOMAIN k.requests : k.requests[s].kind = c.requests[s].kind
  BY <1>1, <1>3 DEF Quiet, Frame
<1>4. ASSUME Quiet(w, k), c.connected, c.requests[r].kind # "terminate"
      PROVE  OnlyTerminates(k)
  BY <1>3, <1>4 DEF ClientInv, Queue, OnlyTerminates
<1>5. ASSUME c.connected, c.requests[r].kind # "terminate"
      PROVE  ~c.data
  BY <1>5 DEF ClientInv, Queue, OnlyTerminates
<1>6. ASSUME Quiet(w, k), c.requests[r].kind = "connect"
      PROVE  Unconnected(k)
  <2>1. HasConnect(c)
    BY <1>6 DEF HasConnect
  <2>2. /\ c.stage = 0 /\ c.opened = 0 /\ c.closed = 0 /\ "auth" \notin Waiting(c) /\ ~c.data
        /\ ~c.connected => ~c.disconnecting /\ \A s, t \in DOMAIN c.requests : s = t
    BY <2>1 DEF ClientInv, Fresh
  <2>3. ~c.connected => DOMAIN k.requests = {}
    BY <1>3, <1>6, <2>2
  <2>4. OnlyTerminates(k)
    BY <1>4, <1>6, <2>3, <1>3 DEF OnlyTerminates
  <2> QED BY <1>3, <1>6, <2>2, <2>3, <2>4 DEF Unconnected, Waiting
<1> QED BY <1>2, <1>3, <1>4, <1>5, <1>6 DEF w


\* A change of the count of errors alters nothing of what was done.
LEMMA QuietAfter ==
  ASSUME NEW k, Good(k), NEW v, Good(v), NEW x, Good(x), Quiet(v, x), x.requests = v.requests,
         NEW reply, NEW thrown
  PROVE  /\ Connects(k, v, reply) => Connects(k, x, reply)
         /\ Stays(k, v) => Stays(k, x)
         /\ Stanzas(k, v, reply, thrown) => Stanzas(k, x, reply, thrown)
         /\ Finished(k, v) => Finished(k, x)
<1>1. Frame(v, x) /\ x.requests = v.requests
  BY DEF Quiet
<1>2. Waiting(x) = Waiting(v)
  BY <1>1 DEF Frame, Waiting
<1>3. Connects(k, v, reply) => Connects(k, x, reply)
  BY <1>1, <1>2 DEF Connects, Frame
<1>4. Stays(k, v) => Stays(k, x)
  BY <1>1, <1>2 DEF Stays, Frame, Grows, Busy
<1>5. ASSUME NEW a, Delivers(a, v, reply.messages, thrown)
      PROVE  Delivers(a, x, reply.messages, thrown)
  BY <1>1, <1>2, <1>5 DEF Delivers, Frame
<1>6. Stanzas(k, v, reply, thrown) => Stanzas(k, x, reply, thrown)
  BY <1>5 DEF Stanzas
<1> QED BY <1>3, <1>4, <1>6, FinishedCompose

\* What fits the kind of a request.
Fits(kind, reply) ==
  /\ reply \in Replies
  /\ kind # "data" \/ reply.type # "stanzas" => reply.auth = "none" /\ reply.messages = {}
  /\ kind # "connect" => reply.type \notin {"mechanisms", "bare"}

\* _onRequestStateChange with status 200.
LEMMA SucceedFacts ==
  ASSUME NEW c, ClientInv(c), NEW r \in DOMAIN c.requests, NEW reply,
         Fits(c.requests[r].kind, reply), NEW legacy, NEW thrown \in Messages \cup {0}
  PROVE  LET d == Succeed(c, r, reply, legacy, thrown)
         IN  ClientInv(d) /\ Succeeds(c, r, d, reply, thrown)
<1> DEFINE w == Without(c, r)
           second == Pending(c) > 1 /\ r = Second(c)
           removed == RemoveRequest(c, r)
           k == IF second THEN ProcessFirst(removed) ELSE removed
           v == IF c.requests[r].kind = "connect" THEN ConnectCb(k, reply)
                ELSE DataRecv(k, reply, legacy, thrown)
           d == Succeed(c, r, reply, legacy, thrown)
<1>1. /\ Good(c) /\ reply \in Replies
      /\ c.requests[r].kind \in {"connect", "data", "terminate"}
  BY ClientFields, QueueType DEF ClientInv, Good, Fits, Requests
<1>2. ClientInv(w) /\ ClientInv(removed) /\ QuietOrFinished(w, removed)
  BY RemoveInv
<1>3. /\ Good(w) /\ Frame(c, w) /\ DOMAIN w.requests = DOMAIN c.requests \ {r}
      /\ \A s \in DOMAIN w.requests : w.requests[s] = c.requests[s]
  BY <1>1, WithoutFacts
<1>4. d = IF second /\ Pending(removed) = 0 THEN removed
          ELSE IF Throws(c, r, reply, v) THEN v ELSE [v EXCEPT !.errors = 0]
  BY DEF Succeed
<1>5. Good(w) /\ Good(removed) /\ second => r # First(c) /\ First(c) \in DOMAIN c.requests
  BY <1>1, FirstSecond
<1>6. removed = ThrottledRequestHandler(w)
  BY DEF RemoveRequest
<1> HIDE DEF w, removed, d
<1>7. ClientInv(k) /\ QuietOrFinished(w, k)
  <2>1. Good(w) /\ Good(removed)
    BY <1>2 DEF ClientInv
  <2>2. QuietOrFinished(removed, ProcessFirst(removed))
    BY <2>1, ThrottledFacts
  <2>3. QuietOrFinished(w, k)
    BY <1>2, <2>1, <2>2, QuietOrFinishedTransitive
  <2> HIDE DEF k
  <2> QED BY <1>2, <2>3, QuietOrFinishedInv
<1>8. ASSUME c.requests[r].kind = "connect" PROVE Quiet(w, k)
  <2>1. OnlyTerminates(w) /\ AllYoung(w)
    <3>1. CASE c.connected
      BY <1>3, <1>8, <3>1 DEF ClientInv, Queue, OnlyTerminates, AllYoung
    <3>2. CASE ~c.connected
      <4>1. \A s, t \in DOMAIN c.requests : s = t
        BY <1>8, <3>2 DEF ClientInv, Fresh, HasConnect
      <4>2. DOMAIN w.requests = {}
        BY <1>3, <4>1
      <4> QED BY <4>2 DEF OnlyTerminates, AllYoung
    <3> QED BY <3>1, <3>2
  <2>2. Quiet(w, removed) /\ Good(removed)
    BY <1>2, <1>3, <1>6, <2>1, ThrottledFacts DEF ClientInv
  <2>3. OnlyTerminates(removed) /\ AllYoung(removed)
    BY <2>1, <2>2, QuietKinds
  <2>4. Quiet(removed, ProcessFirst(removed))
    BY <2>2, <2>3, ThrottledFacts
  <2> QED BY <2>2, <2>4, QuietTransitive
<1>9. CASE second /\ Pending(removed) = 0
  <2>1. d = removed /\ Good(removed)
    BY <1>2, <1>4, <1>9 DEF ClientInv
  <2>2. DOMAIN removed.requests = {}
    BY <1>9, <2>1, FirstSecond
  <2>3. ~Quiet(w, removed)
    BY <1>1, <1>3, <1>9, <2>2, FirstSecond DEF Quiet
  <2>4. Finished(c, d)
    BY <1>2, <2>1, <2>3, WithoutFinished, <1>1 DEF QuietOrFinished, w
  <2> QED BY <1>2, <2>1, <2>4 DEF Succeeds, d
<1>10. CASE ~(second /\ Pending(removed) = 0)
  <2>1. d = v \/ d = [v EXCEPT !.errors = 0]
    BY <1>4, <1>10
  <2> HIDE DEF second, k
  <2>2. Good(k)
    BY <1>7 DEF ClientInv
  <2>3. /\ ClientInv(v)
        /\ \/ Finished(c, v)
           \/ /\ c.requests[r].kind = "connect" /\ Unconnected(k) /\ Quiet(w, k)
              /\ Connects(k, v, reply) \/ Finished([k EXCEPT !.connected = TRUE], v)
           \/ /\ c.requests[r].kind # "connect" /\ Quiet(w, k)
              /\ \/ Stays(k, v) /\ reply.type # "stanzas"
                 \/ reply.type = "stanzas" /\ Stanzas(k, v, reply, thrown)
    <3>1. CASE c.requests[r].kind = "connect"
      <4>1. Unconnected(k) /\ Quiet(w, k) /\ v = ConnectCb(k, reply)
        BY <1>7, <1>8, <3>1, RemovedFacts DEF w
      <4> HIDE DEF v
      <4>2. ClientInv(v) /\ (Connects(k, v, reply) \/ Finished([k EXCEPT !.connected = TRUE], v))
        BY <1>1, <4>1, ConnectCbFacts
      <4> QED BY <3>1, <4>1, <4>2
    <3>2. CASE c.requests[r].kind # "connect"
      <4>1. v = DataRecv(k, reply, legacy, thrown) /\ reply.type \notin {"mechanisms", "bare"}
        BY <3>2 DEF Fits
      <4>2. Finished(w, k) => Finished(c, k)
        BY <1>7, RemovedFacts DEF w
      <4>3. reply.auth # "none" /\ "auth" \in Waiting(k) => OnlyTerminates(k) /\ ~k.data
        <5>1. SUFFICES ASSUME reply.auth # "none", "auth" \in Waiting(k)
                       PROVE  OnlyTerminates(k) /\ ~k.data
          OBVIOUS
        <5>2. k.connected /\ c.requests[r].kind = "data"
          BY <1>7, <5>1 DEF ClientInv, Life, Fits
        <5>3. Quiet(w, k)
          BY <1>7, <5>2 DEF QuietOrFinished, Finished
        <5> QED BY <1>7, <5>2, <5>3, RemovedFacts DEF w
      <4> HIDE DEF v
      <4>4. /\ ClientInv(v)
            /\ \/ Finished(k, v)
               \/ Steady(k, v) /\ reply.type # "stanzas"
               \/ reply.type = "stanzas" /\ Stanzas(k, v, reply, thrown)
        BY <1>1, <1>7, <4>1, <4>3, DataRecvFacts
      <4>5. Steady(k, v) => Stays(k, v)
        BY DEF Steady, Stays
      <4>6. CASE Quiet(w, k)
        <5>1. Finished(k, v) => Finished(c, v)
          BY <1>1, <4>6, FinishedCompose, WithoutFinished DEF w
        <5> QED BY <3>2, <4>4, <4>5, <4>6, <5>1
      <4>7. CASE Finished(w, k)
        <5>1. Finished(c, k)
          BY <4>2, <4>7
        <5>2. Finished(k, v) => Finished(c, v)
          BY <1>1, <5>1, FinishedCompose
        <5>3. Stays(k, v) => Finished(c, v)
          BY <1>1, <2>2, <5>1, FinishedStays
        <5>4. Stanzas(k, v, reply, thrown) => Finished(c, v)
          <6>1. "auth" \notin Waiting(k)
            BY <5>1 DEF Finished, Waiting
          <6>2. ASSUME NEW a, Good(a), Stays(k, a), Delivers(a, v, reply.messages, thrown)
                PROVE  Finished(c, v)
            <7>1. Finished(c, a)
              BY <1>1, <2>2, <5>1, <6>2, FinishedStays
            <7> QED BY <1>1, <6>2, <7>1, FinishedStays
          <6> QED BY <6>1, <6>2 DEF Stanzas
        <5> QED BY <4>4, <4>5, <5>2, <5>3, <5>4
      <4> QED BY <1>7, <4>6, <4>7 DEF QuietOrFinished
    <3> QED BY <3>1, <3>2
  <2> HIDE DEF v
  <2>4. ClientInv(d) /\ Quiet(v, d) /\ d.requests = v.requests
    BY <2>1, <2>3, QuietReflexive, ErrorsFacts
  <2>5. Good(d) /\ Good(v)
    BY <2>3, <2>4 DEF ClientInv
  <2>6. /\ Connects(k, v, reply) => Connects(k, d, reply)
        /\ Stays(k, v) => Stays(k, d)
        /\ Stanzas(k, v, reply, thrown) => Stanzas(k, d, reply, thrown)
        /\ Finished(c, v) => Finished(c, d)
    BY <1>1, <2>2, <2>4, <2>5, QuietAfter
  <2>7. Finished([k EXCEPT !.connected = TRUE], v) => Finished([k EXCEPT !.connected = TRUE], d)
    BY <2>4, <2>5, FinishedCompose
  <2> QED BY <1>7, <2>3, <2>4, <2>6, <2>7 DEF Succeeds, w, d
<1> QED BY <1>9, <1>10


-----------------------------------------------------------------------------
(* What an event does to the session, request by request.                  *)

\* The session is over.
Over(c, d) ==
  /\ Good(d) /\ d.rid >= c.rid /\ ~d.connected /\ ~d.authenticated /\ ~d.sid
  /\ d.delivered = c.delivered /\ d.opened = c.opened
  /\ d.closed = c.closed \/ (c.closed = 0 /\ d.closed = 1)
  /\ c.connected => d.closed = 1
  /\ \A n \in DOMAIN d.requests :
       /\ d.requests[n].kind # "connect"
       /\ n >= c.rid \/ (n \in DOMAIN c.requests /\ d.requests[n].kind = c.requests[n].kind)

\* The rids of R leave the queue, new ones join it; no step of the
\* authentication, no message.
Goes(c, R, d) ==
  /\ Good(d) /\ d.rid >= c.rid
  /\ d.sid = c.sid /\ d.connected = c.connected /\ d.authenticated = c.authenticated
  /\ d.opened = c.opened /\ d.closed = c.closed /\ d.stage = c.stage
  /\ d.delivered = c.delivered /\ d.threw = c.threw /\ (c.abandoned => d.abandoned)
  /\ c.disconnecting => d.disconnecting
  /\ \A n : n \in DOMAIN d.requests <=> n \in DOMAIN c.requests \ R \/ n \in c.rid..(d.rid - 1)
  /\ \A n \in DOMAIN c.requests \ R :
       d.requests[n].kind = c.requests[n].kind /\ d.requests[n].sid = c.requests[n].sid
  /\ \A n \in c.rid..(d.rid - 1) :
       d.requests[n].kind # "connect" /\ d.requests[n].sid = d.sid
  /\ ~d.authenticated /\ Busy(d) => Busy(c)
  /\ c.data => d.data \/ DOMAIN d.requests # {}
  /\ "message" \in Waiting(c) => "message" \in Waiting(d)
  /\ "auth" \in Waiting(c) => "auth" \in Waiting(d) \/ ~Busy(d)

\* The authentication takes a step, with the answer to r.
Proceeds(c, r, d) ==
  /\ Good(d) /\ d.rid = c.rid
  /\ d.sid = c.sid /\ d.connected = c.connected /\ d.closed = c.closed
  /\ d.delivered = c.delivered /\ d.threw = c.threw /\ d.abandoned = c.abandoned
  /\ c.disconnecting => d.disconnecting
  /\ DOMAIN d.requests = DOMAIN c.requests \ {r}
  /\ \A n \in DOMAIN c.requests \ {r} :
       d.requests[n].kind = c.requests[n].kind /\ d.requests[n].sid = c.requests[n].sid
  /\ d.data /\ d.stage = c.stage + 1
  /\ IF d.stage < Rounds
     THEN "auth" \in Waiting(d) /\ d.authenticated = c.authenticated /\ d.opened = c.opened
     ELSE d.authenticated /\ d.opened = c.opened + 1

\* The answer to connect(), r, is in.
Joins(c, r, d, reply) ==
  /\ Good(d) /\ d.connected /\ ~d.authenticated /\ d.stage = 0
  /\ d.opened = 0 /\ c.opened = 0 /\ d.closed = 0 /\ c.closed = 0
  /\ d.delivered = c.delivered /\ d.abandoned = c.abandoned /\ d.threw = c.threw
  /\ c.disconnecting => d.disconnecting
  /\ "message" \in Waiting(d) <=> "message" \in Waiting(c)
  /\ \A n \in DOMAIN c.requests \ {r} :
       /\ n \in DOMAIN d.requests /\ d.requests[n].kind = "terminate"
       /\ d.requests[n].kind = c.requests[n].kind /\ d.requests[n].sid = c.requests[n].sid
  /\ IF reply.type = "bare"
     THEN /\ d.rid = c.rid + 1 /\ DOMAIN d.requests = (DOMAIN c.requests \ {r}) \cup {c.rid}
          /\ d.requests[c.rid].kind = "connect" /\ d.sid /\ ~d.data
     ELSE /\ d.rid = c.rid /\ DOMAIN d.requests = DOMAIN c.requests \ {r}
          /\ IF reply.type \in {"blank", "garbled", "terminate"}
             THEN d.sid = c.sid /\ ~d.data
             ELSE d.sid /\ d.data /\ "auth" \in Waiting(d)

\* The stanzas of the answer to r are in.
Reads(c, r, d, reply, thrown) ==
  \E a :
    /\ "message" \in a.handlers <=> "message" \in Waiting(c)
    /\ \/ Goes(c, {r}, a) /\ (reply.auth = "next" => "auth" \notin Waiting(c))
       \/ reply.auth = "next" /\ "auth" \in Waiting(c) /\ Proceeds(c, r, a)
    /\ Delivers(a, d, reply.messages, thrown)

\* The end of a connection, seen from its queue.
LEMMA FinishedOver ==
  ASSUME NEW c, Life(c), NEW d, Finished(c, d)
  PROVE  Over(c, d)
BY DEF Finished, Over, Life

\* An event that answers nothing.
LEMMA OutcomeShape ==
  ASSUME NEW c, ClientInv(c), NEW d, Outcome(c, d)
  PROVE  Over(c, d) \/ Goes(c, {}, d)
<1>1. Finished(c, d) => Over(c, d)
  BY FinishedOver DEF ClientInv
<1>2. Steady(c, d) => Goes(c, {}, d)
  BY DEF Steady, Goes, Grows
<1> QED BY <1>1, <1>2 DEF Outcome

\* An event that gives up a request.
LEMMA AbandonShape ==
  ASSUME NEW c, ClientInv(c), NEW r \in DOMAIN c.requests, NEW d, Outcome(Abandons(c, r), d)
  PROVE  Over(c, d) \/ (Goes(c, {r}, d) /\ d.abandoned)
<1> DEFINE w == Without(c, r)
           a == Abandons(c, r)
<1>1. /\ Good(w) /\ Frame(c, w) /\ DOMAIN w.requests = DOMAIN c.requests \ {r}
      /\ \A s \in DOMAIN w.requests : w.requests[s] = c.requests[s]
  BY WithoutFacts DEF ClientInv
<1>2. w \in Clients
  BY <1>1 DEF Good
<1>3. a = [w EXCEPT !.abandoned = TRUE]
  BY DEF Abandons
<1> HIDE DEF w, a
<1>4. /\ a.abandoned
      /\ a.rid = w.rid /\ a.sid = w.sid /\ a.data = w.data /\ a.requests = w.requests
      /\ a.connected = w.connected /\ a.authenticated = w.authenticated
      /\ a.stage = w.stage /\ a.handlers = w.handlers /\ a.addHandlers = w.addHandlers
      /\ a.disconnecting = w.disconnecting
  BY <1>2, <1>3 DEF Clients
<1>5. /\ a.readyState = w.readyState /\ a.opened = w.opened /\ a.closed = w.closed
      /\ a.delivered = w.delivered /\ a.threw = w.threw
  BY <1>2, <1>3 DEF Clients
<1>6. CASE Finished(a, d)
  <2>1. Over(c, d)
    BY <1>1, <1>4, <1>5, <1>6 DEF Finished, Over, Frame, ClientInv, Life
  <2> QED BY <2>1
<1>7. CASE Steady(a, d)
  <2>1. /\ d.abandoned /\ Good(d) /\ d.rid >= c.rid
        /\ d.sid = c.sid /\ d.connected = c.connected /\ d.authenticated = c.authenticated
        /\ d.opened = c.opened /\ d.closed = c.closed /\ d.stage = c.stage
        /\ d.delivered = c.delivered /\ d.threw = c.threw /\ Waiting(d) = Waiting(c)
        /\ c.disconnecting => d.disconnecting
    BY <1>1, <1>4, <1>5, <1>7 DEF Steady, Grows, Frame, Waiting
  <2>2. /\ \A n : n \in DOMAIN d.requests <=> n \in DOMAIN c.requests \ {r} \/ n \in c.rid..(d.rid - 1)
        /\ \A n \in DOMAIN c.requests \ {r} :
             d.requests[n].kind = c.requests[n].kind /\ d.requests[n].sid = c.requests[n].sid
        /\ \A n \in c.rid..(d.rid - 1) :
             d.requests[n].kind # "connect" /\ d.requests[n].sid = d.sid
    BY <1>1, <1>4, <1>7 DEF Steady, Grows, Frame
  <2>3. Busy(a) => Busy(c)
    BY <1>1, <1>4 DEF Busy, Frame
  <2>4. /\ ~d.authenticated /\ Busy(d) => Busy(c)
        /\ c.data => d.data \/ DOMAIN d.requests # {}
    BY <1>1, <1>4, <1>7, <2>3 DEF Steady, Frame
  <2> QED BY <2>1, <2>2, <2>4 DEF Goes
<1> QED BY <1>6, <1>7 DEF Outcome, a


\* An answer.
LEMMA SucceedShape ==
  ASSUME NEW c, ClientInv(c), NEW r \in DOMAIN c.requests, NEW d, NEW reply, NEW thrown,
         Succeeds(c, r, d, reply, thrown)
  PROVE  \/ Over(c, d)
         \/ c.requests[r].kind = "connect" /\ Joins(c, r, d, reply)
         \/ /\ c.requests[r].kind # "connect"
            /\ \/ Goes(c, {r}, d) /\ reply.type # "stanzas"
               \/ Reads(c, r, d, reply, thrown) /\ reply.type = "stanzas"
<1> DEFINE w == Without(c, r)
<1>1. /\ Good(w) /\ Frame(c, w) /\ DOMAIN w.requests = DOMAIN c.requests \ {r}
      /\ \A s \in DOMAIN w.requests : w.requests[s] = c.requests[s]
  BY WithoutFacts DEF ClientInv
<1> HIDE DEF w
<1>2. ASSUME NEW k, Quiet(w, k)
      PROVE  /\ k.rid = c.rid /\ k.sid = c.sid /\ k.data = c.data
             /\ k.connected = c.connected /\ k.authenticated = c.authenticated
             /\ k.disconnecting = c.disconnecting
             /\ k.opened = c.opened /\ k.closed = c.closed /\ k.stage = c.stage
             /\ k.delivered = c.delivered /\ k.abandoned = c.abandoned /\ k.threw = c.threw
             /\ Waiting(k) = Waiting(c) /\ DOMAIN k.requests = DOMAIN c.requests \ {r}
             /\ \A n \in DOMAIN c.requests \ {r} :
                  /\ k.requests[n].kind = c.requests[n].kind
                  /\ k.requests[n].sid = c.requests[n].sid
             /\ Busy(k) => Busy(c)
  <2>1. /\ k.rid = c.rid /\ k.sid = c.sid /\ k.data = c.data
        /\ k.connected = c.connected /\ k.authenticated = c.authenticated
        /\ k.disconnecting = c.disconnecting
        /\ k.opened = c.opened /\ k.closed = c.closed /\ k.stage = c.stage
        /\ k.delivered = c.delivered /\ k.abandoned = c.abandoned /\ k.threw = c.threw
        /\ Waiting(k) = Waiting(c)
    BY <1>1, <1>2 DEF Quiet, Frame, Waiting
  <2>2. /\ DOMAIN k.requests = DOMAIN c.requests \ {r}
        /\ \A n \in DOMAIN c.requests \ {r} :
             /\ k.requests[n].kind = c.requests[n].kind
             /\ k.requests[n].sid = c.requests[n].sid
    BY <1>1, <1>2 DEF Quiet
  <2>3. Busy(k) => Busy(c)
    BY <2>1, <2>2 DEF Busy
  <2> QED BY <2>1, <2>2, <2>3
<1>3. ASSUME NEW k, Quiet(w, k), NEW a, Stays(k, a) PROVE Goes(c, {r}, a)
  <2>1. /\ k.rid = c.rid /\ k.sid = c.sid /\ k.data = c.data
        /\ k.connected = c.connected /\ k.authenticated = c.authenticated
        /\ k.disconnecting = c.disconnecting
        /\ k.opened = c.opened /\ k.closed = c.closed /\ k.stage = c.stage
        /\ k.delivered = c.delivered /\ k.abandoned = c.abandoned /\ k.threw = c.threw
        /\ Waiting(k) = Waiting(c) /\ DOMAIN k.requests = DOMAIN c.requests \ {r}
        /\ \A n \in DOMAIN c.requests \ {r} :
             /\ k.requests[n].kind = c.requests[n].kind
             /\ k.requests[n].sid = c.requests[n].sid
        /\ Busy(k) => Busy(c)
    BY <1>2, <1>3
  <2>2. /\ \A n : n \in DOMAIN a.requests <=> n \in DOMAIN c.requests \ {r} \/ n \in c.rid..(a.rid - 1)
        /\ \A n \in DOMAIN c.requests \ {r} :
             a.requests[n].kind = c.requests[n].kind /\ a.requests[n].sid = c.requests[n].sid
        /\ \A n \in c.rid..(a.rid - 1) :
             a.requests[n].kind # "connect" /\ a.requests[n].sid = a.sid
    BY <1>3, <2>1 DEF Stays, Grows
  <2> QED BY <1>3, <2>1, <2>2 DEF Stays, Grows, Goes
<1>4. ASSUME NEW k, Quiet(w, k), NEW a, Advances(k, a) PROVE Proceeds(c, r, a)
  BY <1>2, <1>4 DEF Advances, Proceeds
<1>5. CASE Finished(c, d)
  BY <1>5, FinishedOver DEF ClientInv
<1>6. ASSUME c.requests[r].kind = "connect", NEW k, Unconnected(k), Quiet(w, k),
             Connects(k, d, reply) \/ Finished([k EXCEPT !.connected = TRUE], d)
      PROVE  Over(c, d) \/ Joins(c, r, d, reply)
  <2>1. k.authenticated = FALSE /\ k.stage = 0 /\ k.opened = 0 /\ k.closed = 0 /\ ~k.data
    BY <1>6, ClientFields DEF Unconnected, ClientInv, Life, Good
  <2>2. /\ k.rid = c.rid /\ k.sid = c.sid /\ k.data = c.data
        /\ k.disconnecting = c.disconnecting
        /\ k.opened = c.opened /\ k.closed = c.closed
        /\ k.delivered = c.delivered /\ k.abandoned = c.abandoned /\ k.threw = c.threw
        /\ Waiting(k) = Waiting(c) /\ DOMAIN k.requests = DOMAIN c.requests \ {r}
        /\ \A n \in DOMAIN c.requests \ {r} :
             /\ k.requests[n].kind = c.requests[n].kind
             /\ k.requests[n].sid = c.requests[n].sid
    BY <1>2, <1>6
  <2>3. CASE Connects(k, d, reply)
    <3>1. \A n \in DOMAIN c.requests \ {r} : c.requests[n].kind = "terminate"
      BY <1>6, <2>2 DEF Unconnected, OnlyTerminates
    <3> QED BY <2>1, <2>2, <2>3, <3>1 DEF Connects, Joins
  <2>4. CASE Finished([k EXCEPT !.connected = TRUE], d)
    <3> DEFINE b == [k EXCEPT !.connected = TRUE]
    <3>1. /\ b.connected /\ b.rid = k.rid /\ b.requests = k.requests /\ b.opened = k.opened
          /\ b.closed = k.closed /\ b.delivered = k.delivered
      BY <1>6, ConnectedFacts DEF SamePage
    <3>2. Finished(b, d)
      BY <2>4
    <3> HIDE DEF b
    <3>3. Over(c, d)
      BY <2>1, <2>2, <3>1, <3>2 DEF Over, Finished
    <3> QED BY <3>3
  <2> QED BY <1>6, <2>3, <2>4
<1>7. ASSUME c.requests[r].kind # "connect", NEW k, Quiet(w, k),
             \/ Stays(k, d) /\ reply.type # "stanzas"
             \/ reply.type = "stanzas" /\ Stanzas(k, d, reply, thrown)
      PROVE  \/ Goes(c, {r}, d) /\ reply.type # "stanzas"
             \/ Reads(c, r, d, reply, thrown) /\ reply.type = "stanzas"
  <2>1. CASE Stays(k, d) /\ reply.type # "stanzas"
    BY <1>3, <1>7, <2>1
  <2>2. CASE reply.type = "stanzas" /\ Stanzas(k, d, reply, thrown)
    <3>1. Waiting(k) = Waiting(c)
      BY <1>2, <1>7
    <3>2. PICK a : /\ Good(a) /\ ("message" \in a.handlers <=> "message" \in Waiting(k))
                   /\ \/ Stays(k, a) /\ (reply.auth = "next" => "auth" \notin Waiting(k))
                      \/ reply.auth = "next" /\ "auth" \in Waiting(k) /\ Advances(k, a)
                   /\ Delivers(a, d, reply.messages, thrown)
      BY <2>2 DEF Stanzas
    <3>3. /\ Stays(k, a) => Goes(c, {r}, a)
          /\ Advances(k, a) => Proceeds(c, r, a)
      BY <1>3, <1>4, <1>7
    <3> QED BY <2>2, <3>1, <3>2, <3>3 DEF Reads
  <2> QED BY <1>7, <2>1, <2>2
<1> QED BY <1>5, <1>6, <1>7 DEF Succeeds, w


-----------------------------------------------------------------------------
(* The client and the server.                                              *)

Servers ==
  [next : Nat, auth : Stages, messages : SUBSET Messages, garbled : 0..MaxGarbled,
   denied : BOOLEAN, answers : UNION {[D -> Replies] : D \in SUBSET Nat}]

\* An answer that is kept is to a request in the queue, and fits it.
AnswersFit(c, s) ==
  \A r \in DOMAIN s.answers :
    r \in DOMAIN c.requests /\ r < s.next /\ Fits(c.requests[r].kind, s.answers[r])

BaseInv == ClientInv(client) /\ server \in Servers /\ AnswersFit(client, server)
           /\ unloads \in 0..MaxUnloads

\* The server after an event of the client that leads to d.
Later(s, t, d) ==
  /\ t.next = s.next /\ t.auth = s.auth /\ t.messages = s.messages
  /\ t.denied = s.denied /\ t.garbled = s.garbled
  /\ DOMAIN t.answers = DOMAIN s.answers \cap DOMAIN d.requests
  /\ \A r \in DOMAIN t.answers : t.answers[r] = s.answers[r]

\* The server answers.
Sends(c, s, t, reply) ==
  LET r == s.next
  IN  /\ r \in DOMAIN c.requests /\ InSession(c, r) /\ Fits(c.requests[r].kind, reply)
      /\ reply.auth # "none" => s.auth < Rounds
      /\ reply.messages # {} => t.auth = Rounds
      /\ reply.messages \subseteq Messages \ s.messages
      /\ \A m \in reply.messages : \A k \in 1..m : k \in reply.messages \cup s.messages
      /\ t.next = r + 1 /\ t.messages = s.messages \cup reply.messages
      /\ t.auth = s.auth + (IF reply.auth = "next" THEN 1 ELSE 0)
      /\ s.denied => t.denied
      /\ \/ t.denied \/ reply.type \in {"mechanisms", "bare"}
         \/ reply.auth = "next" \/ s.auth = Rounds
      /\ DOMAIN t.answers = DOMAIN s.answers \cup {r} /\ t.answers[r] = reply
      /\ \A n \in DOMAIN s.answers \ {r} : t.answers[n] = s.answers[n]

\* reply is what the client gets for r.
Gets(c, s, r, reply) ==
  /\ r \in DOMAIN c.requests /\ Fits(c.requests[r].kind, reply)
  /\ IF InSession(c, r) THEN r \in DOMAIN s.answers /\ reply = s.answers[r]
     ELSE reply.auth = "none" /\ reply.messages = {}

\* The events of the client.
Answer(c, s, r, d, reply, thrown) ==
  /\ Gets(c, s, r, reply)
  /\ \/ c.requests[r].kind = "connect" /\ Joins(c, r, d, reply)
     \/ c.requests[r].kind # "connect" /\ Goes(c, {r}, d) /\ reply.type # "stanzas"
     \/ c.requests[r].kind # "connect" /\ Reads(c, r, d, reply, thrown) /\ reply.type = "stanzas"

Event(c, s, d) ==
  \/ Over(c, d)
  \/ Goes(c, {}, d)
  \/ \E r \in DOMAIN c.requests : Goes(c, {r}, d) /\ d.abandoned
  \/ \E r \in DOMAIN c.requests, reply \in Replies, thrown \in Messages \cup {0} :
       Answer(c, s, r, d, reply, thrown)

\* What Handler does to the server.
LEMMA HandlerFacts ==
  ASSUME server \in Servers, NEW c, Handler(c)
  PROVE  client' = c /\ server' \in Servers /\ Later(server, server', c)
<1> DEFINE D == DOMAIN server.answers \cap DOMAIN c.requests
           a == [x \in D |-> server.answers[x]]
<1>1. PICK E \in SUBSET Nat : server.answers \in [E -> Replies]
  BY DEF Servers
<1>2. D \in SUBSET Nat /\ a \in [D -> Replies]
  BY <1>1
<1>3. client' = c /\ server' = [server EXCEPT !.answers = a]
  BY DEF Handler, Restrict
<1>4. DOMAIN a = D /\ \A r \in D : a[r] = server.answers[r]
  OBVIOUS
<1>5. a \in UNION {[F -> Replies] : F \in SUBSET Nat}
  BY <1>2
<1> HIDE DEF a
<1>6. server' \in Servers
  BY <1>3, <1>5 DEF Servers
<1>7. /\ server'.next = server.next /\ server'.auth = server.auth
      /\ server'.messages = server.messages /\ server'.denied = server.denied
      /\ server'.garbled = server.garbled /\ server'.answers = a
  BY <1>3 DEF Servers
<1> QED BY <1>3, <1>4, <1>6, <1>7 DEF Later

\* What ServerAnswers does.
LEMMA ServerFacts ==
  ASSUME BaseInv, ServerAnswers
  PROVE  /\ client' = client /\ unloads' = unloads /\ server' \in Servers
         /\ \E reply \in Replies : Sends(client, server, server', reply)
<1> DEFINE r == server.next
<1>1. /\ r \in DOMAIN client.requests /\ InSession(client, r)
      /\ client' = client /\ unloads' = unloads
  BY DEF ServerAnswers
<1>2. /\ server.next \in Nat /\ server.auth \in Stages /\ server.messages \in SUBSET Messages
      /\ server.garbled \in 0..MaxGarbled /\ server.denied \in BOOLEAN
      /\ server.answers \in UNION {[D -> Replies] : D \in SUBSET Nat}
  BY DEF Servers, BaseInv
<1>3. PICK reply \in Answers(client.requests[r].kind) :
        server' = [next |-> r + 1,
                   auth |-> server.auth + (IF reply.auth = "next" THEN 1 ELSE 0),
                   messages |-> server.messages \cup reply.messages,
                   garbled |-> server.garbled + (IF reply.type = "garbled" THEN 1 ELSE 0),
                   denied |-> server.denied \/ Denies(reply),
                   answers |-> [n \in DOMAIN server.answers \cup {r} |->
                                  IF n = r THEN reply ELSE server.answers[n]]]
  BY DEF ServerAnswers
<1>4. /\ reply \in Replies
      /\ reply.type \in {"mechanisms", "bare"} => client.requests[r].kind = "connect"
      /\ reply.type = "stanzas" => client.requests[r].kind # "connect"
      /\ reply.type = "garbled" => server.garbled < MaxGarbled
      /\ reply.type # "stanzas" \/ client.requests[r].kind = "terminate" =>
           reply.auth = "none" /\ reply.messages = {}
      /\ reply.auth # "none" => server.auth < Rounds
      /\ reply.messages # {} =>
           server.auth + (IF reply.auth = "next" THEN 1 ELSE 0) = Rounds
      /\ reply.messages \in NextMessages
  BY DEF Answers
<1>5. /\ reply.type \in {"mechanisms", "bare", "stanzas", "terminate", "blank", "garbled"}
      /\ reply.auth \in {"none", "next", "failure"} /\ reply.messages \in SUBSET Messages
  BY <1>4 DEF Replies
<1>6. client.requests[r].kind \in {"connect", "data", "terminate"}
  BY <1>1, ClientFields, QueueType DEF BaseInv, ClientInv, Good, Requests
<1>7. Fits(client.requests[r].kind, reply)
  BY <1>4, <1>5, <1>6 DEF Fits
<1> DEFINE a == [n \in DOMAIN server.answers \cup {r} |->
                   IF n = r THEN reply ELSE server.answers[n]]
<1>8. /\ server'.next = r + 1 /\ server'.messages = server.messages \cup reply.messages
      /\ server'.auth = server.auth + (IF reply.auth = "next" THEN 1 ELSE 0)
      /\ server'.denied = (server.denied \/ Denies(reply)) /\ server'.answers = a
  BY <1>3
<1>9. /\ DOMAIN a = DOMAIN server.answers \cup {r} /\ a[r] = reply
      /\ \A n \in DOMAIN server.answers \ {r} : a[n] = server.answers[n]
  OBVIOUS
<1>10. a \in UNION {[D -> Replies] : D \in SUBSET Nat}
  <2>1. PICK E \in SUBSET Nat : server.answers \in [E -> Replies]
    BY <1>2
  <2>2. E \cup {r} \in SUBSET Nat /\ a \in [E \cup {r} -> Replies]
    BY <1>2, <1>4, <2>1
  <2> QED BY <2>2
<1>11. server' \in Servers
  <2>1. r + 1 \in Nat
    BY <1>2
  <2>2. server.auth + (IF reply.auth = "next" THEN 1 ELSE 0) \in Stages
    BY <1>2, <1>4, LimitAssumption DEF Stages
  <2>3. server.messages \cup reply.messages \in SUBSET Messages
    BY <1>2, <1>5
  <2>4. server.garbled + (IF reply.type = "garbled" THEN 1 ELSE 0) \in 0..MaxGarbled
    BY <1>2, <1>4, LimitAssumption
  <2>5. server.denied \/ Denies(reply) \in BOOLEAN
    BY <1>2 DEF Denies
  <2> HIDE DEF a
  <2> QED BY <1>3, <1>10, <2>1, <2>2, <2>3, <2>4, <2>5 DEF Servers, a
<1>12. /\ reply.messages \subseteq Messages \ server.messages
       /\ \A m \in reply.messages : \A k \in 1..m : k \in reply.messages \cup server.messages
  BY <1>4 DEF NextMessages
<1>13. \/ server'.denied \/ reply.type \in {"mechanisms", "bare"}
       \/ reply.auth = "next" \/ server.auth = Rounds
  <2>1. server'.denied = (server.denied \/ Denies(reply))
    BY <1>8
  <2>2. Denies(reply) => server'.denied
    BY <2>1
  <2>3. server.auth < Rounds \/ server.auth = Rounds
    BY <1>2, LimitAssumption DEF Stages
  <2> QED BY <2>2, <2>3 DEF Denies
<1> HIDE DEF a
<1>14. Sends(client, server, server', reply)
  BY <1>1, <1>4, <1>7, <1>8, <1>9, <1>12, <1>13 DEF Sends
<1> QED BY <1>1, <1>4, <1>11, <1>14


\* An answered request.
LEMMA AnsweredFacts ==
  ASSUME BaseInv, NEW r, Answered(r)
  PROVE  \E c : Handler(c) /\ ClientInv(c) /\ Event(client, server, c)
<1>1. r \in DOMAIN client.requests /\ ClientInv(client)
  BY DEF Answered, BaseInv
<1>2. ASSUME NEW reply \in Replies, NEW legacy, NEW thrown \in Messages \cup {0},
             Gets(client, server, r, reply)
      PROVE  LET c == Succeed(client, r, reply, legacy, thrown)
             IN  ClientInv(c) /\ Event(client, server, c)
  <2> DEFINE c == Succeed(client, r, reply, legacy, thrown)
  <2>1. ClientInv(c) /\ Succeeds(client, r, c, reply, thrown)
    BY <1>1, <1>2, SucceedFacts DEF Gets
  <2> HIDE DEF c
  <2>2. \/ Over(client, c)
        \/ client.requests[r].kind = "connect" /\ Joins(client, r, c, reply)
        \/ /\ client.requests[r].kind # "connect"
           /\ \/ Goes(client, {r}, c) /\ reply.type # "stanzas"
              \/ Reads(client, r, c, reply, thrown) /\ reply.type = "stanzas"
    BY <1>1, <2>1, SucceedShape
  <2>3. Over(client, c) \/ Answer(client, server, r, c, reply, thrown)
    BY <1>2, <2>2 DEF Answer
  <2>4. Event(client, server, c)
    BY <1>1, <1>2, <2>3 DEF Event
  <2> QED BY <2>1, <2>4 DEF c
<1>3. CASE InSession(client, r)
  <2>1. PICK legacy \in BOOLEAN, thrown \in Messages \cup {0} :
          /\ r \in DOMAIN server.answers
          /\ Handler(Succeed(client, r, server.answers[r], legacy, thrown))
    BY <1>3 DEF Answered
  <2>2. Gets(client, server, r, server.answers[r]) /\ server.answers[r] \in Replies
    BY <1>1, <1>3, <2>1 DEF Gets, BaseInv, AnswersFit, Fits
  <2> QED BY <1>2, <2>1, <2>2
<1>4. CASE ~InSession(client, r)
  <2>1. PICK legacy \in BOOLEAN, thrown \in Messages \cup {0}, reply \in NoSession :
          Handler(Succeed(client, r, reply, legacy, thrown))
    BY <1>4 DEF Answered
  <2>2. /\ reply \in Replies /\ reply.auth = "none" /\ reply.messages = {}
        /\ reply.type \in {"stanzas", "terminate", "blank"}
    BY DEF NoSession
  <2>3. Gets(client, server, r, reply)
    BY <1>1, <1>4, <2>2 DEF Gets, Fits
  <2> QED BY <1>2, <2>1, <2>2, <2>3
<1> QED BY <1>3, <1>4

\* The other events.
LEMMA OtherFacts ==
  ASSUME BaseInv
  PROVE  /\ \A r : Refused(r) \/ DelayedPost(r) \/ Ages(r)
                     => \E c : Handler(c) /\ ClientInv(c) /\ Event(client, server, c)
         /\ \A r, fault : Failed(r, fault)
                     => \E c : Handler(c) /\ ClientInv(c) /\ Event(client, server, c)
         /\ OnIdle \/ OnIdleTimeout \/ BeforeUnload
                     => \E c : Handler(c) /\ ClientInv(c) /\ Event(client, server, c)
<1>1. ClientInv(client) /\ Good(client) /\ client.timers \in Nat
  BY ClientFields DEF BaseInv, ClientInv, Good
<1>2. ASSUME NEW c, Outcome(client, c) PROVE Event(client, server, c)
  BY <1>1, <1>2, OutcomeShape DEF Event
<1>3. ASSUME NEW r, Refused(r)
      PROVE  \E c : Handler(c) /\ ClientInv(c) /\ Event(client, server, c)
  <2>1. /\ r \in DOMAIN client.requests /\ client.requests[r].xhr = "posted"
        /\ Handler(Refuse(client, r))
    BY <1>3 DEF Refused
  <2> QED BY <1>1, <1>2, <2>1, RefuseFacts
<1>4. ASSUME NEW r, DelayedPost(r)
      PROVE  \E c : Handler(c) /\ ClientInv(c) /\ Event(client, server, c)
  <2>1. /\ r \in DOMAIN client.requests /\ ~TimerFirst(client, r)
        /\ Handler([client EXCEPT !.requests[r].xhr = "posted"])
    BY <1>4 DEF DelayedPost
  <2> DEFINE c == [client EXCEPT !.requests[r].xhr = "posted"]
  <2>2. ClientInv(c) /\ Steady(client, c)
    BY <1>1, <2>1, XhrFacts
  <2>3. Handler(c)
    BY <2>1
  <2> HIDE DEF c
  <2> QED BY <1>2, <2>2, <2>3 DEF Outcome
<1>5. ASSUME NEW r, Ages(r)
      PROVE  \E c : Handler(c) /\ ClientInv(c) /\ Event(client, server, c)
  <2>1. /\ r \in DOMAIN client.requests /\ ~TimerFirst(client, r)
        /\ Handler([client EXCEPT !.requests[r].old = TRUE])
    BY <1>5 DEF Ages
  <2> DEFINE c == [client EXCEPT !.requests[r].old = TRUE]
  <2>2. ClientInv(c) /\ Steady(client, c)
    BY <1>1, <2>1, AgeFacts
  <2>3. Handler(c)
    BY <2>1
  <2> HIDE DEF c
  <2> QED BY <1>2, <2>2, <2>3 DEF Outcome
<1>6. ASSUME NEW r, NEW fault, Failed(r, fault)
      PROVE  \E c : Handler(c) /\ ClientInv(c) /\ Event(client, server, c)
  <2> DEFINE c == Fail(client, r, fault)
  <2>1. /\ r \in DOMAIN client.requests /\ client.requests[r].xhr = "posted" /\ Handler(c)
    BY <1>6 DEF Failed
  <2>2. ClientInv(c) /\ (Outcome(client, c) \/ Outcome(Abandons(client, r), c))
    BY <1>1, <2>1, FailFacts
  <2> HIDE DEF c
  <2>3. Event(client, server, c)
    BY <1>1, <1>2, <2>1, <2>2, AbandonShape DEF Event
  <2> QED BY <2>1, <2>2, <2>3
<1>7. ASSUME OnIdle
      PROVE  \E c : Handler(c) /\ ClientInv(c) /\ Event(client, server, c)
  BY <1>1, <1>2, <1>7, IdleFacts DEF OnIdle
<1>8. ASSUME OnIdleTimeout
      PROVE  \E c : Handler(c) /\ ClientInv(c) /\ Event(client, server, c)
  <2>1. PICK left \in 0..(client.timers - 1) :
          Handler(Idle([OnDisconnectTimeout(client) EXCEPT !.timers = left]))
    BY <1>8 DEF OnIdleTimeout
  <2> DEFINE c == Idle([OnDisconnectTimeout(client) EXCEPT !.timers = left])
  <2>2. left \in Nat
    BY <1>1
  <2>3. ClientInv(c) /\ Finished(client, c)
    BY <1>1, <2>2, IdleTimeoutFacts
  <2>4. Handler(c)
    BY <2>1
  <2> HIDE DEF c
  <2> QED BY <1>2, <2>3, <2>4 DEF Outcome
<1>9. ASSUME BeforeUnload
      PROVE  \E c : Handler(c) /\ ClientInv(c) /\ Event(client, server, c)
  BY <1>1, <1>2, <1>9, DisconnectFacts DEF BeforeUnload
<1> QED BY <1>3, <1>4, <1>5, <1>6, <1>7, <1>8, <1>9

\* Every step is the server's, or an event of the client, or nothing.
LEMMA StepFacts ==
  ASSUME BaseInv, [Next]_vars
  PROVE  /\ server' \in Servers /\ unloads' \in 0..MaxUnloads /\ ClientInv(client')
         /\ \/ /\ client' = client
               /\ \E reply \in Replies : Sends(client, server, server', reply)
            \/ Event(client, server, client') /\ Later(server, server', client')
<1>1. /\ ClientInv(client) /\ Good(client) /\ server \in Servers /\ unloads \in 0..MaxUnloads
      /\ MaxUnloads \in Nat
  BY LimitAssumption DEF BaseInv, ClientInv
<1>2. ASSUME \E c : Handler(c) /\ ClientInv(c) /\ Event(client, server, c)
      PROVE  /\ server' \in Servers /\ ClientInv(client')
             /\ Event(client, server, client') /\ Later(server, server', client')
  BY <1>1, <1>2, HandlerFacts
<1>3. CASE ServerAnswers
  BY <1>1, <1>3, ServerFacts
<1>4. CASE OnIdle \/ OnIdleTimeout \/ BeforeUnload
  <2>1. unloads' \in 0..MaxUnloads
    BY <1>1, <1>4 DEF OnIdle, OnIdleTimeout, BeforeUnload
  <2> QED BY <1>2, <1>4, <2>1, OtherFacts
<1>5. ASSUME NEW r \in DOMAIN client.requests,
             \/ Answered(r) \/ Refused(r) \/ Failed(r, TRUE) \/ Failed(r, FALSE)
             \/ DelayedPost(r) \/ Ages(r)
      PROVE  /\ server' \in Servers /\ unloads' \in 0..MaxUnloads /\ ClientInv(client')
             /\ Event(client, server, client') /\ Later(server, server', client')
  <2>1. unloads' \in 0..MaxUnloads
    BY <1>1, <1>5 DEF Answered, Refused, Failed, DelayedPost, Ages
  <2> QED BY <1>2, <1>5, <2>1, OtherFacts, AnsweredFacts
<1>6. CASE UNCHANGED vars
  <2>1. client' = client /\ server' = server /\ unloads' = unloads
    BY <1>6 DEF vars
  <2>2. Event(client, server, client)
    BY <1>1, OutcomeQuiet, OutcomeShape DEF Event
  <2>3. Later(server, server, client)
    BY DEF Later, BaseInv, AnswersFit
  <2> QED BY <1>1, <2>1, <2>2, <2>3
<1> QED BY <1>3, <1>4, <1>5, <1>6 DEF Next


\* A request keeps its kind, and the rids go up.
LEMMA EventKinds ==
  ASSUME NEW c, Good(c), NEW s, NEW d, Event(c, s, d)
  PROVE  /\ d.rid >= c.rid
         /\ \A n \in DOMAIN c.requests \cap DOMAIN d.requests :
              d.requests[n].kind = c.requests[n].kind
<1>1. c.rid \in Nat /\ \A n \in DOMAIN c.requests : n \in Nat /\ n < c.rid
  BY Rids
<1>2. CASE Over(c, d)
  BY <1>1, <1>2 DEF Over
<1>3. ASSUME NEW R, NEW e, Goes(c, R, e)
      PROVE  /\ e.rid >= c.rid
             /\ \A n \in DOMAIN c.requests \cap DOMAIN e.requests :
                  e.requests[n].kind = c.requests[n].kind
  BY <1>1, <1>3 DEF Goes
<1>4. ASSUME NEW r, NEW reply, Joins(c, r, d, reply)
      PROVE  /\ d.rid >= c.rid
             /\ \A n \in DOMAIN c.requests \cap DOMAIN d.requests :
                  d.requests[n].kind = c.requests[n].kind
  BY <1>1, <1>4 DEF Joins
<1>5. ASSUME NEW r, NEW reply, NEW thrown, Reads(c, r, d, reply, thrown)
      PROVE  /\ d.rid >= c.rid
             /\ \A n \in DOMAIN c.requests \cap DOMAIN d.requests :
                  d.requests[n].kind = c.requests[n].kind
  <2>1. PICK a : /\ Goes(c, {r}, a) \/ Proceeds(c, r, a)
                 /\ Delivers(a, d, reply.messages, thrown)
    BY <1>5 DEF Reads
  <2>2. d.rid = a.rid /\ d.requests = a.requests
    BY <2>1 DEF Delivers
  <2>3. CASE Goes(c, {r}, a)
    BY <1>3, <2>2, <2>3
  <2>4. CASE Proceeds(c, r, a)
    BY <1>1, <2>2, <2>4 DEF Proceeds
  <2> QED BY <2>1, <2>3, <2>4
<1> QED BY <1>2, <1>3, <1>4, <1>5 DEF Event, Answer

\* Initially.
LEMMA InitBase ==
  Init => BaseInv
<1> SUFFICES ASSUME Init PROVE BaseInv
  OBVIOUS
<1> DEFINE e == [kind |-> "connect", sid |-> FALSE, sends |-> 1, xhr |-> "posted", old |-> FALSE]
           q == [r \in {1} |-> e]
           f == [m \in Messages |-> 0]
<1>1. client = [rid |-> 2, sid |-> FALSE, data |-> FALSE, requests |-> q,
                errors |-> 0, connected |-> FALSE, authenticated |-> FALSE,
                disconnecting |-> FALSE, timers |-> 0, stage |-> 0,
                handlers |-> {}, addHandlers |-> {"message"}, readyState |-> "CONNECTING",
                opened |-> 0, closed |-> 0, delivered |-> f,
                abandoned |-> FALSE, threw |-> FALSE]
  BY DEF Init
<1>2. server = [next |-> 1, auth |-> 0, messages |-> {}, garbled |-> 0,
                denied |-> FALSE, answers |-> <<>>]
      /\ unloads = 0
  BY DEF Init
<1>3. e \in Requests
  BY DEF Requests
<1>4. DOMAIN q = {1} /\ q[1].kind = "connect"
  OBVIOUS
<1>5. q \in Queues
  <2>1. {1} \in SUBSET Nat /\ q \in [{1} -> Requests]
    BY <1>3
  <2> QED BY <2>1, QueueIntro
<1>6. f \in Deliveries
  BY DEF Deliveries
<1> HIDE DEF e, q, f
<1>7. client \in Clients
  <2>1. 0 \in Errors /\ 0 \in Stages
    BY LimitAssumption DEF Errors, Stages
  <2> QED BY <1>1, <1>5, <1>6, <2>1 DEF Clients, HandlerSets, ReadyStates
<1>8. /\ client.rid = 2 /\ ~client.sid /\ ~client.data /\ client.requests = q
      /\ ~client.connected /\ ~client.authenticated /\ ~client.disconnecting
      /\ client.stage = 0 /\ client.handlers = {} /\ client.addHandlers = {"message"}
      /\ client.readyState = "CONNECTING" /\ client.opened = 0 /\ client.closed = 0
  BY <1>1
<1>9. Good(client)
  BY <1>4, <1>7, <1>8 DEF Good
<1>10. Life(client) /\ Fresh(client) /\ Queue(client)
  BY <1>4, <1>8, LimitAssumption DEF Life, Fresh, Queue, Waiting, HasConnect
<1>11. server \in Servers
  <2>1. <<>> \in [{} -> Replies]
    OBVIOUS
  <2>2. <<>> \in UNION {[D -> Replies] : D \in SUBSET Nat}
    BY <2>1
  <2> QED BY <1>2, <2>2, LimitAssumption DEF Servers, Stages
<1>12. AnswersFit(client, server) /\ unloads \in 0..MaxUnloads
  BY <1>2, LimitAssumption DEF AnswersFit
<1> QED BY <1>9, <1>10, <1>11, <1>12 DEF BaseInv, ClientInv

\* Every step keeps it.
LEMMA NextBase ==
  BaseInv /\ [Next]_vars => BaseInv'
<1> SUFFICES ASSUME BaseInv, [Next]_vars PROVE BaseInv'
  OBVIOUS
<1>1. /\ server' \in Servers /\ unloads' \in 0..MaxUnloads /\ ClientInv(client')
      /\ \/ /\ client' = client
            /\ \E reply \in Replies : Sends(client, server, server', reply)
         \/ Event(client, server, client') /\ Later(server, server', client')
  BY StepFacts
<1>2. AnswersFit(client', server')
  <2>1. CASE client' = client /\ \E reply \in Replies : Sends(client, server, server', reply)
    <3>1. PICK reply \in Replies : Sends(client, server, server', reply)
      BY <2>1
    <3>2. server.next \in Nat
      BY DEF BaseInv, Servers
    <3>3. \A n \in DOMAIN server.answers : n \in Nat
      BY DEF BaseInv, Servers
    <3> QED BY <2>1, <3>1, <3>2, <3>3 DEF Sends, AnswersFit, BaseInv
  <2>2. CASE Event(client, server, client') /\ Later(server, server', client')
    <3>1. \A n \in DOMAIN client.requests \cap DOMAIN client'.requests :
            client'.requests[n].kind = client.requests[n].kind
      BY <2>2, EventKinds DEF BaseInv, ClientInv
    <3> QED BY <2>2, <3>1 DEF Later, AnswersFit, BaseInv
  <2> QED BY <1>1, <2>1, <2>2
<1> QED BY <1>1, <1>2 DEF BaseInv

\* The invariant of the client holds of every state.
LEMMA Base ==
  Spec => []BaseInv
<1>1. Init => BaseInv
  BY InitBase
<1>2. BaseInv /\ [Next]_vars => BaseInv'
  BY NextBase
<1> QED BY <1>1, <1>2, PTL DEF Spec

\* The fields keep their types and bounds: the errors stay within one of
\* ErrorLimit, the stage of the authentication within Rounds, every rid in use
\* is behind the next one, and an answer is kept only for a request that is
\* still in the queue.
THEOREM TypeCorrect ==
  Spec => []TypeOK
<1>1. BaseInv => TypeOK
  <2> SUFFICES ASSUME BaseInv PROVE TypeOK
    OBVIOUS
  <2>1. client \in Clients /\ DOMAIN client.requests \subseteq 1..(client.rid - 1)
    BY DEF BaseInv, ClientInv, Good
  <2>2. /\ client.rid \in Nat /\ client.errors \in 0..(ErrorLimit + 1) /\ client.timers \in Nat
        /\ client.stage \in 0..Rounds
        /\ client.readyState \in {"CONNECTING", "OPEN", "CLOSING"}
        /\ client.delivered \in [Messages -> Nat]
    BY <2>1, ClientFields DEF Errors, Stages, ReadyStates, Deliveries
  <2>3. /\ client.handlers \subseteq {"auth", "message"}
        /\ client.addHandlers \subseteq {"auth", "message"}
    BY <2>1, ClientFields DEF HandlerSets
  <2>4. \A r \in DOMAIN client.requests : client.requests[r] \in Requests
    BY <2>1, ClientFields, QueueType
  <2>5. /\ server.next \in Nat /\ server.auth \in 0..Rounds /\ server.garbled \in 0..MaxGarbled
        /\ server.denied \in BOOLEAN /\ server.messages \subseteq Messages
    BY DEF BaseInv, Servers, Stages
  <2>6. /\ DOMAIN server.answers \subseteq DOMAIN client.requests
        /\ \A r \in DOMAIN server.answers : server.answers[r] \in Replies
    BY DEF BaseInv, AnswersFit, Fits
  <2>7. unloads \in 0..MaxUnloads
    BY DEF BaseInv
  <2> QED BY <2>1, <2>2, <2>3, <2>4, <2>5, <2>6, <2>7 DEF TypeOK
<1> QED BY <1>1, Base, PTL

\* The page sees OPEN only on a socket that has been opened once, has an
\* authenticated connection, and has not been closed.
THEOREM OpenUsable ==
  Spec => []OpenMeansUsable
<1>1. BaseInv => OpenMeansUsable
  BY DEF BaseInv, ClientInv, Life, OpenMeansUsable
<1> QED BY <1>1, Base, PTL


-----------------------------------------------------------------------------
(* The rids and the server's place in them.                                *)

\* No rid is missing between the one the server waits for and the one that
\* comes next, and a session has all requests in the queue.
Order(c, s) ==
  /\ s.next <= c.rid
  /\ c.sid => \A r \in DOMAIN c.requests : InSession(c, r)
  /\ HasConnect(c) /\ c.connected => c.sid
  /\ (c.sid \/ HasConnect(c)) /\ ~c.abandoned =>
       \A n \in s.next..(c.rid - 1) : n \in DOMAIN c.requests

\* The first answer is to the only request, or comes in the session.
LEMMA AnswerSettled ==
  ASSUME NEW c, ClientInv(c), NEW s \in Servers, AnswersFit(c, s), Order(c, s),
         NEW r, NEW reply, Gets(c, s, r, reply), c.sid \/ HasConnect(c)
  PROVE  /\ InSession(c, r) /\ r \in DOMAIN s.answers /\ reply = s.answers[r] /\ r < s.next
         /\ c.connected => c.sid
         /\ ~c.connected => c.requests[r].kind = "connect" /\ DOMAIN c.requests = {r}
<1>1. c.connected => c.sid
  BY DEF Order
<1>2. c.sid => c.connected
  BY DEF ClientInv, Life
<1>3. ASSUME ~c.connected
      PROVE  c.requests[r].kind = "connect" /\ DOMAIN c.requests = {r}
  <2>1. HasConnect(c) /\ \A n, m \in DOMAIN c.requests : n = m
    BY <1>2, <1>3 DEF ClientInv, Fresh
  <2> QED BY <2>1 DEF HasConnect, Gets
<1>4. InSession(c, r)
  BY <1>1, <1>3 DEF Order, Gets, InSession
<1> QED BY <1>1, <1>3, <1>4 DEF Gets, AnswersFit

\* Every event keeps the order.
LEMMA OrderEvent ==
  ASSUME NEW c, ClientInv(c), NEW s \in Servers, AnswersFit(c, s), Order(c, s),
         NEW d, Event(c, s, d), NEW t, Later(s, t, d)
  PROVE  Order(d, t)
<1>1. /\ c.rid \in Nat /\ s.next \in Nat /\ t.next = s.next
      /\ \A n \in DOMAIN c.requests : n \in Nat /\ n < c.rid
  BY Rids DEF ClientInv, Servers, Later
<1>2. CASE Over(c, d)
  <2>1. Good(d) /\ d.rid >= c.rid /\ ~d.sid /\ ~d.connected /\ ~HasConnect(d)
    BY <1>2 DEF Over, HasConnect
  <2>2. d.rid \in Nat
    BY <2>1, Rids
  <2> QED BY <1>1, <2>1, <2>2 DEF Order
<1>3. ASSUME NEW R, NEW e, Goes(c, R, e),
             \A n \in R : e.abandoned \/ ((c.sid \/ HasConnect(c)) => n < s.next)
      PROVE  Order(e, t)
  <2>1. /\ Good(e) /\ e.rid >= c.rid /\ e.sid = c.sid /\ e.connected = c.connected
        /\ c.abandoned => e.abandoned
        /\ \A n : n \in DOMAIN e.requests <=> n \in DOMAIN c.requests \ R \/ n \in c.rid..(e.rid - 1)
        /\ \A n \in DOMAIN c.requests \ R :
             e.requests[n].kind = c.requests[n].kind /\ e.requests[n].sid = c.requests[n].sid
        /\ \A n \in c.rid..(e.rid - 1) :
             e.requests[n].kind # "connect" /\ e.requests[n].sid = e.sid
    BY <1>3 DEF Goes
  <2>2. e.rid \in Nat
    BY <2>1, Rids
  <2>3. t.next <= e.rid
    BY <1>1, <2>1, <2>2 DEF Order
  <2>4. HasConnect(e) => HasConnect(c)
    BY <2>1 DEF HasConnect
  <2>5. e.sid => \A r \in DOMAIN e.requests : InSession(e, r)
    BY <2>1 DEF Order, InSession
  <2>6. ASSUME e.sid \/ HasConnect(e), ~e.abandoned, NEW n \in t.next..(e.rid - 1)
        PROVE  n \in DOMAIN e.requests
    <3>1. (c.sid \/ HasConnect(c)) /\ ~c.abandoned /\ n \notin R
      BY <1>1, <1>3, <2>1, <2>4, <2>6
    <3>2. CASE n < c.rid
      BY <1>1, <2>1, <2>6, <3>1, <3>2 DEF Order
    <3>3. CASE n >= c.rid
      BY <1>1, <2>1, <2>2, <2>6, <3>3
    <3> QED BY <1>1, <2>2, <2>6, <3>2, <3>3
  <2> QED BY <2>1, <2>3, <2>4, <2>5, <2>6 DEF Order
<1>4. ASSUME NEW r, NEW reply, Gets(c, s, r, reply)
      PROVE  (c.sid \/ HasConnect(c)) => r < s.next
  BY <1>4, AnswerSettled
<1>5. ASSUME NEW r, NEW reply, Gets(c, s, r, reply), NEW a, Proceeds(c, r, a)
      PROVE  Order(a, t)
  <2>1. /\ a.rid = c.rid /\ a.sid = c.sid /\ a.connected = c.connected
        /\ a.abandoned = c.abandoned
        /\ DOMAIN a.requests = DOMAIN c.requests \ {r}
        /\ \A n \in DOMAIN c.requests \ {r} :
             a.requests[n].kind = c.requests[n].kind /\ a.requests[n].sid = c.requests[n].sid
    BY <1>5 DEF Proceeds
  <2>2. HasConnect(a) => HasConnect(c)
    BY <2>1 DEF HasConnect
  <2>3. a.sid => \A n \in DOMAIN a.requests : InSession(a, n)
    BY <2>1 DEF Order, InSession
  <2>4. (c.sid \/ HasConnect(c)) => r < s.next
    BY <1>4, <1>5
  <2>5. r \in Nat
    BY <1>1, <1>5 DEF Gets
  <2> QED BY <1>1, <2>1, <2>2, <2>3, <2>4, <2>5 DEF Order
<1>6. ASSUME NEW r, NEW reply, NEW thrown, Gets(c, s, r, reply), Reads(c, r, d, reply, thrown)
      PROVE  Order(d, t)
  <2>1. PICK a : /\ Goes(c, {r}, a) \/ Proceeds(c, r, a)
                 /\ Delivers(a, d, reply.messages, thrown)
    BY <1>6 DEF Reads
  <2>2. /\ d.rid = a.rid /\ d.requests = a.requests /\ d.sid = a.sid
        /\ d.connected = a.connected /\ d.abandoned = a.abandoned
    BY <2>1 DEF Delivers
  <2>3. Order(a, t)
    <3>1. CASE Goes(c, {r}, a)
      BY <1>3, <1>4, <1>6, <3>1
    <3>2. CASE Proceeds(c, r, a)
      BY <1>5, <1>6, <3>2
    <3> QED BY <2>1, <3>1, <3>2
  <2> QED BY <2>2, <2>3 DEF Order, HasConnect, InSession
<1>7. ASSUME NEW r, NEW reply, Gets(c, s, r, reply), c.requests[r].kind = "connect",
             Joins(c, r, d, reply)
      PROVE  Order(d, t)
  <2>1. HasConnect(c) /\ r \in DOMAIN c.requests
    BY <1>7 DEF HasConnect, Gets
  <2>2. /\ r < s.next
        /\ c.connected => c.sid
        /\ ~c.connected => DOMAIN c.requests = {r}
    BY <1>7, <2>1, AnswerSettled
  <2>3. c.sid \/ DOMAIN c.requests = {r}
    BY <2>1, <2>2 DEF Order
  <2>4. /\ d.connected /\ d.abandoned = c.abandoned
        /\ \A n \in DOMAIN c.requests \ {r} :
             /\ n \in DOMAIN d.requests /\ d.requests[n].kind = "terminate"
             /\ d.requests[n].kind = c.requests[n].kind /\ d.requests[n].sid = c.requests[n].sid
    BY <1>7 DEF Joins
  <2>5. \A n \in DOMAIN c.requests \ {r} : InSession(d, n)
    BY <2>3, <2>4 DEF Order, InSession
  <2>6. ~c.abandoned => \A n \in s.next..(c.rid - 1) : n \in DOMAIN c.requests \ {r}
    <3>1. ~c.abandoned => \A n \in s.next..(c.rid - 1) : n \in DOMAIN c.requests
      BY <2>1 DEF Order
    <3>2. r \in Nat /\ r < s.next
      BY <1>1, <2>1, <2>2
    <3>3. r \notin s.next..(c.rid - 1)
      BY <1>1, <3>2
    <3> QED BY <3>1, <3>3
  <2>7. CASE reply.type = "bare"
    <3>1. /\ d.rid = c.rid + 1 /\ DOMAIN d.requests = (DOMAIN c.requests \ {r}) \cup {c.rid}
          /\ d.requests[c.rid].kind = "connect" /\ d.sid
      BY <1>7, <2>7 DEF Joins
    <3>2. \A n \in DOMAIN d.requests : InSession(d, n)
      BY <2>5, <3>1 DEF InSession
    <3>3. ~d.abandoned => \A n \in s.next..(d.rid - 1) : n \in DOMAIN d.requests
      BY <1>1, <2>4, <2>6, <3>1
    <3>4. s.next <= d.rid
      BY <1>1, <3>1 DEF Order
    <3> QED BY <1>1, <3>1, <3>2, <3>3, <3>4 DEF Order
  <2>8. CASE reply.type # "bare"
    <3>1. d.rid = c.rid /\ DOMAIN d.requests = DOMAIN c.requests \ {r}
      BY <1>7, <2>8 DEF Joins
    <3>2. ~HasConnect(d)
      BY <2>4, <3>1 DEF HasConnect
    <3>3. ~d.abandoned => \A n \in s.next..(d.rid - 1) : n \in DOMAIN d.requests
      BY <2>4, <2>6, <3>1
    <3>4. \A n \in DOMAIN d.requests : InSession(d, n)
      BY <2>5, <3>1
    <3> QED BY <1>1, <3>1, <3>2, <3>3, <3>4 DEF Order
  <2> QED BY <2>7, <2>8
<1>8. ASSUME Goes(c, {}, d) PROVE Order(d, t)
  BY <1>3, <1>8
<1>9. ASSUME NEW r, Goes(c, {r}, d), d.abandoned PROVE Order(d, t)
  BY <1>3, <1>9
<1>10. ASSUME NEW r, NEW reply, Gets(c, s, r, reply), Goes(c, {r}, d) PROVE Order(d, t)
  BY <1>3, <1>4, <1>10
<1> QED BY <1>2, <1>6, <1>7, <1>8, <1>9, <1>10 DEF Event, Answer


\* The server's answer keeps the order.
LEMMA OrderServer ==
  ASSUME NEW c, ClientInv(c), NEW s \in Servers, Order(c, s),
         NEW t, NEW reply, Sends(c, s, t, reply)
  PROVE  Order(c, t)
<1>1. /\ c.rid \in Nat /\ s.next \in Nat /\ t.next = s.next + 1
      /\ s.next < c.rid
  BY Rids DEF ClientInv, Servers, Sends
<1> QED BY <1>1 DEF Order

OrderInv == BaseInv /\ Order(client, server)

\* Initially.
LEMMA InitOrder ==
  Init => OrderInv
<1> SUFFICES ASSUME Init PROVE OrderInv
  OBVIOUS
<1>1. /\ client.rid = 2 /\ ~client.sid /\ ~client.connected /\ DOMAIN client.requests = {1}
      /\ server.next = 1
  BY DEF Init
<1>2. \A n \in 1..(2 - 1) : n = 1
  OBVIOUS
<1>3. \A n \in server.next..(client.rid - 1) : n \in DOMAIN client.requests
  BY <1>1, <1>2
<1> QED BY <1>1, <1>3, InitBase DEF OrderInv, Order

\* Every step keeps it.
LEMMA NextOrder ==
  OrderInv /\ [Next]_vars => OrderInv'
<1> SUFFICES ASSUME OrderInv, [Next]_vars PROVE OrderInv'
  OBVIOUS
<1>1. /\ BaseInv /\ Order(client, server) /\ ClientInv(client) /\ server \in Servers
      /\ AnswersFit(client, server)
  BY DEF OrderInv, BaseInv
<1>2. BaseInv'
  BY <1>1, NextBase
<1>3. CASE client' = client /\ \E reply \in Replies : Sends(client, server, server', reply)
  <2>1. Order(client, server')
    BY <1>1, <1>3, OrderServer
  <2>2. Order(client', server')
    BY <1>3, <2>1
  <2> QED BY <1>2, <2>2 DEF OrderInv
<1>4. CASE Event(client, server, client') /\ Later(server, server', client')
  <2>1. Order(client', server')
    BY <1>1, <1>4, OrderEvent
  <2> QED BY <1>2, <2>1 DEF OrderInv
<1> QED BY <1>1, <1>3, <1>4, StepFacts

\* The order holds of every state.
LEMMA Ordered ==
  Spec => []OrderInv
<1>1. Init => OrderInv
  BY InitOrder
<1>2. OrderInv /\ [Next]_vars => OrderInv'
  BY NextOrder
<1> QED BY <1>1, <1>2, PTL DEF Spec

\* The rid the server waits for is in the queue, or the one the client uses
\* next: neither end waits for the other across a missing rid.
THEOREM InStepHolds ==
  Spec => []InStep
<1>1. OrderInv => InStep
  <2> SUFFICES ASSUME OrderInv, client.sid, ~client.abandoned
               PROVE  server.next \in DOMAIN client.requests \cup {client.rid}
    BY DEF InStep
  <2>1. /\ server.next \in Nat /\ client.rid \in Nat /\ server.next <= client.rid
        /\ \A n \in server.next..(client.rid - 1) : n \in DOMAIN client.requests
    BY Rids DEF OrderInv, BaseInv, ClientInv, Servers, Order
  <2>2. CASE server.next = client.rid
    BY <2>2
  <2>3. CASE server.next # client.rid
    <3>1. server.next \in server.next..(client.rid - 1)
      BY <2>1, <2>3
    <3> QED BY <2>1, <3>1
  <2> QED BY <2>2, <2>3
<1> QED BY <1>1, Ordered, PTL



-----------------------------------------------------------------------------
(* The messages on their way, and the contract.                            *)

\* The server has put the messages out in their order, and what an answer
\* still holds is later than all that the page has seen.
Mail(c, s) ==
  /\ \A m \in Messages : c.delivered[m] > 0 => m \in s.messages
  /\ \A m \in s.messages : \A k \in 1..m : k \in s.messages
  /\ \A r \in DOMAIN s.answers : s.answers[r].messages \subseteq s.messages
  /\ c.connected =>
       \A r \in DOMAIN s.answers :
         \A m \in s.answers[r].messages, k \in Messages : c.delivered[k] > 0 => k < m

\* At most one answer on its way carries a step of the authentication, or
\* messages.
LEMMA OneBusyAnswer ==
  ASSUME NEW c, ClientInv(c), NEW s, AnswersFit(c, s), c.connected,
         NEW r \in DOMAIN s.answers, NEW n \in DOMAIN c.requests,
         s.answers[r].auth = "next" \/ s.answers[r].messages # {},
         c.requests[n].kind = "data"
  PROVE  n = r
<1>1. r \in DOMAIN c.requests /\ c.requests[r].kind = "data"
  BY DEF AnswersFit, Fits
<1>2. c.requests[r].kind # "terminate" /\ c.requests[n].kind # "terminate"
  BY <1>1
<1> QED BY <1>1, <1>2 DEF ClientInv, Queue

\* A batch of messages, as the contract receives it.
Batch(c, d, batch) ==
  /\ \A m \in batch, k \in Messages : c.delivered[k] > 0 => k < m
  /\ d.delivered = [m \in Messages |-> IF m \in batch THEN 1 ELSE c.delivered[m]]

\* A step of the contract, or none.
Keeps(c, d) ==
  \/ d.opened = c.opened /\ d.closed = c.closed /\ d.delivered = c.delivered
  \/ d.opened = c.opened /\ c.closed = 0 /\ d.closed = 1 /\ d.delivered = c.delivered
  \/ /\ c.closed = 0 /\ d.closed = 0 /\ d.opened = 1
     /\ c.opened \in {0, 1}
     /\ \E batch \in SUBSET Messages : Batch(c, d, batch)

\* What the stanzas of an answer do to the page.
LEMMA ReadsKeeps ==
  ASSUME NEW c, ClientInv(c), NEW s \in Servers, AnswersFit(c, s), Mail(c, s),
         NEW r, NEW reply, NEW thrown, Gets(c, s, r, reply),
         NEW d, ClientInv(d), Reads(c, r, d, reply, thrown)
  PROVE  /\ Keeps(c, d)
         /\ \A m \in Messages : d.delivered[m] > 0 => c.delivered[m] > 0 \/ m \in reply.messages
         /\ reply.messages = {} => d.delivered = c.delivered
<1>1. PICK a : /\ Goes(c, {r}, a) \/ ("auth" \in Waiting(c) /\ Proceeds(c, r, a))
               /\ Delivers(a, d, reply.messages, thrown)
  BY DEF Reads
<1>2. /\ a.delivered = c.delivered /\ a.closed = c.closed /\ a.connected = c.connected
      /\ d.opened = a.opened /\ d.closed = a.closed /\ d.authenticated = a.authenticated
      /\ d.connected = a.connected
  BY <1>1 DEF Goes, Proceeds, Delivers
<1>3. /\ c.delivered \in Deliveries /\ c.opened \in {0, 1} /\ d.opened \in {0, 1}
      /\ reply.messages \subseteq Messages
  BY ClientFields DEF ClientInv, Good, Life, Gets, Fits, Replies
<1>4. a.opened = c.opened \/ (a.opened = 1 /\ c.closed = 0 /\ a.authenticated)
  <2>1. CASE Goes(c, {r}, a)
    BY <2>1 DEF Goes
  <2>2. CASE "auth" \in Waiting(c) /\ Proceeds(c, r, a)
    <3>1. c.stage < Rounds /\ c.connected /\ c.closed = 0
      BY <2>2 DEF ClientInv, Life
    <3>2. c.opened # 1
      <4>1. c.stage # Rounds
        BY <3>1, LimitAssumption
      <4> QED BY <4>1 DEF ClientInv, Life
    <3>3. c.opened = 0
      BY <1>3, <3>2
    <3>4. CASE a.stage < Rounds
      BY <2>2, <3>4 DEF Proceeds
    <3>5. CASE ~(a.stage < Rounds)
      <4>1. a.authenticated /\ a.opened = c.opened + 1
        BY <2>2, <3>5 DEF Proceeds
      <4> QED BY <3>1, <3>3, <4>1
    <3> QED BY <3>4, <3>5
  <2> QED BY <1>1, <2>1, <2>2
<1>5. CASE d.delivered = c.delivered
  <2>1. Batch(c, d, {})
    <3>1. c.delivered = [m \in Messages |-> c.delivered[m]]
      BY <1>3 DEF Deliveries
    <3>2. [m \in Messages |-> IF m \in {} THEN 1 ELSE c.delivered[m]]
            = [m \in Messages |-> c.delivered[m]]
      OBVIOUS
    <3> QED BY <1>5, <3>1, <3>2 DEF Batch
  <2>2. Keeps(c, d)
    BY <1>2, <1>3, <1>4, <1>5, <2>1 DEF Keeps
  <2> QED BY <1>5, <2>2
<1>6. CASE d.delivered # c.delivered
  <2> DEFINE last == IF thrown \in reply.messages THEN thrown ELSE MaxMessages
             batch == {m \in reply.messages : m <= last}
  <2>1. /\ a.authenticated
        /\ d.delivered = [m \in Messages |-> IF m \in reply.messages /\ m <= last
                                             THEN c.delivered[m] + 1
                                             ELSE c.delivered[m]]
    BY <1>1, <1>2, <1>6 DEF Delivers
  <2>2. reply.messages # {}
    <3>1. ASSUME reply.messages = {} PROVE FALSE
      <4>1. d.delivered = [m \in Messages |-> c.delivered[m]]
        BY <2>1, <3>1
      <4>2. c.delivered = [m \in Messages |-> c.delivered[m]]
        BY <1>3 DEF Deliveries
      <4> QED BY <1>6, <4>1, <4>2
    <3> QED BY <3>1
  <2>3. d.connected /\ c.connected /\ c.closed = 0 /\ d.closed = 0 /\ d.opened = 1
    BY <1>2, <2>1 DEF ClientInv, Life
  <2>4. r \in DOMAIN s.answers /\ reply = s.answers[r]
    BY <2>2 DEF Gets
  <2>5. \A m \in reply.messages, k \in Messages : c.delivered[k] > 0 => k < m
    BY <2>3, <2>4 DEF Mail
  <2>6. \A m \in Messages : m \in Int /\ c.delivered[m] \in Nat
    BY <1>3, LimitAssumption DEF Deliveries, Messages
  <2>7. \A m \in reply.messages : c.delivered[m] = 0
    BY <1>3, <2>5, <2>6
  <2>8. \A m \in Messages :
          (IF m \in reply.messages /\ m <= last THEN c.delivered[m] + 1 ELSE c.delivered[m])
            = (IF m \in batch THEN 1 ELSE c.delivered[m])
    BY <2>7
  <2>9. batch \in SUBSET Messages /\ Batch(c, d, batch)
    BY <1>3, <2>1, <2>5, <2>8 DEF Batch
  <2>10. Keeps(c, d)
    BY <1>3, <2>3, <2>9 DEF Keeps
  <2>11. \A m \in Messages : d.delivered[m] > 0 => c.delivered[m] > 0 \/ m \in reply.messages
    BY <2>1
  <2> QED BY <2>2, <2>10, <2>11
<1> QED BY <1>5, <1>6


\* Every event keeps the contract, and the order of the messages.
LEMMA MailEvent ==
  ASSUME NEW c, ClientInv(c), NEW s \in Servers, AnswersFit(c, s), Mail(c, s),
         NEW d, ClientInv(d), Event(c, s, d), NEW t, Later(s, t, d)
  PROVE  Keeps(c, d) /\ Mail(d, t)
<1>1. /\ t.messages = s.messages
      /\ \A n \in DOMAIN t.answers :
           n \in DOMAIN s.answers /\ n \in DOMAIN d.requests /\ t.answers[n] = s.answers[n]
  BY DEF Later
<1>2. ASSUME d.delivered = c.delivered, c.connected \/ ~d.connected
      PROVE  Mail(d, t)
  BY <1>1, <1>2 DEF Mail
<1>3. CASE Over(c, d)
  BY <1>2, <1>3 DEF Over, Keeps
<1>4. ASSUME NEW R, Goes(c, R, d)
      PROVE  Keeps(c, d) /\ Mail(d, t)
  BY <1>2, <1>4 DEF Goes, Keeps
<1>5. ASSUME NEW r, NEW reply, Gets(c, s, r, reply), c.requests[r].kind = "connect",
             Joins(c, r, d, reply)
      PROVE  Keeps(c, d) /\ Mail(d, t)
  <2>1. /\ d.opened = c.opened /\ d.closed = c.closed /\ d.delivered = c.delivered
        /\ \A n \in DOMAIN c.requests \ {r} : c.requests[n].kind = "terminate"
        /\ r \notin DOMAIN d.requests
    <3>1. r \in DOMAIN c.requests /\ r < c.rid /\ c.rid \in Nat /\ r \in Nat
      BY <1>5, Rids DEF Gets, ClientInv
    <3> QED BY <1>5, <3>1 DEF Joins
  <2>2. \A n \in DOMAIN t.answers : t.answers[n].messages = {}
    <3> SUFFICES ASSUME NEW n \in DOMAIN t.answers PROVE t.answers[n].messages = {}
      OBVIOUS
    <3>1. n \in DOMAIN s.answers /\ n # r /\ t.answers[n] = s.answers[n]
      BY <1>1, <2>1
    <3>2. Fits(c.requests[n].kind, s.answers[n]) /\ c.requests[n].kind = "terminate"
      BY <2>1, <3>1 DEF AnswersFit
    <3> QED BY <3>1, <3>2 DEF Fits
  <2> QED BY <1>1, <2>1, <2>2 DEF Mail, Keeps
<1>6. ASSUME NEW r, NEW reply, NEW thrown, Gets(c, s, r, reply), Reads(c, r, d, reply, thrown)
      PROVE  Keeps(c, d) /\ Mail(d, t)
  <2>1. /\ Keeps(c, d)
        /\ \A m \in Messages : d.delivered[m] > 0 => c.delivered[m] > 0 \/ m \in reply.messages
        /\ reply.messages = {} => d.delivered = c.delivered
    BY <1>6, ReadsKeeps
  <2>2. c.connected = d.connected /\ r \in DOMAIN c.requests /\ r \notin DOMAIN d.requests
    <3>1. PICK a : /\ Goes(c, {r}, a) \/ Proceeds(c, r, a)
                   /\ Delivers(a, d, reply.messages, thrown)
      BY <1>6 DEF Reads
    <3>2. r \in DOMAIN c.requests /\ r < c.rid /\ c.rid \in Nat /\ r \in Nat
      BY <1>6, Rids DEF Gets, ClientInv
    <3>3. c.connected = a.connected /\ r \notin DOMAIN a.requests
      BY <3>1, <3>2 DEF Goes, Proceeds
    <3> QED BY <3>1, <3>2, <3>3 DEF Delivers
  <2>3. CASE reply.messages = {}
    BY <1>2, <2>1, <2>2, <2>3
  <2>4. CASE reply.messages # {}
    <3>1. /\ r \in DOMAIN s.answers /\ reply = s.answers[r]
          /\ c.requests[r].kind = "data"
      BY <1>6, <2>4 DEF Gets, Fits
    <3>2. \A m \in Messages : d.delivered[m] > 0 => m \in s.messages
      BY <2>1, <3>1 DEF Mail
    <3>3. ASSUME d.connected, NEW n \in DOMAIN t.answers
          PROVE  t.answers[n].messages = {}
      <4>1. n \in DOMAIN s.answers /\ n # r /\ t.answers[n] = s.answers[n] /\ c.connected
        BY <1>1, <2>2, <3>3
      <4>2. s.answers[n].messages # {} => r = n
        BY <3>1, <4>1, <2>2, OneBusyAnswer
      <4> QED BY <4>1, <4>2
    <3> QED BY <1>1, <2>1, <3>2, <3>3 DEF Mail
  <2> QED BY <2>3, <2>4
<1> QED BY <1>3, <1>4, <1>5, <1>6 DEF Event, Answer

\* The server's answer keeps the order of the messages.
LEMMA MailServer ==
  ASSUME NEW c, ClientInv(c), NEW s \in Servers, AnswersFit(c, s), Mail(c, s),
         NEW t \in Servers, NEW reply, Sends(c, s, t, reply)
  PROVE  Mail(c, t)
<1>1. /\ t.messages = s.messages \cup reply.messages
      /\ reply.messages \subseteq Messages \ s.messages
      /\ \A m \in reply.messages : \A k \in 1..m : k \in reply.messages \cup s.messages
      /\ \A n \in DOMAIN t.answers :
           \/ t.answers[n] = reply
           \/ n \in DOMAIN s.answers /\ t.answers[n] = s.answers[n]
  BY DEF Sends
<1>2. s.messages \subseteq Messages
  BY DEF Servers
<1>3. \A m \in t.messages : \A k \in 1..m : k \in t.messages
  BY <1>1 DEF Mail
<1>4. ASSUME NEW m \in reply.messages, NEW k \in Messages, c.delivered[k] > 0
      PROVE  k < m
  <2>1. k \in s.messages /\ m \notin s.messages /\ m \in Messages
    BY <1>1, <1>4 DEF Mail
  <2>2. m \in Int /\ k \in Int /\ m >= 1
    BY <2>1, LimitAssumption DEF Messages
  <2>3. m \in 1..k => m \in s.messages
    BY <2>1 DEF Mail
  <2> QED BY <2>1, <2>2, <2>3
<1>5. \A n \in DOMAIN t.answers : t.answers[n].messages \subseteq t.messages
  BY <1>1 DEF Mail
<1>6. \A m \in Messages : c.delivered[m] > 0 => m \in t.messages
  BY <1>1 DEF Mail
<1>7. c.connected =>
        \A n \in DOMAIN t.answers :
          \A m \in t.answers[n].messages, k \in Messages : c.delivered[k] > 0 => k < m
  BY <1>1, <1>4 DEF Mail
<1> QED BY <1>3, <1>5, <1>6, <1>7 DEF Mail

MailInv == BaseInv /\ Mail(client, server)

\* Initially.
LEMMA InitMail ==
  Init => MailInv
<1> SUFFICES ASSUME Init PROVE MailInv
  OBVIOUS
<1>1. /\ client.delivered = [m \in Messages |-> 0] /\ ~client.connected
      /\ server.messages = {} /\ server.answers = <<>>
  BY DEF Init
<1>2. \A m \in Messages : ~(client.delivered[m] > 0)
  BY <1>1
<1>3. DOMAIN server.answers = {}
  BY <1>1
<1> QED BY <1>1, <1>2, <1>3, InitBase DEF MailInv, Mail

\* Every step keeps it, and the contract.
LEMMA NextMail ==
  ASSUME MailInv, [Next]_vars
  PROVE  MailInv' /\ Keeps(client, client')
<1>1. /\ BaseInv /\ Mail(client, server) /\ ClientInv(client) /\ server \in Servers
      /\ AnswersFit(client, server)
  BY DEF MailInv, BaseInv
<1>2. BaseInv'
  BY <1>1, NextBase
<1>3. ClientInv(client') /\ server' \in Servers
  BY <1>1, StepFacts
<1>4. CASE client' = client /\ \E reply \in Replies : Sends(client, server, server', reply)
  <2>1. Mail(client, server')
    BY <1>1, <1>3, <1>4, MailServer
  <2>2. Mail(client', server')
    BY <1>4, <2>1
  <2>3. Keeps(client, client')
    BY <1>4 DEF Keeps
  <2> QED BY <1>2, <2>2, <2>3 DEF MailInv
<1>5. CASE Event(client, server, client') /\ Later(server, server', client')
  <2>1. Mail(client', server') /\ Keeps(client, client')
    BY <1>1, <1>3, <1>5, MailEvent
  <2> QED BY <1>2, <2>1 DEF MailInv
<1> QED BY <1>1, <1>4, <1>5, StepFacts

\* The callbacks keep the contract: onopen first and once, each message once
\* and in order, onclose once, and nothing afterwards.
THEOREM ContractKept ==
  Spec => KeepsContract
<1>1. Init => MailInv /\ Contract!Init
  <2>1. Init => Contract!Init
    BY DEF Init, Contract!Init
  <2> QED BY <2>1, InitMail
<1>2. MailInv /\ [Next]_vars => MailInv' /\ [Contract!Next]_Contract!vars
  <2> SUFFICES ASSUME MailInv, [Next]_vars
               PROVE  MailInv' /\ [Contract!Next]_Contract!vars
    OBVIOUS
  <2>1. MailInv' /\ Keeps(client, client')
    BY NextMail
  <2>2. CASE client'.opened = client.opened /\ client'.closed = client.closed
             /\ client'.delivered = client.delivered
    BY <2>1, <2>2 DEF Contract!vars
  <2>3. CASE client'.opened = client.opened /\ client.closed = 0 /\ client'.closed = 1
             /\ client'.delivered = client.delivered
    BY <2>1, <2>3 DEF Contract!Next, Contract!Close
  <2>4. ASSUME client.closed = 0, client'.closed = 0, client'.opened = 1,
               client.opened \in {0, 1},
               NEW batch \in SUBSET Messages, Batch(client, client', batch)
        PROVE  Contract!Next
    <3>1. Contract!Receive(batch)
      BY <2>4 DEF Batch, Contract!Receive
    <3>2. CASE client.opened = 0
      BY <2>4, <3>1, <3>2 DEF Contract!Next, Contract!Open
    <3>3. CASE client.opened = 1
      BY <2>4, <3>1, <3>3 DEF Contract!Next, Contract!Message
    <3> QED BY <2>4, <3>2, <3>3
  <2> QED BY <2>1, <2>2, <2>3, <2>4 DEF Keeps
<1> QED BY <1>1, <1>2, PTL DEF Spec, KeepsContract, Contract!Spec



-----------------------------------------------------------------------------
(* The authentication at both ends.                                        *)

\* An answer on its way brings the next step of the authentication.
NextUnderway(s) == \E r \in DOMAIN s.answers : s.answers[r].auth = "next"

\* The client is where the server is, or one answer behind; it waits for the
\* stanza it has asked for, and for messages.
Progress(c, s) ==
  /\ HasConnect(c) => s.auth = 0 /\ s.messages = {}
  /\ c.sid /\ ~c.abandoned => s.auth = c.stage + (IF NextUnderway(s) THEN 1 ELSE 0)
  /\ c.connected /\ Busy(c) /\ ~c.authenticated => "auth" \in Waiting(c)
  /\ c.connected => (c.authenticated <=> c.stage = Rounds)
  /\ (c.sid \/ HasConnect(c)) /\ ~c.threw => "message" \in Waiting(c)
  /\ s.messages # {} => s.auth = Rounds

\* The next step of the authentication finds its handler.
LEMMA NextAwaited ==
  ASSUME NEW c, ClientInv(c), NEW s \in Servers, AnswersFit(c, s), Progress(c, s),
         c.sid, ~c.abandoned, NEW r \in DOMAIN s.answers, s.answers[r].auth = "next"
  PROVE  "auth" \in Waiting(c) /\ s.auth = c.stage + 1
<1>1. NextUnderway(s)
  BY DEF NextUnderway
<1>2. s.auth = c.stage + 1 /\ s.auth \in 0..Rounds /\ c.stage \in 0..Rounds
  BY <1>1, ClientFields DEF Progress, Servers, Stages, ClientInv, Good
<1>3. c.stage # Rounds
  BY <1>2, LimitAssumption
<1>4. c.connected /\ ~c.authenticated
  BY <1>3 DEF ClientInv, Life, Progress
<1>5. r \in DOMAIN c.requests /\ c.requests[r].kind = "data"
  BY DEF AnswersFit, Fits
<1>6. Busy(c)
  BY <1>5 DEF Busy
<1> QED BY <1>2, <1>4, <1>6 DEF Progress

\* An answer without the next step leaves it where it was.
LEMMA NextStays ==
  ASSUME NEW s, NEW t, NEW d, Later(s, t, d), NEW R,
         \A n \in DOMAIN s.answers : n \in R \/ n \in DOMAIN d.requests,
         \A n \in R \cap DOMAIN s.answers : s.answers[n].auth # "next"
  PROVE  NextUnderway(t) <=> NextUnderway(s)
BY DEF Later, NextUnderway

\* Where the rids of R leave the queue, and bring no step of the authentication.
LEMMA ProgressGoes ==
  ASSUME NEW c, ClientInv(c), NEW s \in Servers, AnswersFit(c, s), Progress(c, s),
         NEW R, NEW d, Goes(c, R, d), NEW t, Later(s, t, d),
         \A n \in R : d.abandoned \/ (c.sid =>
           (n \in DOMAIN s.answers => s.answers[n].auth # "next"))
  PROVE  Progress(d, t)
<1>1. /\ d.sid = c.sid /\ d.connected = c.connected /\ d.authenticated = c.authenticated
      /\ d.stage = c.stage /\ d.threw = c.threw /\ (c.abandoned => d.abandoned)
      /\ \A n : n \in DOMAIN d.requests <=> n \in DOMAIN c.requests \ R \/ n \in c.rid..(d.rid - 1)
      /\ \A n \in DOMAIN c.requests \ R : d.requests[n].kind = c.requests[n].kind
      /\ \A n \in c.rid..(d.rid - 1) : d.requests[n].kind # "connect"
      /\ ~d.authenticated /\ Busy(d) => Busy(c)
      /\ "message" \in Waiting(c) => "message" \in Waiting(d)
      /\ "auth" \in Waiting(c) => "auth" \in Waiting(d) \/ ~Busy(d)
  BY DEF Goes
<1>2. t.auth = s.auth /\ t.messages = s.messages
  BY DEF Later
<1>3. HasConnect(d) => HasConnect(c)
  BY <1>1 DEF HasConnect
<1>4. ASSUME d.sid, ~d.abandoned
      PROVE  NextUnderway(t) <=> NextUnderway(s)
  <2>1. \A n \in DOMAIN s.answers : n \in R \/ n \in DOMAIN d.requests
    BY <1>1 DEF AnswersFit
  <2>2. \A n \in R \cap DOMAIN s.answers : s.answers[n].auth # "next"
    BY <1>1, <1>4
  <2> QED BY <2>1, <2>2, NextStays
<1>5. d.sid /\ ~d.abandoned => t.auth = d.stage + (IF NextUnderway(t) THEN 1 ELSE 0)
  <2> SUFFICES ASSUME d.sid, ~d.abandoned
               PROVE  t.auth = d.stage + (IF NextUnderway(t) THEN 1 ELSE 0)
    OBVIOUS
  <2>1. s.auth = c.stage + (IF NextUnderway(s) THEN 1 ELSE 0)
    BY <1>1 DEF Progress
  <2>2. NextUnderway(t) <=> NextUnderway(s)
    BY <1>4
  <2> QED BY <1>1, <1>2, <2>1, <2>2
<1>6. d.connected /\ Busy(d) /\ ~d.authenticated => "auth" \in Waiting(d)
  BY <1>1 DEF Progress
<1>7. d.connected => (d.authenticated <=> d.stage = Rounds)
  BY <1>1 DEF Progress
<1>8. (d.sid \/ HasConnect(d)) /\ ~d.threw => "message" \in Waiting(d)
  BY <1>1, <1>3 DEF Progress
<1> QED BY <1>2, <1>3, <1>5, <1>6, <1>7, <1>8 DEF Progress

\* Where the authentication takes a step.
LEMMA ProgressProceeds ==
  ASSUME NEW c, ClientInv(c), NEW s \in Servers, AnswersFit(c, s), Order(c, s), Progress(c, s),
         NEW r, NEW reply, Gets(c, s, r, reply), reply.auth = "next", "auth" \in Waiting(c),
         NEW d, Proceeds(c, r, d), "message" \in Waiting(c) => "message" \in Waiting(d),
         NEW t, Later(s, t, d)
  PROVE  Progress(d, t)
<1>1. /\ d.sid = c.sid /\ d.connected = c.connected /\ d.threw = c.threw
      /\ d.abandoned = c.abandoned /\ Good(d)
      /\ DOMAIN d.requests = DOMAIN c.requests \ {r}
      /\ \A n \in DOMAIN c.requests \ {r} : d.requests[n].kind = c.requests[n].kind
      /\ d.stage = c.stage + 1
      /\ d.stage < Rounds => "auth" \in Waiting(d) /\ d.authenticated = c.authenticated
      /\ ~(d.stage < Rounds) => d.authenticated
  BY DEF Proceeds
<1>2. t.auth = s.auth /\ t.messages = s.messages
  BY DEF Later
<1>3. HasConnect(d) => HasConnect(c)
  BY <1>1 DEF HasConnect
<1>4. c.connected /\ c.stage < Rounds /\ c.stage \in Nat /\ d.stage \in 0..Rounds
  BY <1>1, ClientFields DEF ClientInv, Good, Life, Stages
<1>5. c.sid /\ ~c.abandoned => t.auth = d.stage /\ ~NextUnderway(t)
  <2> SUFFICES ASSUME c.sid, ~c.abandoned PROVE t.auth = d.stage /\ ~NextUnderway(t)
    OBVIOUS
  <2>1. r \in DOMAIN s.answers /\ s.answers[r].auth = "next" /\ r \in DOMAIN c.requests
    BY DEF Order, Gets
  <2>2. s.auth = c.stage + 1
    BY <2>1, NextAwaited
  <2>3. ASSUME NEW n \in DOMAIN t.answers, t.answers[n].auth = "next"
        PROVE  FALSE
    <3>1. n \in DOMAIN s.answers /\ s.answers[n].auth = "next" /\ n # r
      BY <1>1, <2>3 DEF Later
    <3>2. n \in DOMAIN c.requests /\ c.requests[n].kind = "data"
      BY <3>1 DEF AnswersFit, Fits
    <3>3. n = r
      BY <1>4, <2>1, <3>2, OneBusyAnswer
    <3> QED BY <3>1, <3>3
  <2> QED BY <1>1, <1>2, <2>2, <2>3 DEF NextUnderway
<1>6. d.sid /\ ~d.abandoned => t.auth = d.stage + (IF NextUnderway(t) THEN 1 ELSE 0)
  BY <1>1, <1>4, <1>5
<1>7. d.connected => (d.authenticated <=> d.stage = Rounds)
  <2>1. c.stage # Rounds
    BY <1>4, LimitAssumption
  <2>2. ~c.authenticated
    BY <1>4, <2>1 DEF Progress
  <2>3. CASE d.stage < Rounds
    BY <1>1, <1>4, <2>2, <2>3, LimitAssumption
  <2>4. CASE ~(d.stage < Rounds)
    BY <1>1, <1>4, <2>4, LimitAssumption
  <2> QED BY <2>3, <2>4
<1>8. d.connected /\ Busy(d) /\ ~d.authenticated => "auth" \in Waiting(d)
  BY <1>1
<1>9. (d.sid \/ HasConnect(d)) /\ ~d.threw => "message" \in Waiting(d)
  BY <1>1, <1>3 DEF Progress
<1> QED BY <1>2, <1>3, <1>6, <1>7, <1>8, <1>9 DEF Progress

\* Where the answer to connect() is in.
LEMMA ProgressJoins ==
  ASSUME NEW c, ClientInv(c), NEW s \in Servers, AnswersFit(c, s), Progress(c, s),
         NEW r \in DOMAIN c.requests, c.requests[r].kind = "connect",
         NEW reply, NEW d, Joins(c, r, d, reply), NEW t, Later(s, t, d)
  PROVE  Progress(d, t)
<1>1. HasConnect(c)
  BY DEF HasConnect
<1>2. t.auth = 0 /\ t.messages = {}
  BY <1>1 DEF Later, Progress
<1>3. r \in Nat /\ r < c.rid /\ c.rid \in Nat
  BY Rids DEF ClientInv
<1>4. /\ d.connected /\ ~d.authenticated /\ d.stage = 0 /\ d.threw = c.threw
      /\ ("message" \in Waiting(d) <=> "message" \in Waiting(c))
      /\ \A n \in DOMAIN c.requests \ {r} :
           /\ d.requests[n].kind = "terminate" /\ c.requests[n].kind = "terminate"
      /\ r \notin DOMAIN d.requests
      /\ \A n \in DOMAIN d.requests : n \in DOMAIN c.requests \ {r} \/ n = c.rid
  BY <1>3 DEF Joins
<1>5. ~NextUnderway(t)
  <2> SUFFICES ASSUME NEW n \in DOMAIN t.answers PROVE t.answers[n].auth # "next"
    BY DEF NextUnderway
  <2>1. n \in DOMAIN s.answers /\ n # r /\ t.answers[n] = s.answers[n] /\ n \in DOMAIN c.requests
    BY <1>4 DEF Later, AnswersFit
  <2>2. c.requests[n].kind = "terminate" /\ Fits(c.requests[n].kind, s.answers[n])
    BY <1>4, <2>1 DEF AnswersFit
  <2> QED BY <2>1, <2>2 DEF Fits
<1>6. Busy(d) => "auth" \in Waiting(d)
  <2>1. \A n \in DOMAIN d.requests : d.requests[n].kind # "data"
    BY <1>4 DEF Joins
  <2>2. d.data => "auth" \in Waiting(d)
    BY DEF Joins
  <2> QED BY <2>1, <2>2 DEF Busy
<1>7. ~d.threw => "message" \in Waiting(d)
  BY <1>1, <1>4 DEF Progress
<1>8. ~(d.stage = Rounds)
  BY <1>4, LimitAssumption
<1> QED BY <1>2, <1>4, <1>5, <1>6, <1>7, <1>8 DEF Progress


\* An answer that leaves the authentication where it was had no step for it.
LEMMA GoesWithoutNext ==
  ASSUME NEW c, ClientInv(c), NEW s \in Servers, AnswersFit(c, s), Order(c, s), Progress(c, s),
         NEW r, NEW reply, Gets(c, s, r, reply),
         reply.auth = "next" => "auth" \notin Waiting(c),
         c.sid, ~c.abandoned
  PROVE  /\ r \in DOMAIN s.answers /\ reply = s.answers[r]
         /\ s.answers[r].auth # "next"
<1>1. r \in DOMAIN s.answers /\ reply = s.answers[r]
  BY DEF Order, Gets
<1>2. s.answers[r].auth = "next" => "auth" \in Waiting(c)
  BY <1>1, NextAwaited
<1> QED BY <1>1, <1>2

\* Where the stanzas of an answer are in.
LEMMA ProgressReads ==
  ASSUME NEW c, ClientInv(c), NEW s \in Servers, AnswersFit(c, s), Order(c, s), Progress(c, s),
         NEW r, NEW reply, Gets(c, s, r, reply), NEW thrown,
         NEW d, Reads(c, r, d, reply, thrown), NEW t, Later(s, t, d)
  PROVE  Progress(d, t)
<1>1. PICK a : /\ "message" \in a.handlers <=> "message" \in Waiting(c)
               /\ \/ Goes(c, {r}, a) /\ (reply.auth = "next" => "auth" \notin Waiting(c))
                  \/ reply.auth = "next" /\ "auth" \in Waiting(c) /\ Proceeds(c, r, a)
               /\ Delivers(a, d, reply.messages, thrown)
  BY DEF Reads
<1>2. /\ d.requests = a.requests /\ d.sid = a.sid /\ d.data = a.data
      /\ d.connected = a.connected /\ d.authenticated = a.authenticated /\ d.stage = a.stage
      /\ d.abandoned = a.abandoned
  BY <1>1 DEF Delivers
<1>3. (Waiting(d) = Waiting(a) /\ d.threw = a.threw) \/ (a.authenticated /\ d.threw)
  BY <1>1 DEF Delivers
<1>4. Later(s, t, a)
  BY <1>2 DEF Later
<1>5. Progress(a, t)
  <2>1. CASE Goes(c, {r}, a) /\ (reply.auth = "next" => "auth" \notin Waiting(c))
    <3>1. \A n \in {r} : a.abandoned \/ (c.sid =>
            (n \in DOMAIN s.answers => s.answers[n].auth # "next"))
      BY <2>1, GoesWithoutNext DEF Goes
    <3> QED BY <1>4, <2>1, <3>1, ProgressGoes
  <2>2. CASE reply.auth = "next" /\ "auth" \in Waiting(c) /\ Proceeds(c, r, a)
    <3>1. "message" \in Waiting(c) => "message" \in Waiting(a)
      BY <1>1 DEF Waiting
    <3> QED BY <1>4, <2>2, <3>1, ProgressProceeds
  <2> QED BY <1>1, <2>1, <2>2
<1>6. (HasConnect(d) <=> HasConnect(a)) /\ (Busy(d) <=> Busy(a))
  BY <1>2 DEF HasConnect, Busy
<1>7. d.connected /\ Busy(d) /\ ~d.authenticated => "auth" \in Waiting(d)
  BY <1>2, <1>3, <1>5, <1>6 DEF Progress
<1>8. (d.sid \/ HasConnect(d)) /\ ~d.threw => "message" \in Waiting(d)
  BY <1>2, <1>3, <1>5, <1>6 DEF Progress
<1> QED BY <1>2, <1>5, <1>6, <1>7, <1>8 DEF Progress

\* Every event.
LEMMA ProgressEvent ==
  ASSUME NEW c, ClientInv(c), NEW s \in Servers, AnswersFit(c, s), Order(c, s), Progress(c, s),
         NEW d, Event(c, s, d), NEW t, Later(s, t, d)
  PROVE  Progress(d, t)
<1>1. CASE Over(c, d)
  <2>1. ~d.connected /\ ~d.sid /\ ~HasConnect(d)
    BY <1>1 DEF Over, HasConnect
  <2>2. t.auth = s.auth /\ t.messages = s.messages
    BY DEF Later
  <2> QED BY <2>1, <2>2 DEF Progress
<1>2. CASE Goes(c, {}, d)
  <2>1. \A n \in {} : d.abandoned \/ (c.sid =>
          (n \in DOMAIN s.answers => s.answers[n].auth # "next"))
    OBVIOUS
  <2> QED BY <1>2, <2>1, ProgressGoes
<1>3. ASSUME NEW r, Goes(c, {r}, d), d.abandoned
      PROVE  Progress(d, t)
  <2>1. \A n \in {r} : d.abandoned \/ (c.sid =>
          (n \in DOMAIN s.answers => s.answers[n].auth # "next"))
    BY <1>3
  <2> QED BY <1>3, <2>1, ProgressGoes
<1>4. ASSUME NEW r, NEW reply, Gets(c, s, r, reply), Goes(c, {r}, d), reply.type # "stanzas"
      PROVE  Progress(d, t)
  <2>1. reply.auth # "next"
    BY <1>4 DEF Gets, Fits
  <2>2. \A n \in {r} : d.abandoned \/ (c.sid =>
          (n \in DOMAIN s.answers => s.answers[n].auth # "next"))
    BY <1>4, <2>1, GoesWithoutNext DEF Goes
  <2> QED BY <1>4, <2>2, ProgressGoes
<1>5. ASSUME NEW r, NEW reply, Gets(c, s, r, reply), c.requests[r].kind = "connect",
             Joins(c, r, d, reply)
      PROVE  Progress(d, t)
  BY <1>5, ProgressJoins DEF Gets
<1>6. ASSUME NEW r, NEW reply, NEW thrown, Gets(c, s, r, reply), Reads(c, r, d, reply, thrown)
      PROVE  Progress(d, t)
  BY <1>6, ProgressReads
<1> QED BY <1>1, <1>2, <1>3, <1>4, <1>5, <1>6 DEF Event, Answer

\* The server's answer.
LEMMA ProgressServer ==
  ASSUME NEW c, ClientInv(c), NEW s \in Servers, AnswersFit(c, s), Order(c, s), Progress(c, s),
         NEW t \in Servers, NEW reply, Sends(c, s, t, reply)
  PROVE  Progress(c, t)
<1>1. /\ s.next \in DOMAIN c.requests /\ Fits(c.requests[s.next].kind, reply)
      /\ reply.auth # "none" => s.auth < Rounds
      /\ reply.messages # {} => t.auth = Rounds
      /\ t.messages = s.messages \cup reply.messages
      /\ t.auth = s.auth + (IF reply.auth = "next" THEN 1 ELSE 0)
      /\ DOMAIN t.answers = DOMAIN s.answers \cup {s.next} /\ t.answers[s.next] = reply
      /\ \A n \in DOMAIN s.answers \ {s.next} : t.answers[n] = s.answers[n]
  BY DEF Sends
<1>2. s.next \in Nat /\ s.auth \in 0..Rounds /\ c.stage \in Nat /\ s.next \notin DOMAIN s.answers
  BY ClientFields DEF Servers, Stages, ClientInv, Good, AnswersFit
<1>3. \A n \in DOMAIN s.answers : t.answers[n] = s.answers[n]
  BY <1>1, <1>2
<1>4. HasConnect(c) => reply.auth = "none" /\ reply.messages = {}
  <2> SUFFICES ASSUME HasConnect(c), c.requests[s.next].kind = "data" PROVE FALSE
    BY <1>1 DEF Fits
  <2>1. PICK n \in DOMAIN c.requests : c.requests[n].kind = "connect"
    BY DEF HasConnect
  <2>2. n # s.next
    BY <2>1
  <2>3. CASE c.connected
    BY <1>1, <2>1, <2>2, <2>3 DEF ClientInv, Queue
  <2>4. CASE ~c.connected
    BY <1>1, <2>1, <2>2, <2>4 DEF ClientInv, Fresh
  <2> QED BY <2>3, <2>4
<1>5. HasConnect(c) => t.auth = 0 /\ t.messages = {}
  BY <1>1, <1>2, <1>4 DEF Progress
<1>6. t.messages # {} => t.auth = Rounds
  <2>1. CASE reply.messages # {}
    BY <1>1, <2>1
  <2>2. CASE reply.messages = {}
    <3>1. t.messages # {} => s.auth = Rounds
      BY <1>1, <2>2 DEF Progress
    <3>2. s.auth = Rounds => reply.auth = "none"
      BY <1>1, LimitAssumption
    <3>3. s.auth = Rounds => t.auth = Rounds
      BY <1>1, <1>2, <3>2, LimitAssumption
    <3> QED BY <3>1, <3>3
  <2> QED BY <2>1, <2>2
<1>7. ASSUME c.sid, ~c.abandoned
      PROVE  t.auth = c.stage + (IF NextUnderway(t) THEN 1 ELSE 0)
  <2>1. s.auth = c.stage + (IF NextUnderway(s) THEN 1 ELSE 0) /\ c.connected
    BY <1>7 DEF Progress, ClientInv, Life
  <2>2. CASE reply.auth = "next"
    <3>1. NextUnderway(t)
      BY <1>1, <2>2 DEF NextUnderway
    <3>2. ~NextUnderway(s)
      <4> SUFFICES ASSUME NEW n \in DOMAIN s.answers, s.answers[n].auth = "next" PROVE FALSE
        BY DEF NextUnderway
      <4>1. c.requests[s.next].kind = "data"
        BY <1>1, <2>2 DEF Fits
      <4>2. s.next = n
        BY <1>1, <2>1, <4>1, OneBusyAnswer
      <4> QED BY <1>2, <4>2
    <3> QED BY <1>1, <1>2, <2>1, <2>2, <3>1, <3>2
  <2>3. CASE reply.auth # "next"
    <3>1. NextUnderway(t) <=> NextUnderway(s)
      BY <1>1, <1>3, <2>3 DEF NextUnderway
    <3> QED BY <1>1, <1>2, <2>1, <2>3, <3>1
  <2> QED BY <2>2, <2>3
<1> QED BY <1>5, <1>6, <1>7 DEF Progress



-----------------------------------------------------------------------------
(* No message is lost, and no silence without a reason.                    *)

Complete(c, s) ==
  c.sid /\ ~c.abandoned /\ ~c.threw =>
    \A m \in s.messages :
      \/ c.delivered[m] > 0
      \/ \E r \in DOMAIN s.answers : m \in s.answers[r].messages

\* An answer that brings nothing new comes before the authentication only
\* with the offer of the mechanisms, or from a server that denies the rest.
Talks(s) ==
  \A r \in DOMAIN s.answers :
    \/ s.denied \/ s.auth = Rounds
    \/ s.answers[r].type \in {"mechanisms", "bare"} \/ s.answers[r].auth = "next"

Awake(c, s) ==
  /\ c.connected /\ ~c.sid => s.denied
  /\ c.connected /\ ~c.authenticated /\ ~s.denied /\ ~c.abandoned =>
       c.data \/ DOMAIN c.requests # {}

\* The messages of an answer that is read reach the page.
LEMMA ReadsAll ==
  ASSUME NEW c, ClientInv(c), NEW s \in Servers, AnswersFit(c, s), Order(c, s),
         Mail(c, s), Progress(c, s),
         NEW r, NEW reply, Gets(c, s, r, reply), NEW thrown,
         NEW d, Reads(c, r, d, reply, thrown),
         d.sid, ~d.abandoned, ~d.threw
  PROVE  /\ c.sid /\ ~c.abandoned /\ ~c.threw
         /\ r \in DOMAIN s.answers /\ reply = s.answers[r]
         /\ \A n \in DOMAIN c.requests \ {r} : n \in DOMAIN d.requests
         /\ \A m \in Messages : c.delivered[m] > 0 => d.delivered[m] > 0
         /\ \A m \in reply.messages : d.delivered[m] > 0
<1>1. PICK a : /\ "message" \in a.handlers <=> "message" \in Waiting(c)
               /\ \/ Goes(c, {r}, a) /\ (reply.auth = "next" => "auth" \notin Waiting(c))
                  \/ reply.auth = "next" /\ "auth" \in Waiting(c) /\ Proceeds(c, r, a)
               /\ Delivers(a, d, reply.messages, thrown)
  BY DEF Reads
<1>2. /\ d.sid = a.sid /\ d.requests = a.requests /\ d.abandoned = a.abandoned
      /\ a.authenticated /\ "message" \in a.handlers => thrown \notin reply.messages
      /\ ~a.threw
  BY <1>1 DEF Delivers
<1>3. /\ a.sid = c.sid /\ (c.abandoned => a.abandoned) /\ a.threw = c.threw
      /\ a.delivered = c.delivered
      /\ \A n \in DOMAIN c.requests \ {r} : n \in DOMAIN a.requests
  BY <1>1 DEF Goes, Proceeds
<1>4. c.sid /\ ~c.abandoned /\ ~c.threw /\ c.connected
  BY <1>2, <1>3 DEF ClientInv, Life
<1>5. r \in DOMAIN s.answers /\ reply = s.answers[r]
  BY <1>4 DEF Order, Gets
<1>6. reply.messages # {} => a.authenticated /\ "message" \in a.handlers
  <2> SUFFICES ASSUME reply.messages # {}
               PROVE  a.authenticated /\ "message" \in a.handlers
    OBVIOUS
  <2>1. "message" \in a.handlers
    BY <1>1, <1>4 DEF Progress
  <2>2. s.auth = Rounds
    BY <1>5 DEF Mail, Progress
  <2>3. c.requests[r].kind = "data"
    BY DEF Gets, Fits
  <2>4. ASSUME reply.auth = "next" PROVE a.authenticated
    <3>1. "auth" \in Waiting(c) /\ s.auth = c.stage + 1
      BY <1>4, <1>5, <2>4, NextAwaited
    <3>2. Proceeds(c, r, a)
      BY <1>1, <2>4, <3>1
    <3>3. ~(a.stage < Rounds)
      BY <2>2, <3>1, <3>2, LimitAssumption DEF Proceeds
    <3> QED BY <3>2, <3>3 DEF Proceeds
  <2>5. ASSUME reply.auth # "next" PROVE a.authenticated
    <3>1. ~NextUnderway(s)
      <4> SUFFICES ASSUME NEW n \in DOMAIN s.answers, s.answers[n].auth = "next" PROVE FALSE
        BY DEF NextUnderway
      <4>1. n \in DOMAIN c.requests /\ c.requests[n].kind = "data"
        BY DEF AnswersFit, Fits
      <4>2. n = r
        BY <1>4, <1>5, <4>1, OneBusyAnswer
      <4> QED BY <1>5, <2>5, <4>2
    <3>2. s.auth = c.stage + 0
      BY <1>4, <3>1 DEF Progress
    <3>3. c.stage \in Nat
      BY ClientFields DEF ClientInv, Good, Stages
    <3>4. c.authenticated
      BY <1>4, <2>2, <3>2, <3>3 DEF Progress
    <3>5. Goes(c, {r}, a)
      BY <1>1, <2>5
    <3> QED BY <3>4, <3>5 DEF Goes
  <2> QED BY <2>1, <2>4, <2>5
<1>7. c.delivered \in [Messages -> Nat] /\ reply.messages \subseteq Messages
  BY ClientFields DEF ClientInv, Good, Deliveries, Gets, Fits, Replies
<1>8. /\ \A m \in Messages : c.delivered[m] > 0 => d.delivered[m] > 0
      /\ \A m \in reply.messages : d.delivered[m] > 0
  <2>1. CASE a.authenticated /\ "message" \in a.handlers
    <3> DEFINE last == IF thrown \in reply.messages THEN thrown ELSE MaxMessages
    <3>1. last = MaxMessages
      BY <1>2, <2>1
    <3>2. d.delivered = [m \in Messages |-> IF m \in reply.messages /\ m <= last
                                            THEN a.delivered[m] + 1 ELSE a.delivered[m]]
      BY <1>1, <2>1 DEF Delivers
    <3>3. \A m \in Messages : m <= MaxMessages /\ c.delivered[m] \in Nat
      BY <1>7, LimitAssumption DEF Messages
    <3> HIDE DEF last
    <3> QED BY <1>3, <1>7, <3>1, <3>2, <3>3
  <2>2. CASE ~(a.authenticated /\ "message" \in a.handlers)
    <3>1. reply.messages = {}
      BY <1>6, <2>2
    <3>2. d.delivered = c.delivered
      BY <1>1, <1>3, <2>2 DEF Delivers
    <3> QED BY <3>1, <3>2
  <2> QED BY <2>1, <2>2
<1> QED BY <1>2, <1>3, <1>4, <1>5, <1>8

\* Every event.
LEMMA CompleteEvent ==
  ASSUME NEW c, ClientInv(c), NEW s \in Servers, AnswersFit(c, s), Order(c, s),
         Mail(c, s), Progress(c, s), Complete(c, s),
         NEW d, Event(c, s, d), NEW t, Later(s, t, d)
  PROVE  Complete(d, t)
<1>1. /\ t.messages = s.messages /\ s.messages \subseteq Messages
      /\ \A n \in DOMAIN s.answers : n \in DOMAIN d.requests =>
           n \in DOMAIN t.answers /\ t.answers[n] = s.answers[n]
  BY DEF Later, Servers
<1>2. CASE Over(c, d)
  BY <1>2 DEF Over, Complete
<1>3. ASSUME NEW R, Goes(c, R, d),
             \A n \in R : d.abandoned \/ (c.sid =>
               (n \in DOMAIN s.answers => s.answers[n].messages = {}))
      PROVE  Complete(d, t)
  <2> SUFFICES ASSUME d.sid, ~d.abandoned, ~d.threw, NEW m \in s.messages
               PROVE  \/ d.delivered[m] > 0
                      \/ \E n \in DOMAIN t.answers : m \in t.answers[n].messages
    BY <1>1 DEF Complete
  <2>1. c.sid /\ ~c.abandoned /\ ~c.threw /\ d.delivered = c.delivered
        /\ \A n \in DOMAIN c.requests \ R : n \in DOMAIN d.requests
    BY <1>3 DEF Goes
  <2>2. CASE c.delivered[m] > 0
    BY <2>1, <2>2
  <2>3. ASSUME NEW n \in DOMAIN s.answers, m \in s.answers[n].messages
        PROVE  \E k \in DOMAIN t.answers : m \in t.answers[k].messages
    <3>1. n \in DOMAIN c.requests /\ n \notin R
      BY <1>3, <2>1, <2>3 DEF AnswersFit
    <3>2. n \in DOMAIN t.answers /\ t.answers[n] = s.answers[n]
      BY <1>1, <2>1, <3>1
    <3> QED BY <2>3, <3>2
  <2> QED BY <2>1, <2>2, <2>3 DEF Complete
<1>4. CASE Goes(c, {}, d)
  BY <1>3, <1>4
<1>5. ASSUME NEW r, Goes(c, {r}, d), d.abandoned
      PROVE  Complete(d, t)
  BY <1>5 DEF Complete
<1>6. ASSUME NEW r, NEW reply, Gets(c, s, r, reply), Goes(c, {r}, d), reply.type # "stanzas"
      PROVE  Complete(d, t)
  <2>1. reply.messages = {}
    BY <1>6 DEF Gets, Fits
  <2>2. c.sid => reply = s.answers[r]
    BY <1>6 DEF Order, Gets
  <2> QED BY <1>3, <1>6, <2>1, <2>2
<1>7. ASSUME NEW r, NEW reply, Gets(c, s, r, reply), c.requests[r].kind = "connect",
             Joins(c, r, d, reply)
      PROVE  Complete(d, t)
  <2>1. HasConnect(c)
    BY <1>7 DEF HasConnect, Gets
  <2>2. t.messages = {}
    BY <1>1, <2>1 DEF Progress
  <2> QED BY <2>2 DEF Complete
<1>8. ASSUME NEW r, NEW reply, NEW thrown, Gets(c, s, r, reply), Reads(c, r, d, reply, thrown)
      PROVE  Complete(d, t)
  <2> SUFFICES ASSUME d.sid, ~d.abandoned, ~d.threw, NEW m \in s.messages
               PROVE  \/ d.delivered[m] > 0
                      \/ \E n \in DOMAIN t.answers : m \in t.answers[n].messages
    BY <1>1 DEF Complete
  <2>1. /\ c.sid /\ ~c.abandoned /\ ~c.threw
        /\ r \in DOMAIN s.answers /\ reply = s.answers[r]
        /\ \A n \in DOMAIN c.requests \ {r} : n \in DOMAIN d.requests
        /\ \A k \in Messages : c.delivered[k] > 0 => d.delivered[k] > 0
        /\ \A k \in reply.messages : d.delivered[k] > 0
    BY <1>8, ReadsAll
  <2>2. CASE c.delivered[m] > 0
    BY <1>1, <2>1, <2>2
  <2>3. ASSUME NEW n \in DOMAIN s.answers, m \in s.answers[n].messages, n # r
        PROVE  \E k \in DOMAIN t.answers : m \in t.answers[k].messages
    <3>1. n \in DOMAIN c.requests
      BY DEF AnswersFit
    <3>2. n \in DOMAIN t.answers /\ t.answers[n] = s.answers[n]
      BY <1>1, <2>1, <2>3, <3>1
    <3> QED BY <2>3, <3>2
  <2> QED BY <2>1, <2>2, <2>3 DEF Complete
<1> QED BY <1>2, <1>4, <1>5, <1>6, <1>7, <1>8 DEF Event, Answer

\* The server's answer holds what it adds.
LEMMA CompleteServer ==
  ASSUME NEW c, ClientInv(c), NEW s \in Servers, AnswersFit(c, s), Complete(c, s),
         NEW t, NEW reply, Sends(c, s, t, reply)
  PROVE  Complete(c, t)
<1>1. /\ t.messages = s.messages \cup reply.messages
      /\ DOMAIN t.answers = DOMAIN s.answers \cup {s.next} /\ t.answers[s.next] = reply
      /\ \A n \in DOMAIN s.answers \ {s.next} : t.answers[n] = s.answers[n]
  BY DEF Sends
<1>2. s.next \notin DOMAIN s.answers
  BY DEF Servers, AnswersFit
<1> QED BY <1>1, <1>2 DEF Complete


\* An answer without a step of the authentication, before its end, comes from
\* a server that denies the rest, or another answer has the step.
LEMMA SilentAnswer ==
  ASSUME NEW c, ClientInv(c), NEW s \in Servers, AnswersFit(c, s), Progress(c, s), Talks(s),
         c.sid, ~c.abandoned, ~c.authenticated, ~s.denied,
         NEW r \in DOMAIN s.answers, s.answers[r].auth # "next", c.requests[r].kind # "connect"
  PROVE  DOMAIN c.requests \ {r} # {}
<1>1. s.auth = Rounds
  BY DEF Talks, AnswersFit, Fits
<1>2. c.connected
  BY DEF ClientInv, Life
<1>3. c.stage \in Nat /\ c.stage # Rounds
  BY <1>2, ClientFields DEF Progress, ClientInv, Good, Stages
<1>4. NextUnderway(s)
  BY <1>1, <1>3 DEF Progress
<1> QED BY <1>4 DEF NextUnderway, AnswersFit

\* Every event.
LEMMA AwakeEvent ==
  ASSUME NEW c, ClientInv(c), NEW s \in Servers, AnswersFit(c, s), Order(c, s),
         Progress(c, s), Talks(s), Awake(c, s),
         NEW d, Event(c, s, d), NEW t, Later(s, t, d)
  PROVE  Talks(t) /\ Awake(d, t)
<1>1. t.denied = s.denied /\ Talks(t)
  BY DEF Later, Talks
<1>2. CASE Over(c, d)
  BY <1>1, <1>2 DEF Over, Awake
<1>3. ASSUME NEW R, NEW a, Goes(c, R, a)
      PROVE  /\ a.sid = c.sid /\ a.connected = c.connected /\ a.authenticated = c.authenticated
             /\ (c.abandoned => a.abandoned) /\ (c.data => a.data \/ DOMAIN a.requests # {})
             /\ \A n \in DOMAIN c.requests \ R : n \in DOMAIN a.requests
  BY <1>3 DEF Goes
<1>4. CASE Goes(c, {}, d)
  BY <1>1, <1>3, <1>4 DEF Awake
<1>5. ASSUME NEW r, Goes(c, {r}, d), d.abandoned PROVE Awake(d, t)
  BY <1>1, <1>3, <1>5 DEF Awake
<1>6. ASSUME NEW r, NEW reply, Gets(c, s, r, reply), c.requests[r].kind # "connect",
             reply.auth = "next" => "auth" \notin Waiting(c),
             NEW a, Goes(c, {r}, a)
      PROVE  Awake(a, t)
  <2>1. a.connected /\ ~a.sid => t.denied
    BY <1>1, <1>3, <1>6 DEF Awake
  <2>2. ASSUME a.connected, ~a.authenticated, ~t.denied, ~a.abandoned
        PROVE  a.data \/ DOMAIN a.requests # {}
    <3>1. c.sid /\ ~c.abandoned /\ ~c.authenticated
      BY <1>1, <1>3, <1>6, <2>2 DEF Awake
    <3>2. r \in DOMAIN s.answers /\ s.answers[r].auth # "next"
      BY <1>6, <3>1, GoesWithoutNext
    <3>3. DOMAIN c.requests \ {r} # {}
      BY <1>1, <1>6, <2>2, <3>1, <3>2, SilentAnswer
    <3> QED BY <1>3, <1>6, <3>3
  <2> QED BY <2>1, <2>2 DEF Awake
<1>7. ASSUME NEW r, NEW reply, Gets(c, s, r, reply), c.requests[r].kind # "connect",
             Goes(c, {r}, d), reply.type # "stanzas"
      PROVE  Awake(d, t)
  <2>1. reply.auth # "next"
    BY <1>7 DEF Gets, Fits
  <2> QED BY <1>6, <1>7, <2>1
<1>8. ASSUME NEW r, NEW reply, Gets(c, s, r, reply), c.requests[r].kind = "connect",
             Joins(c, r, d, reply)
      PROVE  Awake(d, t)
  <2>1. CASE reply.type = "bare"
    <3>1. d.sid /\ c.rid \in DOMAIN d.requests
      BY <1>8, <2>1 DEF Joins
    <3> QED BY <3>1 DEF Awake
  <2>2. CASE reply.type \notin {"bare", "blank", "garbled", "terminate"}
    BY <1>8, <2>2 DEF Joins, Awake
  <2>3. CASE reply.type \in {"blank", "garbled", "terminate"}
    <3>1. r \in DOMAIN s.answers /\ reply = s.answers[r] /\ reply.auth # "next"
      BY <1>8, <2>3 DEF Gets, InSession, Fits
    <3>2. s.auth # Rounds
      BY <1>8, LimitAssumption DEF HasConnect, Gets, Progress
    <3>3. s.denied
      BY <2>3, <3>1, <3>2 DEF Talks
    <3> QED BY <1>1, <3>3 DEF Awake
  <2> QED BY <2>1, <2>2, <2>3
<1>9. ASSUME NEW r, NEW reply, NEW thrown, Gets(c, s, r, reply),
             c.requests[r].kind # "connect", Reads(c, r, d, reply, thrown)
      PROVE  Awake(d, t)
  <2>1. PICK a : /\ \/ Goes(c, {r}, a) /\ (reply.auth = "next" => "auth" \notin Waiting(c))
                    \/ Proceeds(c, r, a)
                 /\ Delivers(a, d, reply.messages, thrown)
    BY <1>9 DEF Reads
  <2>2. Awake(a, t)
    <3>1. CASE Goes(c, {r}, a) /\ (reply.auth = "next" => "auth" \notin Waiting(c))
      BY <1>6, <1>9, <3>1
    <3>2. CASE Proceeds(c, r, a)
      BY <1>1, <3>2 DEF Proceeds, Awake
    <3> QED BY <2>1, <3>1, <3>2
  <2>3. /\ d.requests = a.requests /\ d.sid = a.sid /\ d.data = a.data
        /\ d.connected = a.connected /\ d.authenticated = a.authenticated
        /\ d.abandoned = a.abandoned
    BY <2>1 DEF Delivers
  <2> QED BY <2>2, <2>3 DEF Awake
<1> QED BY <1>1, <1>2, <1>4, <1>5, <1>7, <1>8, <1>9 DEF Event, Answer

\* The server's answer.
LEMMA AwakeServer ==
  ASSUME NEW c, NEW s \in Servers, NEW t, Talks(s), Awake(c, s),
         NEW reply, Sends(c, s, t, reply)
  PROVE  Talks(t) /\ Awake(c, t)
<1>1. /\ reply.auth # "none" => s.auth < Rounds
      /\ t.auth = s.auth + (IF reply.auth = "next" THEN 1 ELSE 0)
      /\ (s.denied => t.denied)
      /\ \/ t.denied \/ reply.type \in {"mechanisms", "bare"}
         \/ reply.auth = "next" \/ s.auth = Rounds
      /\ DOMAIN t.answers = DOMAIN s.answers \cup {s.next} /\ t.answers[s.next] = reply
      /\ \A n \in DOMAIN s.answers \ {s.next} : t.answers[n] = s.answers[n]
  BY DEF Sends
<1>2. s.auth = Rounds => t.auth = Rounds
  <2>1. s.auth = Rounds => reply.auth = "none"
    BY <1>1, LimitAssumption
  <2> QED BY <1>1, <2>1, LimitAssumption
<1> QED BY <1>1, <1>2 DEF Talks, Awake

\* The inductive invariant: each part needs those before it.
Inv ==
  /\ BaseInv
  /\ Order(client, server) /\ Mail(client, server) /\ Progress(client, server)
  /\ Complete(client, server) /\ Talks(server) /\ Awake(client, server)

\* Initially.
LEMMA InitInv ==
  Init => Inv
<1> SUFFICES ASSUME Init PROVE Inv
  OBVIOUS
<1>1. BaseInv /\ Order(client, server) /\ Mail(client, server)
  BY InitOrder, InitMail DEF OrderInv, MailInv
<1>2. /\ ~client.connected /\ ~client.sid /\ client.addHandlers = {"message"}
      /\ server.auth = 0 /\ server.messages = {} /\ DOMAIN server.answers = {}
  BY DEF Init
<1> QED BY <1>1, <1>2 DEF Inv, Progress, Complete, Talks, Awake, Waiting

\* Every step keeps it.
LEMMA NextInv ==
  Inv /\ [Next]_vars => Inv'
<1> SUFFICES ASSUME Inv, [Next]_vars PROVE Inv'
  OBVIOUS
<1>1. /\ ClientInv(client) /\ server \in Servers /\ AnswersFit(client, server)
      /\ Order(client, server) /\ Mail(client, server) /\ Progress(client, server)
      /\ Complete(client, server) /\ Talks(server) /\ Awake(client, server)
  BY DEF Inv, BaseInv
<1>2. BaseInv' /\ Order(client', server') /\ Mail(client', server')
  BY NextOrder, NextMail DEF Inv, OrderInv, MailInv
<1>3. server' \in Servers
  BY StepFacts DEF Inv
<1>4. CASE client' = client /\ \E reply \in Replies : Sends(client, server, server', reply)
  <2>1. /\ Progress(client, server') /\ Complete(client, server')
        /\ Talks(server') /\ Awake(client, server')
    BY <1>1, <1>3, <1>4, ProgressServer, CompleteServer, AwakeServer
  <2>2. /\ Progress(client', server') /\ Complete(client', server')
        /\ Talks(server') /\ Awake(client', server')
    BY <1>4, <2>1
  <2> QED BY <1>2, <2>2 DEF Inv
<1>5. CASE Event(client, server, client') /\ Later(server, server', client')
  <2>1. Progress(client', server')
    BY <1>1, <1>5, ProgressEvent
  <2>2. Complete(client', server')
    BY <1>1, <1>5, CompleteEvent
  <2>3. Talks(server') /\ Awake(client', server')
    BY <1>1, <1>5, AwakeEvent
  <2> QED BY <1>2, <2>1, <2>2, <2>3 DEF Inv
<1> QED BY <1>4, <1>5, StepFacts DEF Inv

\* The invariant holds of every state.
LEMMA Invariant ==
  Spec => []Inv
<1>1. Init => Inv
  BY InitInv
<1>2. Inv /\ [Next]_vars => Inv'
  BY NextInv
<1> QED BY <1>1, <1>2, PTL DEF Spec

\* A message that is out is with the page, or in an answer that the client
\* will still read: failures, time-outs, repetitions and answers out of order
\* lose none.
THEOREM NothingIsLost ==
  Spec => []NothingLost
<1>1. Inv => NothingLost
  BY DEF Inv, Complete, NothingLost
<1> QED BY <1>1, Invariant, PTL

\* The authentication falls silent only after an answer without the stanza it
\* waits for, or a request that was given up.
THEOREM SilenceExplained ==
  Spec => []SilentOnlyIfDenied
<1>1. Inv => SilentOnlyIfDenied
  BY DEF Inv, Awake, SilentOnlyIfDenied
<1> QED BY <1>1, Invariant, PTL


-----------------------------------------------------------------------------
(* A disconnect ends, without help from the server.                        *)

\* A connection that is disconnecting goes on doing so, or onclose is called.
LEMMA DisconnectingStays ==
  ASSUME BaseInv, client.connected, client.disconnecting, [Next]_vars
  PROVE  (client'.connected /\ client'.disconnecting) \/ client'.closed = 1
<1> DEFINE Stay(d) == (d.connected /\ d.disconnecting) \/ d.closed = 1
<1>1. client' = client \/ Event(client, server, client')
  BY StepFacts
<1>2. ASSUME NEW d, Over(client, d) PROVE Stay(d)
  BY <1>2 DEF Over
<1>3. ASSUME NEW d, NEW R, Goes(client, R, d) PROVE d.connected /\ d.disconnecting
  BY <1>3 DEF Goes
<1>4. ASSUME NEW r, NEW d, NEW reply, Joins(client, r, d, reply) PROVE Stay(d)
  BY <1>4 DEF Joins
<1>5. ASSUME NEW r, NEW d, NEW reply, NEW thrown, Reads(client, r, d, reply, thrown)
      PROVE  Stay(d)
  <2>1. PICK a : /\ Goes(client, {r}, a) \/ Proceeds(client, r, a)
                 /\ Delivers(a, d, reply.messages, thrown)
    BY <1>5 DEF Reads
  <2>2. a.connected /\ a.disconnecting
    BY <1>3, <2>1 DEF Proceeds
  <2> QED
    BY <2>1, <2>2 DEF Delivers
<1>6. ASSUME Event(client, server, client') PROVE Stay(client')
  BY <1>2, <1>3, <1>4, <1>5, <1>6 DEF Event, Answer
<1> QED
  BY <1>1, <1>6

\* The timer that disconnect() has set is there as long as it is needed, and
\* when it is due onclose is called.
LEMMA TimerCloses ==
  ASSUME BaseInv, client.connected, client.disconnecting
  PROVE  client.timers # 0 /\ (OnIdleTimeout => client'.closed = 1)
<1>1. ClientInv(client) /\ client.closed = 0 /\ client.timers \in Nat /\ client.timers > 0
  BY ClientFields DEF BaseInv, ClientInv, Life, Queue, Good
<1>2. ASSUME OnIdleTimeout PROVE client'.closed = 1
  <2>1. PICK left \in 0..(client.timers - 1) :
          Handler(Idle([OnDisconnectTimeout(client) EXCEPT !.timers = left]))
    BY <1>2 DEF OnIdleTimeout
  <2> DEFINE c == Idle([OnDisconnectTimeout(client) EXCEPT !.timers = left])
  <2>2. left \in Nat
    BY <1>1
  <2>3. Finished(client, c)
    BY <1>1, <2>2, IdleTimeoutFacts
  <2>4. client' = c
    BY <2>1 DEF Handler
  <2> HIDE DEF c
  <2> QED
    BY <1>1, <2>3, <2>4 DEF Finished
<1> QED
  BY <1>1, <1>2

\* After the first answer a disconnect ends in onclose, although neither the
\* network nor the server helps: a timer of the browser that fires is enough,
\* whatever else happens to the requests meanwhile.
THEOREM DisconnectCloses ==
  FairSpec => DisconnectEnds
<1> DEFINE P == client.connected /\ client.disconnecting
           Q == client.closed = 1
<1>1. BaseInv /\ P /\ [Next]_vars => (P \/ Q)'
  BY DisconnectingStays
<1>2. BaseInv /\ P /\ <<OnIdleTimeout>>_vars => Q'
  BY TimerCloses
<1>3. BaseInv /\ P => ~(client.timers = 0)
  BY TimerCloses
<1>4. FairSpec => Spec /\ ([]<>(client.timers = 0) \/ []<><<OnIdleTimeout>>_vars)
  BY PTL DEF FairSpec, Fairness
<1> HIDE DEF P, Q
<1>5. FairSpec => (P ~> Q)
  BY <1>1, <1>2, <1>3, <1>4, Base, PTL DEF Spec
<1> QED
  BY <1>5 DEF DisconnectEnds, P, Q

=============================================================================
