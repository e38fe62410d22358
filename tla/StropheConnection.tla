--------------------------- MODULE StropheConnection ---------------------------
(***************************************************************************)
(* The Channel API client that ServeScriptServlet serves to browsers:      *)
(* goog.appengine.ASSocket over a Strophe.Connection, which carries an     *)
(* XMPP stream in HTTP requests (BOSH).                                    *)
(*                                                                         *)
(* A browser runs one event handler at a time, to its end, together with   *)
(* all callbacks it makes.  An action is therefore one event handler: an   *)
(* answer to an XMLHttpRequest, the idle timer, a delayed posting, the     *)
(* page's unload.  The functions the handlers are built from are operators *)
(* from the client's state to its next state, with the names they have in  *)
(* the script.                                                             *)
(*                                                                         *)
(* A request keeps its rid through all its postings.  The server answers a *)
(* rid once, and repeats that answer when the rid is posted again.         *)
(***************************************************************************)
EXTENDS Integers, FiniteSets, Functions

CONSTANTS
  SendLimit,    \* a request posted more often than this ends the connection (5)
  ErrorLimit,   \* more failures in a row than this end the connection (4)
  Window,       \* requests whose rids are this far apart are not processed together
  Rounds,       \* stanzas of the authentication, from the mechanisms to the session
  MaxMessages,  \* messages the server has for the page (a bound of the model)
  MaxRid,       \* blank requests, and requests for mechanisms, stop at this rid
                \* (a bound of the model)
  MaxGarbled,   \* answers that are no XML document (a bound of the model)
  MaxUnloads    \* times the page is about to be left, and stays (a bound of the model)

ASSUME LimitAssumption ==
  /\ SendLimit \in Nat /\ SendLimit >= 3
  /\ ErrorLimit \in Nat
  /\ Window \in Nat \ {0}
  /\ Rounds \in Nat \ {0}
  /\ MaxMessages \in Nat /\ MaxRid \in Nat /\ MaxGarbled \in Nat /\ MaxUnloads \in Nat

VARIABLES
  client,   \* the ASSocket and its connection_, one record
  server,   \* the other end of the session, see below
  unloads   \* beforeunload events so far

vars == <<client, server, unloads>>

Messages == 1..MaxMessages

\* A request of _requests.  xhr: not opened, opened with the posting put off,
\* posted, answered with 4xx, or answered with 5xx or not at all.  old: no
\* answer for TIMEOUT * wait, or for SECONDARY_TIMEOUT * wait after a later one.
Requests ==
  [kind : {"connect", "data", "terminate"}, sid : BOOLEAN, sends : Nat,
   xhr : {"unsent", "delayed", "posted", "refused", "failed"}, old : BOOLEAN]

Replies ==
  [type : {"mechanisms", "bare", "stanzas", "terminate", "blank", "garbled"},
   auth : {"none", "next", "failure"}, messages : SUBSET Messages]

Init ==
  /\ client =
       [rid |-> 2, sid |-> FALSE, data |-> FALSE,
        requests |-> [r \in {1} |-> [kind |-> "connect", sid |-> FALSE, sends |-> 1,
                                     xhr |-> "posted", old |-> FALSE]],
        errors |-> 0, connected |-> FALSE, authenticated |-> FALSE,
        disconnecting |-> FALSE, timers |-> 0, stage |-> 0,
        handlers |-> {}, addHandlers |-> {"message"}, readyState |-> "CONNECTING",
        opened |-> 0, closed |-> 0, delivered |-> [m \in Messages |-> 0],
        abandoned |-> FALSE, threw |-> FALSE]
  /\ server = [next |-> 1, auth |-> 0, messages |-> {}, garbled |-> 0,
                denied |-> FALSE, answers |-> <<>>]
  /\ unloads = 0

-----------------------------------------------------------------------------
(* _requests, in the order of their rids.                                  *)

First(c) == CHOOSE r \in DOMAIN c.requests : \A s \in DOMAIN c.requests : r <= s

Second(c) ==
  CHOOSE r \in DOMAIN c.requests \ {First(c)} :
    \A s \in DOMAIN c.requests \ {First(c)} : r <= s

Pending(c) == Cardinality(DOMAIN c.requests)

\* Defect: _buildBody does not count the rid on.
PushSameRid(c, kind) ==
  LET request == [kind |-> kind, sid |-> c.sid, sends |-> 0, xhr |-> "unsent", old |-> FALSE]
  IN  [c EXCEPT !.requests = [r \in DOMAIN c.requests \cup {c.rid} |->
                                IF r = c.rid THEN request ELSE c.requests[r]]]

\* new Strophe.Request on _buildBody(), pushed to _requests.
Push(c, kind) ==
  LET request == [kind |-> kind, sid |-> c.sid, sends |-> 0, xhr |-> "unsent", old |-> FALSE]
  IN  [c EXCEPT !.requests = [r \in DOMAIN c.requests \cup {c.rid} |->
                                IF r = c.rid THEN request ELSE c.requests[r]],
                !.rid = @ + 1]

Without(c, r) == [c EXCEPT !.requests = Restrict(@, DOMAIN @ \ {r})]

\* A request that is posted: at once, or from the second repetition on after a
\* delay.
Posted(request) ==
  [kind |-> request.kind, sid |-> request.sid, sends |-> request.sends + 1,
   xhr |-> IF request.sends > 1 THEN "delayed" ELSE "posted", old |-> FALSE]

\* Defect: postings are not counted.
PostUncounted(c, r) ==
  [c EXCEPT !.requests[r] = [@ EXCEPT !.xhr = "posted", !.old = FALSE]]

\* The posting of _processRequest.  Every repetition is a new XMLHttpRequest;
\* the one it replaces is aborted and its handler taken off.
Post(c, r) == [c EXCEPT !.requests[r] = Posted(@)]

NeedsPosting(c, r) ==
  c.requests[r].xhr \in {"unsent", "failed"} \/ c.requests[r].old

-----------------------------------------------------------------------------
(* The end of a connection.                                                *)

\* The callback connect_ with CONNFAIL and with DISCONNECTING.
Closing(c) == [c EXCEPT !.readyState = "CLOSING"]

OnClose(c) == [c EXCEPT !.closed = @ + 1]

\* _doDisconnect before and after the callback.  The next rid is a random
\* number: any that no request in the queue is near.
Ending(c) ==
  [c EXCEPT !.authenticated = FALSE, !.disconnecting = FALSE, !.sid = FALSE,
            !.rid = @ + Window]

\* Defect: connected stays set.
EndedStillConnected(c) ==
  [c EXCEPT !.handlers = {}, !.addHandlers = {}, !.timers = 0]

Ended(c) ==
  [c EXCEPT !.connected = FALSE, !.handlers = {}, !.addHandlers = {}, !.timers = 0]

SendTerminate(c) == Push([c EXCEPT !.disconnecting = TRUE], "terminate")

\* Defect: connect_ only calls onclose on DISCONNECTED.
OnDisconnectTimeoutQuiet(c) ==
  LET e == Ending([c EXCEPT !.requests = <<>>])
  IN  Ended(IF c.connected THEN OnClose(e) ELSE e)

\* _onDisconnectTimeout: every request is aborted and dropped.  The callback
\* connect_ disconnects once more, and as connected is still set a second
\* terminate goes out, alone in the queue.
OnDisconnectTimeout(c) ==
  LET e == Ending([c EXCEPT !.requests = <<>>])
  IN  Ended(IF c.connected THEN OnClose(Post(SendTerminate(Closing(e)), e.rid)) ELSE e)

\* _processRequest.  Its catch block is never entered: opening a request to a
\* path of the page's own host does not throw.
ProcessRequest(c, r) ==
  IF c.requests[r].sends > SendLimit THEN OnDisconnectTimeout(c)
  ELSE IF NeedsPosting(c, r) THEN Post(c, r)
  ELSE c

\* _throttledRequestHandler: the first two requests, the second one inside the window.
ProcessFirst(c) == IF Pending(c) > 0 THEN ProcessRequest(c, First(c)) ELSE c

ProcessSecond(c) ==
  IF Pending(c) > 1 /\ Second(c) - First(c) < Window
  THEN ProcessRequest(c, Second(c)) ELSE c

ThrottledRequestHandler(c) == ProcessSecond(ProcessFirst(c))

\* Defect: disconnect relies on the server's answer, without a timer.
DisconnectUntimed(c) ==
  IF c.connected THEN ThrottledRequestHandler(SendTerminate(Closing(c))) ELSE Closing(c)

\* disconnect: nothing but the callback before the first answer has arrived.
Disconnect(c) ==
  IF c.connected
  THEN ThrottledRequestHandler(SendTerminate([Closing(c) EXCEPT !.timers = @ + 1]))
  ELSE Closing(c)

DoDisconnect(c) ==
  LET e == Ending(c)
  IN  Ended(IF c.connected THEN OnClose(Disconnect(e)) ELSE e)

HitError(c) ==
  IF c.errors + 1 > ErrorLimit
  THEN OnDisconnectTimeout([c EXCEPT !.errors = ErrorLimit + 1])
  ELSE [c EXCEPT !.errors = @ + 1]

RemoveRequest(c, r) == ThrottledRequestHandler(Without(c, r))

\* send and _sendRestart.
Send(c) == ThrottledRequestHandler([c EXCEPT !.data = TRUE])

-----------------------------------------------------------------------------
(* Stanzas.                                                                *)

\* The callback connect_ with CONNECTED.
OnConnected(c) ==
  [Send(c) EXCEPT !.readyState = "OPEN", !.opened = @ + 1]

\* Defect: a callback registers no handler for the stanza it asks for.
AuthenticateDeaf(c) ==
  IF c.stage + 1 < Rounds
  THEN Send([c EXCEPT !.stage = @ + 1])
  ELSE OnConnected([c EXCEPT !.stage = @ + 1, !.authenticated = TRUE])

\* The callbacks of the authentication (_sasl_challenge1_cb to
\* _sasl_session_cb, _auth1_cb, _auth2_cb): each takes its handler off,
\* registers one for the next stanza and sends; the last one reports CONNECTED.
Authenticate(c) ==
  IF c.stage + 1 < Rounds
  THEN Send([c EXCEPT !.stage = @ + 1, !.addHandlers = @ \cup {"auth"}])
  ELSE OnConnected([c EXCEPT !.stage = @ + 1, !.authenticated = TRUE])

\* A failure is reported as AUTHFAIL, which connect_ ignores; the one of
\* _auth2_cb (legacy) disconnects besides.
AuthFails(c, legacy) == IF legacy THEN Disconnect(c) ELSE c

\* The message handler is put back after the stanza, whatever the callback
\* of the authentication did to the handlers.
AuthStanza(c, auth, legacy) ==
  IF auth = "none" \/ "auth" \notin c.handlers THEN c
  ELSE LET after == IF auth = "next" THEN Authenticate(c) ELSE AuthFails(c, legacy)
       IN  [after EXCEPT !.handlers = c.handlers \ {"auth"}]

\* forwardmessage_ for the messages of one answer, in their order.  An
\* exception in onmessage leaves the loop: the message that threw is the last,
\* and the handlers, which the loop has taken out of the list, stay out of it.
ForwardMessages(c, messages, thrown) ==
  IF ~c.authenticated \/ "message" \notin c.handlers THEN c
  ELSE LET last == IF thrown \in messages THEN thrown ELSE MaxMessages
       IN  [c EXCEPT !.delivered = [m \in Messages |->
                        IF m \in messages /\ m <= last THEN @[m] + 1 ELSE @[m]],
                     !.handlers = IF thrown \in messages THEN {} ELSE @,
                     !.threw = @ \/ thrown \in messages]

\* Defect: the new handlers replace the list.
MergeHandlersReplacing(c) ==
  [c EXCEPT !.handlers = c.addHandlers, !.addHandlers = {}]

MergeHandlers(c) ==
  [c EXCEPT !.handlers = @ \cup c.addHandlers, !.addHandlers = {}]

\* _dataRecv.
DataRecv(c, reply, legacy, thrown) ==
  LET m == MergeHandlers(c)
  IN  IF reply.type = "blank" THEN c
      ELSE IF reply.type = "garbled" THEN Disconnect(c)
      ELSE IF m.disconnecting /\ Pending(m) = 0 THEN DoDisconnect(m)
      ELSE IF reply.type = "terminate"
           THEN IF m.disconnecting THEN m ELSE Disconnect(Closing(m))
      ELSE ForwardMessages(AuthStanza(m, reply.auth, legacy), reply.messages, thrown)

\* Defect: the stanza that starts the authentication is kept for the next send().
ConnectCbUnsent(c, reply) ==
  LET d == [c EXCEPT !.connected = TRUE, !.sid = TRUE]
  IN  CASE reply.type = "bare" -> ThrottledRequestHandler(Push(d, "connect"))
        [] OTHER -> [d EXCEPT !.addHandlers = @ \cup {"auth"}]

\* _connect_cb: the answer to connect() offers the mechanisms, or a request
\* more is made for them.  A terminate, or an answer without a
\* document that can be read, ends nothing.  A channel id has an "@" (ASSocket's
\* password is what stands before it), so the branch for a jid without a node,
\* with a server that has no ANONYMOUS, is not taken.
ConnectCb(c, reply) ==
  LET d == [c EXCEPT !.connected = TRUE]
      e == [d EXCEPT !.sid = TRUE]
  IN  CASE reply.type \in {"blank", "garbled"} -> d
        [] reply.type = "terminate" -> Closing(d)
        [] reply.type = "bare" -> ThrottledRequestHandler(Push(e, "connect"))
        [] OTHER -> Send([e EXCEPT !.addHandlers = @ \cup {"auth"}])

-----------------------------------------------------------------------------
(* The event handlers.                                                     *)

\* A request whose rid belongs to the session.
InSession(c, r) == c.requests[r].sid \/ c.requests[r].kind = "connect"

\* The server of the session: the rid it answers next, the stanzas of the
\* authentication and the messages it has put into answers, whether one of
\* them denied the authentication its next stanza, and the answers
\* it keeps for as long as the client may ask for them again.  An answer
\* continues with the messages that are next in order, none before the
\* authentication is complete.
NextMessages ==
  {fresh \in SUBSET (Messages \ server.messages) :
     \A m \in fresh : \A k \in 1..m : k \in fresh \cup server.messages}

Answers(kind) ==
  {reply \in Replies :
     /\ reply.type \in {"mechanisms", "bare"} => kind = "connect"
     /\ reply.type = "stanzas" => kind # "connect"
     /\ reply.type = "bare" => server.next < MaxRid
     /\ reply.type = "garbled" => server.garbled < MaxGarbled
     /\ reply.type # "stanzas" \/ kind = "terminate" => reply.auth = "none" /\ reply.messages = {}
     /\ reply.auth # "none" => server.auth < Rounds
     /\ reply.messages # {} =>
          server.auth + (IF reply.auth = "next" THEN 1 ELSE 0) = Rounds
     /\ reply.messages \in NextMessages}

\* An answer that keeps the authentication from going on.
Denies(reply) ==
  /\ reply.type \notin {"mechanisms", "bare"} /\ reply.auth # "next"
  /\ server.auth < Rounds

\* The server answers the next rid, once it has been posted.
ServerAnswers ==
  LET r == server.next
  IN  /\ r \in DOMAIN client.requests
      /\ InSession(client, r) /\ client.requests[r].sends > 0
      /\ \E reply \in Answers(client.requests[r].kind) :
           server' = [next |-> r + 1,
                      auth |-> server.auth + (IF reply.auth = "next" THEN 1 ELSE 0),
                      messages |-> server.messages \cup reply.messages,
                      garbled |-> server.garbled + (IF reply.type = "garbled" THEN 1 ELSE 0),
                      denied |-> server.denied \/ Denies(reply),
                      answers |-> [n \in DOMAIN server.answers \cup {r} |->
                                     IF n = r THEN reply ELSE server.answers[n]]]
      /\ UNCHANGED <<client, unloads>>

\* An event handler takes the client to the state c.
Handler(c) ==
  /\ client' = c
  /\ server' = [server EXCEPT !.answers = Restrict(@, DOMAIN @ \cap DOMAIN c.requests)]

\* What a request without a session is answered.
NoSession ==
  {reply \in Replies :
     reply.type \in {"stanzas", "terminate", "blank"} /\ reply.auth = "none" /\ reply.messages = {}}

\* The handler of the answer ends in an exception.
Throws(c, r, reply, after) ==
  \/ after.threw /\ ~c.threw
  \/ reply.type = "garbled" /\ c.requests[r].kind = "connect"

\* _onRequestStateChange with status 200.  When the answer came to the second
\* request the first is looked at once more (_restartRequest).
Succeed(c, r, reply, legacy, thrown) ==
  LET second == Pending(c) > 1 /\ r = Second(c)
      removed == RemoveRequest(c, r)
      restarted == IF second THEN ProcessFirst(removed) ELSE removed
      received == IF c.requests[r].kind = "connect" THEN ConnectCb(restarted, reply)
                  ELSE DataRecv(restarted, reply, legacy, thrown)
  IN  IF second /\ Pending(removed) = 0 THEN removed
      ELSE IF Throws(c, r, reply, received) THEN received
      ELSE [received EXCEPT !.errors = 0]

Answered(r) ==
  /\ r \in DOMAIN client.requests /\ client.requests[r].xhr = "posted"
  /\ \E legacy \in BOOLEAN, thrown \in Messages \cup {0} :
       IF InSession(client, r)
       THEN /\ r \in DOMAIN server.answers
            /\ Handler(Succeed(client, r, server.answers[r], legacy, thrown))
       ELSE \E reply \in NoSession : Handler(Succeed(client, r, reply, legacy, thrown))
  /\ UNCHANGED unloads

\* _onRequestStateChange with status 4xx: while disconnecting the request
\* stays, and only the error counts; otherwise the connection ends.
Refuse(c, r) ==
  IF c.disconnecting
  THEN HitError([c EXCEPT !.requests[r].xhr = "refused"])
  ELSE DoDisconnect(Closing(HitError(RemoveRequest(c, r))))

\* Defect: a request that failed is dropped.
FailDropping(c, r, fault) == HitError(RemoveRequest(c, r))

\* _onRequestStateChange with status 0 or 5xx.  A request posted more often
\* than SendLimit is dropped without an answer.
Fail(c, r, fault) ==
  LET failed == [c EXCEPT !.requests[r].xhr = "failed"]
  IN  IF c.disconnecting /\ fault THEN HitError(failed)
      ELSE IF c.requests[r].sends > SendLimit
      THEN HitError([RemoveRequest(failed, r) EXCEPT !.abandoned = TRUE])
      ELSE ThrottledRequestHandler(HitError(failed))

Refused(r) ==
  /\ r \in DOMAIN client.requests /\ client.requests[r].xhr = "posted"
  /\ Handler(Refuse(client, r))
  /\ UNCHANGED unloads

Failed(r, fault) ==
  /\ r \in DOMAIN client.requests /\ client.requests[r].xhr = "posted"
  /\ Handler(Fail(client, r, fault))
  /\ UNCHANGED unloads

\* A terminate in the three seconds of the disconnect timer: too short for
\* the eight seconds before a third posting and for TIMEOUT * wait.
TimerFirst(c, r) == c.timers > 0 /\ c.requests[r].kind = "terminate"

\* The put off posting of _processRequest.
DelayedPost(r) ==
  /\ r \in DOMAIN client.requests /\ client.requests[r].xhr = "delayed"
  /\ ~TimerFirst(client, r)
  /\ Handler([client EXCEPT !.requests[r].xhr = "posted"])
  /\ UNCHANGED unloads

\* Time passes without an answer.
Ages(r) ==
  /\ r \in DOMAIN client.requests /\ client.requests[r].xhr # "unsent"
  /\ ~client.requests[r].old /\ ~TimerFirst(client, r)
  /\ Handler([client EXCEPT !.requests[r].old = TRUE])
  /\ UNCHANGED unloads

\* _onIdle, after its timed handlers.
Poll(c) ==
  IF c.authenticated /\ Pending(c) = 0 /\ ~c.disconnecting /\ c.rid <= MaxRid
  THEN [c EXCEPT !.data = TRUE] ELSE c

SendData(c) ==
  IF c.data /\ Pending(c) < 2
  THEN ProcessRequest(Push([c EXCEPT !.data = FALSE], "data"), c.rid) ELSE c

RestartOld(c) ==
  IF Pending(c) > 0 /\ c.requests[First(c)].old THEN ThrottledRequestHandler(c) ELSE c

\* Defect: a connection that has ended is not looked after any more.
IdleUnlessClosed(c) == IF c.closed > 0 THEN c ELSE RestartOld(SendData(Poll(c)))

Idle(c) == RestartOld(SendData(Poll(c)))

OnIdle ==
  /\ Handler(Idle(client))
  /\ UNCHANGED unloads

\* _onIdle when a timer of disconnect() is due; a second one may go on.
OnIdleTimeout ==
  /\ client.timers > 0
  /\ \E left \in 0..(client.timers - 1) :
       Handler(Idle([OnDisconnectTimeout(client) EXCEPT !.timers = left]))
  /\ UNCHANGED unloads

\* beforeunload_.  The page may stay.
BeforeUnload ==
  /\ unloads < MaxUnloads
  /\ unloads' = unloads + 1
  /\ Handler(Disconnect(client))

Next ==
  \/ ServerAnswers \/ OnIdle \/ OnIdleTimeout \/ BeforeUnload
  \/ \E r \in DOMAIN client.requests :
       Answered(r) \/ Refused(r) \/ Failed(r, TRUE) \/ Failed(r, FALSE) \/ DelayedPost(r) \/ Ages(r)

Spec == Init /\ [][Next]_vars

-----------------------------------------------------------------------------
TypeOK ==
  /\ client.rid \in Nat /\ client.errors \in 0..(ErrorLimit + 1) /\ client.timers \in Nat
  /\ client.stage \in 0..Rounds
  /\ DOMAIN client.requests \subseteq 1..(client.rid - 1)
  /\ \A r \in DOMAIN client.requests : client.requests[r] \in Requests
  /\ client.handlers \subseteq {"auth", "message"}
  /\ client.addHandlers \subseteq {"auth", "message"}
  /\ client.readyState \in {"CONNECTING", "OPEN", "CLOSING"}
  /\ client.delivered \in [Messages -> Nat]
  /\ server.next \in Nat /\ server.auth \in 0..Rounds /\ server.garbled \in 0..MaxGarbled
  /\ server.denied \in BOOLEAN
  /\ server.messages \subseteq Messages
  /\ DOMAIN server.answers \subseteq DOMAIN client.requests
  /\ \A r \in DOMAIN server.answers : server.answers[r] \in Replies
  /\ unloads \in 0..MaxUnloads

\* A message that is out is with the page, or in the answer to a request that
\* the client still has and will post again: failures, time-outs, repeated
\* postings and answers out of order lose none.  Exempt are a session that has
\* ended, a request given up after SendLimit postings, and a page whose
\* onmessage threw (_removeRequest, _processRequest, _dataRecv).
NothingLost ==
  client.sid /\ ~client.abandoned /\ ~client.threw =>
    \A m \in server.messages :
      \/ client.delivered[m] > 0
      \/ \E r \in DOMAIN server.answers : m \in server.answers[r].messages

\* The rid the server waits for is one the client has in its queue, or the one
\* it will use next: neither waits for the other across a missing rid.
InStep ==
  client.sid /\ ~client.abandoned =>
    server.next \in DOMAIN client.requests \cup {client.rid}

\* The page sees OPEN only on a socket that has been opened, has an
\* authenticated connection, and has not been closed (connect_).
OpenMeansUsable ==
  client.readyState = "OPEN" =>
    /\ client.opened = 1 /\ client.closed = 0
    /\ client.connected /\ client.authenticated

\* The authentication falls silent, with nothing under way and nothing to
\* send, only after an answer without the stanza it waits for, or a request
\* given up after SendLimit postings.  The client
\* does not poll before it is authenticated (_onIdle), so that it would wait
\* for ever, and the page would not be told.
SilentOnlyIfDenied ==
  client.connected /\ ~client.authenticated /\ ~server.denied /\ ~client.abandoned =>
    client.data \/ DOMAIN client.requests # {}

\* The callbacks keep the contract.
Contract ==
  INSTANCE ChannelContract
    WITH opened <- client.opened, closed <- client.closed, delivered <- client.delivered

KeepsContract == Contract!Spec

-----------------------------------------------------------------------------
(* Timers of the browser fire, and time passes.  Nothing is assumed of the *)
(* network or of the server.  The first two conjuncts are weak fairness of *)
(* OnIdle and OnIdleTimeout, with what it is for them to be enabled and to *)
(* change something written out: TLC would evaluate each of the steps for  *)
(* it.                                                                     *)

Fairness ==
  /\ []<>(Idle(client) = client) \/ []<><<OnIdle>>_vars
  /\ []<>(client.timers = 0) \/ []<><<OnIdleTimeout>>_vars
  /\ WF_vars(\E r \in DOMAIN client.requests : DelayedPost(r))
  /\ WF_vars(\E r \in DOMAIN client.requests : Ages(r))

FairSpec == Spec /\ Fairness

\* A disconnect after the first answer ends in onclose, although the server
\* does not answer (disconnect, _onIdle, _onDisconnectTimeout).
DisconnectEnds == client.connected /\ client.disconnecting ~> client.closed = 1

\* A page that stays, with a server that does not deny it, gets its socket
\* open or closed, or the connection could not be made (_connect_cb to
\* _sasl_session_cb, _onIdle).
HandshakeEnds ==
  [](~server.denied /\ unloads = 0) =>
    <>(\/ client.opened = 1 \/ client.closed = 1 \/ client.abandoned
       \/ ~client.connected /\ DOMAIN client.requests = {})

\* The oldest request leaves the queue.
FirstLeaves ==
  DOMAIN client.requests # {} /\ First(client) \notin DOMAIN client'.requests

\* Every request leaves the queue: it is answered, given up or aborted.  So does
\* the terminate of a connection that has ended, for which no timer runs: _onIdle
\* goes on, and posts it until it is given up (_doDisconnect, _onIdle,
\* _processRequest).  It is said of the oldest request: rids only grow, so that
\* each request is the oldest one unless it leaves before.
RequestsSettle == []<>(DOMAIN client.requests = {}) \/ []<><<FirstLeaves>>_client

=============================================================================
