---------------------------- MODULE ChannelContract ----------------------------
(***************************************************************************)
(* What a page may expect of the callbacks of a channel's socket: onopen   *)
(* first and once, then each message once and in the order the server sent *)
(* them, onclose once, and nothing afterwards.                             *)
(***************************************************************************)
EXTENDS Integers

CONSTANT Messages    \* the messages of the server, numbered in their order

VARIABLES
  opened,     \* calls of onopen
  closed,     \* calls of onclose
  delivered   \* calls of onmessage, per message

vars == <<opened, closed, delivered>>

Init ==
  /\ opened = 0 /\ closed = 0
  /\ delivered = [m \in Messages |-> 0]

\* All in one event: a batch of messages, each later than all before it.
Receive(batch) ==
  /\ \A m \in batch, k \in Messages : delivered[k] > 0 => k < m
  /\ delivered' = [m \in Messages |-> IF m \in batch THEN 1 ELSE delivered[m]]

\* The event that opens the socket may bring the first messages.
Open ==
  /\ opened = 0 /\ closed = 0
  /\ opened' = 1 /\ closed' = 0
  /\ \E batch \in SUBSET Messages : Receive(batch)

Message ==
  /\ opened = 1 /\ closed = 0
  /\ \E batch \in SUBSET Messages : Receive(batch)
  /\ UNCHANGED <<opened, closed>>

Close ==
  /\ closed = 0
  /\ closed' = 1
  /\ UNCHANGED <<opened, delivered>>

Next == Open \/ Message \/ Close

Spec == Init /\ [][Next]_vars

=============================================================================
