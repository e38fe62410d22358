----------------------------- MODULE ApiBarrier -----------------------------
(***************************************************************************)
(* What the per-request semaphore promises, without semaphores, futures    *)
(* or threads: a gate that API calls pass while it is open, at most        *)
(* Capacity of them inside at once.  The request closes the gate only when *)
(* nobody is inside, and then nobody enters again; or, when it cannot      *)
(* wait, it walks away and leaves the gate as it is.                       *)
(***************************************************************************)
EXTENDS Integers, FiniteSets

CONSTANTS
  Calls,       \* the API calls that may be made
  Capacity     \* how many may be inside at once

VARIABLES
  inside,      \* the calls that have entered and not left
  gate         \* "open", "closed" or "abandoned"

vars == <<inside, gate>>

TypeOK ==
  /\ inside \in SUBSET Calls
  /\ gate \in {"open", "closed", "abandoned"}

Init == inside = {} /\ gate = "open"

\* A closed gate lets nobody in; an abandoned one still does.
Enter(c) ==
  /\ gate # "closed"
  /\ c \notin inside
  /\ Cardinality(inside) < Capacity
  /\ inside' = inside \cup {c}
  /\ UNCHANGED gate

Leave(c) ==
  /\ c \in inside
  /\ inside' = inside \ {c}
  /\ UNCHANGED gate

Close ==
  /\ gate = "open" /\ inside = {}
  /\ gate' = "closed"
  /\ UNCHANGED inside

Abandon ==
  /\ gate = "open"
  /\ gate' = "abandoned"
  /\ UNCHANGED inside

Next ==
  \/ \E c \in Calls : Enter(c) \/ Leave(c)
  \/ Close
  \/ Abandon

Spec == Init /\ [][Next]_vars

\* Nobody stays inside for ever.
FairSpec == Spec /\ \A c \in Calls : []<>(c \notin inside)

=============================================================================
