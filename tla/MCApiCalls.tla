----------------------------- MODULE MCApiCalls -----------------------------
(* ApiCalls for TLC: the calls and the request threads are interchangeable. *)
EXTENDS ApiCalls, TLC

Symmetry == Permutations(Calls) \cup Permutations(RequestThreads)

=============================================================================
