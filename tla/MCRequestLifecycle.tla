-------------------------- MODULE MCRequestLifecycle --------------------------
(* RequestLifecycle for TLC: the calls are interchangeable, and so are the *)
(* request threads.                                                        *)
EXTENDS RequestLifecycle, TLC

Symmetry == Permutations(Calls) \cup Permutations(RequestThreads)

=============================================================================
