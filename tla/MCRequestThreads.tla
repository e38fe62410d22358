--------------------------- MODULE MCRequestThreads ---------------------------
(* RequestThreads for TLC: values of the constants only, see the           *)
(* configurations.                                                         *)
EXTENDS RequestThreads

=============================================================================
