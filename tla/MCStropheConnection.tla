-------------------------- MODULE MCStropheConnection --------------------------
(* StropheConnection for TLC: bounds only, see the configurations.         *)
EXTENDS StropheConnection

=============================================================================
