----------------------------- MODULE MCAppServer -----------------------------
(* AppServer for TLC: values of the constants only, see the                *)
(* configurations.                                                         *)
EXTENDS AppServer

=============================================================================
