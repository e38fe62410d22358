---------------------------- MODULE MCServiceCalls ----------------------------
(* ServiceCalls for TLC: model values only, see the configuration.         *)
EXTENDS ServiceCalls

=============================================================================
