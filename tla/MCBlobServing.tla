---------------------------- MODULE MCBlobServing ----------------------------
(* BlobServing for TLC: bounds only, see the configuration.                *)
EXTENDS BlobServing

=============================================================================
