---------------------------- MODULE MCConnection ----------------------------
(* The instance of Connection for TLC is all in the configuration. *)
EXTENDS Connection
=============================================================================
