---------------------------- MODULE MCConnection ----------------------------
(* Small instances of the Connection for TLC. *)
EXTENDS Connection
=============================================================================
