---------------------------- MODULE MCTaskEngine ----------------------------
(* Small instances of the TaskEngine for TLC. *)
EXTENDS TaskEngine
=============================================================================
