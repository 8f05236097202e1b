---------------------------- MODULE MCDispatcher ----------------------------
(* Small instances of the Dispatcher for TLC. *)
EXTENDS Dispatcher

=============================================================================
