----------------------------- MODULE MCScheduler -----------------------------
(* Small instances of the Scheduler for TLC. *)
EXTENDS Scheduler
=============================================================================
