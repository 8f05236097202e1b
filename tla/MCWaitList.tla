----------------------------- MODULE MCWaitList -----------------------------
(* Small instances of WaitList for TLC. *)
EXTENDS WaitList
=============================================================================
