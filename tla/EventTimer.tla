----------------------------- MODULE EventTimer -----------------------------
(***************************************************************************)
(* What the callers of the Scheduler rely on.  An event that was added is  *)
(* active until it fires or is cancelled, never both and never twice; a    *)
(* cancellation that was confirmed is final.  Events that are offered too  *)
(* late are lost, and so are, all together, the ones that are still active *)
(* when the service is shut down.                                          *)
(***************************************************************************)
CONSTANT Events

VARIABLE status

Statuses == {"new", "active", "fired", "cancelled", "lost"}

TypeOK == status \in [Events -> Statuses]

Init == status = [e \in Events |-> "new"]

Move(e, from, to) ==
  /\ status[e] = from
  /\ status' = [status EXCEPT ![e] = to]

Add(e)    == Move(e, "new", "active")
Refuse(e) == Move(e, "new", "lost")
Fire(e)   == Move(e, "active", "fired")
Cancel(e) == Move(e, "active", "cancelled")

Close ==
  status' = [e \in Events |-> IF status[e] = "active" THEN "lost" ELSE status[e]]

Next ==
  \/ \E e \in Events : Add(e) \/ Refuse(e) \/ Fire(e) \/ Cancel(e)
  \/ Close

Spec == Init /\ [][Next]_status
=============================================================================
