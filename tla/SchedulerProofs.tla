-------------------------- MODULE SchedulerProofs --------------------------
(***************************************************************************)
(* Proofs about the Scheduler and about a Connection, whose threads, the   *)
(* scheduler's and the network's, hand their tasks to the dispatcher;      *)
(* neither touches the other's state.                                      *)
(*                                                                         *)
(* The scheduler, for any number of events, threads, delays and any        *)
(* horizon: the types, that a cancellation is final, that no wake-up is    *)
(* lost, and that it implements EventTimer.                                *)
(*                                                                         *)
(* A connection, for any number of messages: its types, that there is one  *)
(* write at a time, that its protocol is released once, and that one that  *)
(* nobody closed by force writes what it has accepted.  A method is an     *)
(* operator from a connection to its possible results, and so there is a   *)
(* lemma for each method: what it makes of a connection x that is sound.   *)
(* The invariant adds what the handlers rely on when they call a method.   *)
(***************************************************************************)
EXTENDS Scheduler, Connection, FiniteSetTheorems, TLAPS

----------------------------------------------------------------------------
(* Type correctness                                                        *)

\* The next id is one, also when the counter wraps.
LEMMA NextIdType ==
  ASSUME lastEvent \in 0..IdMax
  PROVE  NextId \in 1..IdMax
BY SchedulerAssumption DEF SchedulerAssumption, NextId

\* The types hold at the start.
LEMMA TypeInit == Init => TypeOK
<1> SUFFICES ASSUME Init PROVE TypeOK
  OBVIOUS
<1>1. action \in BOOLEAN
  BY DEF Init
<1>2. cycle \in [Events -> 0..Horizon] /\ deadline \in 0..Horizon /\ now \in 0..Horizon
  BY SchedulerAssumption DEF SchedulerAssumption, Init
<1>3. lastEvent \in 0..IdMax /\ eventId \in [Events -> 0..IdMax]
  BY SchedulerAssumption DEF SchedulerAssumption, Init
<1>4. fate \in [Events -> Fates] /\ pc \in Places /\ threadState \in States
  BY DEF Init, States, Places, Fates
<1>5. eventIds \in SUBSET (1..IdMax)
  BY DEF Init
<1> QED
  BY <1>1, <1>2, <1>3, <1>4, <1>5 DEF Init, TypeOK

\* Every step keeps the types.
LEMMA TypeStep == TypeOK /\ [Next]_vars => TypeOK'
<1> SUFFICES ASSUME TypeOK, [Next]_vars PROVE TypeOK'
  OBVIOUS
<1> USE SchedulerAssumption DEF SchedulerAssumption, TypeOK, States, Places, Fates
<1>1. ASSUME NEW t \in Threads, NEW e \in Events, NEW d \in Delays, AddEvent(t, e, d)
      PROVE  TypeOK'
  <2>1. NextId \in 1..IdMax
    BY NextIdType
  <2>2. now + d \in 0..Horizon
    BY <1>1 DEF AddEvent
  <2> QED
    BY <1>1, <2>1, <2>2 DEF AddEvent, locals
<1>2. ASSUME NEW t \in Threads, NEW e \in Events, RefuseEvent(t, e) PROVE TypeOK'
  BY <1>2 DEF RefuseEvent, fields, locals
<1>3. ASSUME NEW t \in Threads, Notify(t) PROVE TypeOK'
  BY <1>3 DEF Notify, fields, history
<1>4. ASSUME NEW e \in Events, StopEvent(e) PROVE TypeOK'
  BY <1>4 DEF StopEvent, Erased, locals
<1>5. CASE Stop
  BY <1>5 DEF Stop, locals, history
<1>6. CASE Shutdown
  BY <1>6 DEF Shutdown, locals
<1>7. CASE TestState
  BY <1>7 DEF TestState, fields, history
<1>8. CASE Wait
  BY <1>8 DEF Wait, fields, history
<1>9. CASE TimedWait
  BY <1>9 DEF TimedWait, Tops, fields, history
<1>10. CASE Timeout
  BY <1>10 DEF Timeout, fields, history
<1>11. CASE SpuriousWakeup
  BY <1>11 DEF SpuriousWakeup, fields, history
<1>12. CASE StartOver
  BY <1>12 DEF StartOver, fields, history
<1>13. ASSUME NEW e \in Events, PopActive(e) PROVE TypeOK'
  BY <1>13 DEF PopActive, Erased
<1>14. ASSUME NEW e \in Events, PopStopped(e) PROVE TypeOK'
  BY <1>14 DEF PopStopped
<1>15. CASE PopEmpty
  BY <1>15 DEF PopEmpty, fields, history
<1>16. CASE HandOver
  BY <1>16 DEF HandOver, fields
<1>17. CASE Tick
  BY <1>17 DEF Tick, fields, locals, history
<1>18. CASE UNCHANGED vars
  BY <1>18 DEF vars, fields, locals, history
<1> QED
  BY <1>1, <1>2, <1>3, <1>4, <1>5, <1>6, <1>7, <1>8, <1>9, <1>10, <1>11, <1>12,
     <1>13, <1>14, <1>15, <1>16, <1>17, <1>18
  DEF Next, Callers, SchedulerThread

\* Every field, local and history variable keeps its type; in particular an id
\* that addEvent gives out is never 0 nor beyond the width of the counter.
THEOREM TypeCorrect == Spec => []TypeOK
<1>1. Init => TypeOK
  BY TypeInit
<1>2. TypeOK /\ [Next]_vars => TypeOK'
  BY TypeStep
<1> QED
  BY <1>1, <1>2, PTL DEF Spec

----------------------------------------------------------------------------
(* The inductive invariant behind the safety properties                    *)

Added == {e \in Events : eventId[e] # 0}

\* Ids are given out in the order of addEvent and, as there are enough of them,
\* each to one event.
IdInv ==
  /\ lastEvent = Cardinality(Added)
  /\ \A e \in Events : eventId[e] =< lastEvent
  /\ \A e \in Added, f \in Events : eventId[e] = eventId[f] => e = f
  /\ \A e \in Events : (e \in Added) <=> (fate[e] \notin {"new", "refused"})

\* The queue holds the events that were neither popped nor dropped; among
\* them, those whose id is gone are the cancelled ones.
QueueInv ==
  /\ \A e \in Events : (e \in eventList) <=> (fate[e] = "queued")
  /\ IdsAreQueued
  /\ \A e \in eventList : IsActive(e) <=> e \notin cancelled
  /\ pc = "hand_over" => task \in Events /\ fate[task] = "popped"

IInv == TypeOK /\ IdInv /\ QueueInv /\ CancelledNeverRuns /\ DiscardedWasStopped
             /\ cancelled \subseteq Added

USE SchedulerAssumption DEF SchedulerAssumption

\* While some event has no id yet, the counter has not reached its end.
LEMMA FreshId ==
  ASSUME IdsSuffice, TypeOK, IdInv, NEW e \in Events, fate[e] = "new"
  PROVE  /\ NextId = lastEvent + 1
         /\ NextId \in 1..IdMax
         /\ e \notin Added
         /\ Cardinality(Added \cup {e}) = NextId
<1>1. e \notin Added
  BY DEF IdInv
<1>2. IsFiniteSet(Added) /\ IsFiniteSet(Added \cup {e})
  <2>1. Added \subseteq Events /\ Added \cup {e} \subseteq Events
    BY DEF Added
  <2> QED
    BY <2>1, FS_Subset DEF IdsSuffice
<1>3. Cardinality(Added \cup {e}) = Cardinality(Added) + 1
  BY <1>1, <1>2, FS_AddElement
<1>4. Cardinality(Added \cup {e}) =< Cardinality(Events)
  BY FS_Subset DEF IdsSuffice, Added
<1>5. Cardinality(Events) \in Nat /\ Cardinality(Added) \in Nat
  BY <1>2, FS_CardinalityType DEF IdsSuffice
<1>6. lastEvent + 1 =< IdMax
  BY <1>3, <1>4, <1>5 DEF IdsSuffice, IdInv
<1> QED
  BY <1>1, <1>3, <1>6 DEF NextId, IdInv, TypeOK

\* At the start no id is given out.
LEMMA IInvInit == IdsSuffice /\ Init => IInv
<1> SUFFICES ASSUME Init PROVE IInv
  OBVIOUS
<1>1. TypeOK
  BY TypeInit
<1>2. Added = {}
  BY DEF Init, Added
<1>3. IdInv
  BY <1>2, FS_EmptySet DEF Init, IdInv
<1>4. QueueInv
  BY DEF Init, QueueInv, IdsAreQueued
<1> QED
  BY <1>1, <1>2, <1>3, <1>4 DEF IInv, Init, CancelledNeverRuns, DiscardedWasStopped

\* A new event takes the next id, which no other event has.
LEMMA IInvAdd ==
  ASSUME IdsSuffice, IInv, NEW t \in Threads, NEW e \in Events, NEW d \in Delays,
         AddEvent(t, e, d), TypeOK'
  PROVE  IInv'
<1> DEFINE n == NextId
<1>1. /\ n = lastEvent + 1
      /\ n \in 1..IdMax
      /\ e \notin Added
      /\ Cardinality(Added \cup {e}) = n
  BY FreshId DEF AddEvent, IInv
<1>2. /\ lastEvent' = n
      /\ eventId' = [eventId EXCEPT ![e] = n]
      /\ eventIds' = eventIds \cup {n}
      /\ eventList' = eventList \cup {e}
      /\ fate' = [fate EXCEPT ![e] = "queued"]
      /\ cancelled' = cancelled
      /\ pc' = pc /\ task' = task
      /\ fate[e] = "new"
  BY DEF AddEvent, locals
<1>3. Added' = Added \cup {e}
  BY <1>1, <1>2 DEF Added, IInv, TypeOK
<1>4. \A f \in Events : f # e => eventId'[f] = eventId[f] /\ fate'[f] = fate[f]
  BY <1>2 DEF IInv, TypeOK
<1>5. eventId'[e] = n /\ fate'[e] = "queued" /\ eventId[e] = 0
  BY <1>1, <1>2 DEF IInv, TypeOK, Added
<1>6. \A f \in Events : eventId[f] < n
  BY <1>1 DEF IInv, IdInv, TypeOK
<1>7. IdInv'
  <2>1. lastEvent' = Cardinality(Added')
    BY <1>1, <1>2, <1>3
  <2>2. \A f \in Events : eventId'[f] =< lastEvent'
    BY <1>1, <1>2, <1>4, <1>5, <1>6 DEF IInv, TypeOK
  <2>3. \A f \in Added', g \in Events : eventId'[f] = eventId'[g] => f = g
    BY <1>1, <1>3, <1>4, <1>5, <1>6 DEF IInv, IdInv, Added, TypeOK
  <2>4. \A f \in Events : (f \in Added') <=> (fate'[f] \notin {"new", "refused"})
    BY <1>3, <1>4, <1>5 DEF IInv, IdInv, Added
  <2> QED
    BY <2>1, <2>2, <2>3, <2>4 DEF IdInv
<1>8. n \notin eventIds /\ e \notin eventList /\ e \notin cancelled
  <2>1. n \notin eventIds
    <3> SUFFICES ASSUME n \in eventIds PROVE FALSE
      OBVIOUS
    <3>1. PICK f \in eventList : eventId[f] = n
      BY DEF IInv, QueueInv, IdsAreQueued
    <3>2. f \in Events /\ eventId[f] \in Nat
      BY DEF IInv, TypeOK
    <3> QED
      BY <3>1, <3>2, <1>6
  <2> QED
    BY <2>1, <1>1, <1>2 DEF IInv, QueueInv
<1>9. QueueInv'
  <2>1. \A f \in Events : (f \in eventList') <=> (fate'[f] = "queued")
    BY <1>2, <1>4, <1>5 DEF IInv, QueueInv
  <2>2. IdsAreQueued'
    BY <1>2, <1>4, <1>5, <1>8 DEF IInv, QueueInv, IdsAreQueued, TypeOK
  <2>3. \A f \in eventList' : (IsActive(f) <=> f \notin cancelled)'
    <3> TAKE f \in eventList'
    <3>1. CASE f = e
      BY <3>1, <1>2, <1>5, <1>8 DEF IsActive
    <3>2. CASE f # e
      BY <3>2, <1>2, <1>4, <1>6 DEF IsActive, IInv, QueueInv, TypeOK
    <3> QED
      BY <3>1, <3>2
  <2>4. (pc = "hand_over" => task \in Events /\ fate[task] = "popped")'
    BY <1>2, <1>4 DEF IInv, QueueInv
  <2> QED
    BY <2>1, <2>2, <2>3, <2>4 DEF QueueInv
<1> QED
  BY <1>2, <1>3, <1>4, <1>5, <1>7, <1>8, <1>9
  DEF IInv, CancelledNeverRuns, DiscardedWasStopped, TypeOK

\* stopEvent erases the id of one queued event, and of no other.
LEMMA IInvStop ==
  ASSUME IInv, NEW e \in Events, StopEvent(e), TypeOK'
  PROVE  IInv' /\ fate[e] = "queued" /\ e \notin cancelled
<1>1. /\ eventIds' = eventIds \ {eventId[e]}
      /\ cancelled' = cancelled \cup {e}
      /\ UNCHANGED <<eventList, lastEvent, eventId, pc, task, fate>>
      /\ eventId[e] \in eventIds
  BY DEF StopEvent, Erased, locals
<1>2. e \in Added
  BY <1>1 DEF Added, IInv, TypeOK
<1>3. e \in eventList
  BY <1>1, <1>2 DEF IInv, QueueInv, IdsAreQueued, IdInv, TypeOK
<1>4. fate[e] = "queued" /\ e \notin cancelled
  BY <1>1, <1>3 DEF IInv, QueueInv, IsActive
<1>5. Added' = Added
  BY <1>1 DEF Added
<1>6. IdInv'
  BY <1>1, <1>5 DEF IInv, IdInv
<1>7. \A f \in Events : f # e => eventId[f] # eventId[e]
  BY <1>2 DEF IInv, IdInv
<1>8. QueueInv'
  <2>1. IdsAreQueued'
    BY <1>1 DEF IInv, QueueInv, IdsAreQueued
  <2>2. \A f \in eventList' : (IsActive(f) <=> f \notin cancelled)'
    BY <1>1, <1>7 DEF IInv, QueueInv, IsActive, TypeOK
  <2> QED
    BY <1>1, <2>1, <2>2 DEF IInv, QueueInv
<1> QED
  BY <1>1, <1>2, <1>4, <1>5, <1>6, <1>8 DEF IInv, CancelledNeverRuns, DiscardedWasStopped

\* shutdown drops all events and their ids.
LEMMA IInvShutdown ==
  ASSUME IInv, Shutdown, TypeOK'
  PROVE  IInv'
<1>1. /\ eventList' = {}
      /\ eventIds' = {}
      /\ UNCHANGED <<lastEvent, eventId, pc, task, cancelled>>
      /\ \A f \in Events : fate'[f] = IF fate[f] = "queued" THEN "dropped" ELSE fate[f]
  BY DEF Shutdown, locals, IInv, QueueInv
<1>2. Added' = Added
  BY <1>1 DEF Added
<1>3. IdInv'
  BY <1>1, <1>2 DEF IInv, IdInv
<1>4. QueueInv'
  BY <1>1 DEF IInv, QueueInv, IdsAreQueued
<1> QED
  BY <1>1, <1>2, <1>3, <1>4 DEF IInv, CancelledNeverRuns, DiscardedWasStopped, TypeOK

\* Taking the top off the queue: its id goes with it, if it was still there.
LEMMA IInvPopActive ==
  ASSUME IInv, NEW e \in Events, PopActive(e), TypeOK'
  PROVE  IInv' /\ fate[e] = "queued" /\ e \notin cancelled
<1>1. /\ eventList' = eventList \ {e}
      /\ eventIds' = eventIds \ {eventId[e]}
      /\ task' = e
      /\ fate' = [fate EXCEPT ![e] = "popped"]
      /\ UNCHANGED <<lastEvent, eventId, cancelled>>
      /\ e \in eventList
      /\ eventId[e] \in eventIds
  BY DEF PopActive, Erased, IsActive, Tops
<1>2. fate[e] = "queued" /\ e \notin cancelled /\ e \in Added
  BY <1>1 DEF IInv, QueueInv, IsActive, IdInv
<1>3. Added' = Added
  BY <1>1 DEF Added
<1>4. IdInv'
  BY <1>1, <1>2, <1>3 DEF IInv, IdInv, TypeOK
<1>5. \A f \in Events : f # e => eventId[f] # eventId[e]
  BY <1>2 DEF IInv, IdInv
<1>6. QueueInv'
  BY <1>1, <1>5 DEF IInv, QueueInv, IdsAreQueued, IsActive, TypeOK
<1> QED
  BY <1>1, <1>2, <1>3, <1>4, <1>6 DEF IInv, CancelledNeverRuns, DiscardedWasStopped, TypeOK

\* The thread throws a stopped event away.
LEMMA IInvPopStopped ==
  ASSUME IInv, NEW e \in Events, PopStopped(e), TypeOK'
  PROVE  IInv' /\ e \in cancelled /\ fate[e] = "queued"
<1>1. /\ eventList' = eventList \ {e}
      /\ pc' = "test"
      /\ fate' = [fate EXCEPT ![e] = "discarded"]
      /\ UNCHANGED <<eventIds, lastEvent, eventId, cancelled>>
      /\ e \in eventList
      /\ eventId[e] \notin eventIds
  BY DEF PopStopped, IsActive, Tops
<1>2. fate[e] = "queued" /\ e \in cancelled /\ e \in Added
  BY <1>1 DEF IInv, QueueInv, IsActive, IdInv
<1>3. Added' = Added
  BY <1>1 DEF Added
<1>4. IdInv'
  BY <1>1, <1>2, <1>3 DEF IInv, IdInv, TypeOK
<1>5. QueueInv'
  BY <1>1 DEF IInv, QueueInv, IdsAreQueued, IsActive, TypeOK
<1> QED
  BY <1>1, <1>2, <1>3, <1>4, <1>5 DEF IInv, CancelledNeverRuns, DiscardedWasStopped, TypeOK

\* The thread hands over the event it popped.
LEMMA IInvHandOver ==
  ASSUME IInv, HandOver, TypeOK'
  PROVE  IInv' /\ task \in Events /\ fate[task] = "popped"
<1>1. /\ pc' = "test"
      /\ fate' = [fate EXCEPT ![task] = "handed"]
      /\ UNCHANGED <<eventList, eventIds, lastEvent, eventId, cancelled>>
  BY DEF HandOver, fields
<1>2. task \in Events /\ fate[task] = "popped"
  BY DEF HandOver, IInv, QueueInv
<1>3. Added' = Added
  BY <1>1 DEF Added
<1>4. IdInv'
  BY <1>1, <1>2, <1>3 DEF IInv, IdInv, TypeOK
<1>5. QueueInv'
  BY <1>1, <1>2 DEF IInv, QueueInv, IdsAreQueued, IsActive, TypeOK
<1> QED
  BY <1>1, <1>2, <1>3, <1>4, <1>5 DEF IInv, CancelledNeverRuns, DiscardedWasStopped, TypeOK

\* A refused event gets no id.
LEMMA IInvRefuse ==
  ASSUME IInv, NEW t \in Threads, NEW e \in Events, RefuseEvent(t, e), TypeOK'
  PROVE  IInv' /\ fate[e] = "new" /\ e \notin cancelled
<1>1. /\ fate[e] = "new"
      /\ fate' = [fate EXCEPT ![e] = "refused"]
      /\ UNCHANGED <<eventList, eventIds, lastEvent, eventId, cancelled, pc, task>>
  BY DEF RefuseEvent, fields, locals
<1>2. e \notin Added /\ e \notin cancelled
  BY <1>1 DEF IInv, IdInv
<1>3. Added' = Added
  BY <1>1 DEF Added
<1>4. IdInv'
  BY <1>1, <1>2, <1>3 DEF IInv, IdInv, TypeOK
<1>5. QueueInv'
  BY <1>1 DEF IInv, QueueInv, IdsAreQueued, IsActive, TypeOK
<1> QED
  BY <1>1, <1>2, <1>3, <1>4, <1>5 DEF IInv, CancelledNeverRuns, DiscardedWasStopped, TypeOK

\* The steps that move the thread, a notify or the time leave the queue alone.
LEMMA IInvFrame ==
  ASSUME IInv, TypeOK', UNCHANGED <<eventList, eventIds, lastEvent, eventId, history>>,
         pc' = "hand_over" => pc = "hand_over" /\ task' = task
  PROVE  IInv'
<1>1. Added' = Added
  BY DEF Added
<1>2. IdInv'
  BY <1>1 DEF IInv, IdInv, history
<1>3. QueueInv'
  BY DEF IInv, QueueInv, IdsAreQueued, IsActive, history
<1> QED
  BY <1>1, <1>2, <1>3 DEF IInv, CancelledNeverRuns, DiscardedWasStopped, history

\* Every step keeps the invariant.
LEMMA IInvStep == IdsSuffice /\ IInv /\ [Next]_vars => IInv'
<1> SUFFICES ASSUME IdsSuffice, IInv, [Next]_vars PROVE IInv'
  OBVIOUS
<1>0. TypeOK'
  BY TypeStep DEF IInv
<1>1. ASSUME NEW t \in Threads, NEW e \in Events, NEW d \in Delays, AddEvent(t, e, d)
      PROVE  IInv'
  BY <1>0, <1>1, IInvAdd
<1>2. ASSUME NEW t \in Threads, NEW e \in Events, RefuseEvent(t, e) PROVE IInv'
  BY <1>0, <1>2, IInvRefuse
<1>3. ASSUME NEW t \in Threads, Notify(t) PROVE IInv'
  BY <1>0, <1>3, IInvFrame DEF Notify, fields, history
<1>4. ASSUME NEW e \in Events, StopEvent(e) PROVE IInv'
  BY <1>0, <1>4, IInvStop
<1>5. CASE Stop
  BY <1>0, <1>5, IInvFrame DEF Stop, locals, history
<1>6. CASE Shutdown
  BY <1>0, <1>6, IInvShutdown
<1>7. CASE TestState \/ Wait \/ TimedWait \/ Timeout \/ SpuriousWakeup \/ StartOver \/ PopEmpty
  BY <1>0, <1>7, IInvFrame
  DEF TestState, Wait, TimedWait, Timeout, SpuriousWakeup, StartOver, PopEmpty, TakesTop, fields
<1>8. ASSUME NEW e \in Events, PopActive(e) PROVE IInv'
  BY <1>0, <1>8, IInvPopActive
<1>9. ASSUME NEW e \in Events, PopStopped(e) PROVE IInv'
  BY <1>0, <1>9, IInvPopStopped
<1>10. CASE HandOver
  BY <1>0, <1>10, IInvHandOver
<1>11. CASE Tick
  BY <1>0, <1>11, IInvFrame DEF Tick, fields, locals, history
<1>12. CASE UNCHANGED vars
  BY <1>0, <1>12, IInvFrame DEF vars, fields, locals
<1> QED
  BY <1>1, <1>2, <1>3, <1>4, <1>5, <1>6, <1>7, <1>8, <1>9, <1>10, <1>11, <1>12
  DEF Next, Callers, SchedulerThread

\* As long as the ids do not wrap: an event that stopEvent confirmed never
\* runs, an event is thrown away only if it was stopped, and every id that
\* stopEvent would accept belongs to an event that is still queued.
THEOREM SchedulerSafe ==
  ASSUME IdsSuffice
  PROVE  Spec => [](CancelledNeverRuns /\ DiscardedWasStopped /\ IdsAreQueued)
<1>1. Init => IInv
  BY IInvInit
<1>2. IInv /\ [Next]_vars => IInv'
  BY IInvStep
<1>3. IInv => CancelledNeverRuns /\ DiscardedWasStopped /\ IdsAreQueued
  BY DEF IInv, QueueInv
<1> QED
  BY <1>1, <1>2, <1>3, PTL DEF Spec

----------------------------------------------------------------------------
(* No wake-up is lost                                                      *)

\* A thread that has to notify is the reason why an event may be queued that
\* the scheduler thread does not yet wait for; every step keeps it so.
LEMMA WakeupStep == TypeOK /\ NoLostWakeup /\ [Next]_vars => NoLostWakeup'
<1> SUFFICES ASSUME TypeOK, NoLostWakeup, [Next]_vars PROVE NoLostWakeup'
  OBVIOUS
<1> USE DEF NoLostWakeup
<1>1. ASSUME NEW t \in Threads, NEW e \in Events, NEW d \in Delays, AddEvent(t, e, d)
      PROVE  NoLostWakeup'
  <2>1. CASE Signals(now + d)
    <3>1. t \in signalling'
      BY <1>1, <2>1 DEF AddEvent
    <3> QED
      BY <3>1
  <2>2. CASE ~Signals(now + d)
    <3>1. PICK f \in eventList : ~(now + d < cycle[f])
      BY <2>2 DEF Signals
    <3>2. cycle[f] =< now + d /\ f # e => cycle[f] =< cycle'[e]
      BY <3>1, <1>1 DEF AddEvent, TypeOK
    <3>3. /\ signalling' = signalling /\ pc' = pc /\ deadline' = deadline
          /\ eventList' = eventList \cup {e}
          /\ cycle' = [cycle EXCEPT ![e] = now + d]
      BY <1>1, <2>2 DEF AddEvent, locals
    <3>4. cycle[f] =< now + d /\ now + d \in Int
      BY <3>1 DEF TypeOK
    <3>5. \A g \in eventList' : g # e => g \in eventList /\ cycle'[g] = cycle[g]
      BY <3>3 DEF TypeOK
    <3>6. cycle'[e] = now + d
      BY <3>3 DEF TypeOK
    <3> QED
      BY <3>1, <3>3, <3>4, <3>5, <3>6 DEF TypeOK
  <2> QED
    BY <2>1, <2>2
<1>2. ASSUME NEW t \in Threads, Notify(t) PROVE NoLostWakeup'
  BY <1>2 DEF Notify, fields
<1>3. CASE Shutdown
  BY <1>3 DEF Shutdown, locals
<1>4. CASE TimedWait
  <2>1. PICK e \in Tops : deadline' = cycle[e]
    BY <1>4 DEF TimedWait
  <2> QED
    BY <1>4, <2>1 DEF TimedWait, Tops, fields
<1>5. ASSUME NEW e \in Events, PopActive(e) \/ PopStopped(e) PROVE NoLostWakeup'
  BY <1>5 DEF PopActive, PopStopped
<1>6. CASE TestState \/ Wait \/ Timeout \/ SpuriousWakeup \/ StartOver \/ PopEmpty \/ HandOver
  BY <1>6 DEF TestState, Wait, Timeout, SpuriousWakeup, StartOver, PopEmpty, HandOver, fields
<1>7. ASSUME NEW t \in Threads, NEW e \in Events, RefuseEvent(t, e) PROVE NoLostWakeup'
  BY <1>7 DEF RefuseEvent, fields, locals
<1>8. ASSUME NEW e \in Events, StopEvent(e) PROVE NoLostWakeup'
  BY <1>8 DEF StopEvent, locals
<1>9. CASE Stop \/ Tick \/ UNCHANGED vars
  BY <1>9 DEF Stop, Tick, vars, fields, locals
<1> QED
  BY <1>1, <1>2, <1>3, <1>4, <1>5, <1>6, <1>7, <1>8, <1>9
  DEF Next, Callers, SchedulerThread

\* Once every caller of addEvent has notified, the thread does not sleep on a
\* queue with events, nor beyond the cycle of any of them.
THEOREM WakeupNotLost == Spec => []NoLostWakeup
<1>1. Init => NoLostWakeup
  BY DEF Init, NoLostWakeup
<1>2. TypeOK /\ NoLostWakeup /\ [Next]_vars => NoLostWakeup'
  BY WakeupStep
<1> QED
  BY <1>1, <1>2, TypeCorrect, PTL DEF Spec

----------------------------------------------------------------------------
(* The scheduler implements EventTimer                                     *)

USE DEF Timer!Move, Timer!Add, Timer!Refuse, Timer!Fire, Timer!Cancel, Timer!Close

\* A step that gives one event a new status, seen through the mapping.
LEMMA StatusMove ==
  ASSUME NEW e \in Events, NEW s,
         Status'[e] = s,
         \A f \in Events \ {e} : Status'[f] = Status[f]
  PROVE  Status' = [Status EXCEPT ![e] = s]
BY ZenonT(60) DEF Status

\* Every step is one of EventTimer, or changes no status.
LEMMA StatusStep ==
  ASSUME IdsSuffice, IInv, IInv', [Next]_vars
  PROVE  [Timer!Next]_Status
<1> USE DEF IInv
<1>1. ASSUME NEW t \in Threads, NEW e \in Events, NEW d \in Delays, AddEvent(t, e, d)
      PROVE  Timer!Add(e)
  <2>1. /\ fate[e] = "new" /\ e \notin cancelled /\ cancelled' = cancelled
        /\ fate' = [fate EXCEPT ![e] = "queued"]
    BY <1>1 DEF AddEvent, IdInv
  <2>2. Status[e] = "new" /\ Status'[e] = "active"
    BY <2>1 DEF Status, TypeOK
  <2>3. \A f \in Events \ {e} : Status'[f] = Status[f]
    BY <2>1 DEF Status, TypeOK
  <2> QED
    BY <2>2, <2>3, StatusMove
<1>2. ASSUME NEW t \in Threads, NEW e \in Events, RefuseEvent(t, e) PROVE Timer!Refuse(e)
  <2>1. /\ fate[e] = "new" /\ e \notin cancelled /\ cancelled' = cancelled
        /\ fate' = [fate EXCEPT ![e] = "refused"]
    BY <1>2 DEF RefuseEvent, IdInv
  <2>2. Status[e] = "new" /\ Status'[e] = "lost"
    BY <2>1 DEF Status, TypeOK
  <2>3. \A f \in Events \ {e} : Status'[f] = Status[f]
    BY <2>1 DEF Status, TypeOK
  <2> QED
    BY <2>2, <2>3, StatusMove
<1>3. ASSUME NEW e \in Events, StopEvent(e) PROVE Timer!Cancel(e)
  <2>1. /\ fate[e] = "queued" /\ e \notin cancelled
        /\ cancelled' = cancelled \cup {e} /\ fate' = fate
    BY <1>3, IInvStop DEF StopEvent
  <2>2. Status[e] = "active" /\ Status'[e] = "cancelled"
    BY <2>1 DEF Status, TypeOK
  <2>3. \A f \in Events \ {e} : Status'[f] = Status[f]
    BY <2>1 DEF Status, TypeOK
  <2> QED
    BY <2>2, <2>3, StatusMove
<1>4. ASSUME NEW e \in Events, PopActive(e) PROVE Timer!Fire(e)
  <2>1. /\ fate[e] = "queued" /\ e \notin cancelled /\ cancelled' = cancelled
        /\ fate' = [fate EXCEPT ![e] = "popped"]
    BY <1>4, IInvPopActive DEF PopActive
  <2>2. Status[e] = "active" /\ Status'[e] = "fired"
    BY <2>1 DEF Status, TypeOK
  <2>3. \A f \in Events \ {e} : Status'[f] = Status[f]
    BY <2>1 DEF Status, TypeOK
  <2> QED
    BY <2>2, <2>3, StatusMove
<1>5. ASSUME NEW e \in Events, PopStopped(e) PROVE UNCHANGED Status
  <2>1. /\ fate[e] = "queued" /\ e \in cancelled /\ cancelled' = cancelled
        /\ fate' = [fate EXCEPT ![e] = "discarded"]
    BY <1>5, IInvPopStopped DEF PopStopped
  <2> QED
    BY <2>1 DEF Status, TypeOK
<1>6. CASE HandOver
  <2>1. /\ task \in Events /\ fate[task] = "popped" /\ cancelled' = cancelled
        /\ fate' = [fate EXCEPT ![task] = "handed"]
    BY <1>6, IInvHandOver DEF HandOver
  <2> QED
    BY <2>1 DEF Status, TypeOK
<1>7. CASE Shutdown
  <2>1. /\ cancelled' = cancelled
        /\ \A f \in Events : fate'[f] = IF fate[f] = "queued" THEN "dropped" ELSE fate[f]
    BY <1>7 DEF Shutdown, QueueInv
  <2>2. \A f \in Events : Status'[f] = IF Status[f] = "active" THEN "lost" ELSE Status[f]
    BY <2>1 DEF Status, TypeOK, Fates
  <2>3. Status' = [f \in Events |-> Status'[f]]
    BY DEF Status
  <2> QED
    BY <2>2, <2>3 DEF Timer!Next
<1>8. CASE UNCHANGED history
  BY <1>8 DEF history, Status
<1>9. CASE Stop \/ TestState \/ Wait \/ TimedWait \/ Timeout \/ SpuriousWakeup
           \/ StartOver \/ PopEmpty \/ Tick \/ UNCHANGED vars
           \/ \E t \in Threads : Notify(t)
  BY <1>8, <1>9
  DEF Stop, TestState, Wait, TimedWait, Timeout, SpuriousWakeup, StartOver, PopEmpty,
      Tick, vars, Notify
<1> QED
  BY <1>1, <1>2, <1>3, <1>4, <1>5, <1>6, <1>7, <1>9
  DEF Next, Callers, SchedulerThread, Timer!Next

\* As long as the ids do not wrap, the scheduler implements the abstract event
\* service: of running and cancelling at most one takes effect, and once.
THEOREM SchedulerImplementsTimer ==
  ASSUME IdsSuffice
  PROVE  Spec => ImplementsTimer
<1>1. Init => Timer!Init
  BY DEF Init, Timer!Init, Status
<1>2. Init => IInv
  BY IInvInit
<1>3. IInv /\ [Next]_vars => IInv'
  BY IInvStep
<1>4. IInv /\ IInv' /\ [Next]_vars => [Timer!Next]_Status
  BY StatusStep
<1> QED
  BY <1>1, <1>2, <1>3, <1>4, PTL DEF Spec, Timer!Spec, ImplementsTimer

-----------------------------------------------------------------------------
(* The connection: what it is, and when it is sound                          *)

Conns ==
  [state      : {"OPEN", "CLOSED"},
   protocol   : BOOLEAN,
   first      : BOOLEAN,
   queue      : Nat,
   sock       : BOOLEAN,
   accept     : {"pending", "ready", "done", "failed"},
   read       : {"none", "header", "body"},
   writes     : Nat,
   readTimer  : Timers,
   writeTimer : Timers,
   managed    : BOOLEAN,
   alive      : BOOLEAN,
   released   : 0..2,
   hard       : BOOLEAN]

\* A connection is released when it is closed, and its manager forgets it.
Sound(x) ==
  /\ x \in Conns
  /\ x.state = "OPEN" => x.released = 0
  /\ x.released =< 1
  /\ x.state = "CLOSED" /\ x.protocol => x.released = 1
  /\ x.state = "CLOSED" => ~x.managed

\* What OneWriteAtATime says, of any connection.
Orderly(x) ==
  /\ x.writes =< 1
  /\ x.writes = 1 => x.queue > 0
  /\ x.queue > 0 /\ x.writes = 0 => x.state = "CLOSED"

\* What most methods leave alone.
SameRole(x, y) ==
  /\ y.accept = x.accept
  /\ y.protocol = x.protocol
  /\ y.alive = x.alive

SameTraffic(x, y) ==
  /\ y.queue = x.queue
  /\ y.writes = x.writes
  /\ y.read = x.read

----------------------------------------------------------------------------
(* The methods                                                             *)

\* Closing the socket changes nothing but the socket and its timers.
LEMMA CloseSocketKeeps ==
  ASSUME NEW x \in Conns
  PROVE  LET y == CloseSocket(x)
         IN  /\ y \in Conns
             /\ SameRole(x, y) /\ SameTraffic(x, y)
             /\ y.state = x.state
             /\ y.managed = x.managed
             /\ y.released = x.released
             /\ y.readTimer \subseteq x.readTimer /\ y.writeTimer \subseteq x.writeTimer
BY ZenonT(60) DEF CloseSocket, Cancel, Conns, Timers, SameRole, SameTraffic

\* close() releases the protocol unless it was closed already.
LEMMA CloseKeeps ==
  ASSUME NEW x, Sound(x), NEW force \in BOOLEAN
  PROVE  LET y == Close(x, force)
         IN  /\ Sound(y)
             /\ y.state = "CLOSED"
             /\ SameRole(x, y) /\ SameTraffic(x, y)
<1> DEFINE y == [x EXCEPT !.managed = FALSE]
           z == [y EXCEPT !.state = "CLOSED", !.hard = @ \/ force,
                          !.released = IF x.protocol /\ @ < 2 THEN @ + 1 ELSE @]
<1>1. /\ y \in Conns /\ y.managed = FALSE
      /\ y.state = x.state /\ y.released = x.released
      /\ SameRole(x, y) /\ SameTraffic(x, y)
  BY DEF Sound, Conns, SameRole, SameTraffic
<1>2. CASE x.state = "CLOSED"
  <2>1. Close(x, force) = y
    BY <1>2 DEF Close, MayClose
  <2>2. Sound(y)
    BY <1>1 DEF Sound, SameRole
  <2> HIDE DEF y
  <2> QED BY <1>1, <1>2, <2>1, <2>2
<1>3. CASE x.state = "OPEN"
  <2>1. /\ z \in Conns /\ z.managed = FALSE
        /\ z.state = "CLOSED"
        /\ z.released = IF x.protocol THEN 1 ELSE 0
        /\ SameRole(x, z) /\ SameTraffic(x, z)
    <3> DEFINE r == IF x.protocol /\ y.released < 2 THEN y.released + 1 ELSE y.released
               w == y.hard \/ force
    <3>1. x.released = 0 /\ y.released = 0 /\ y.protocol = x.protocol
      BY <1>1, <1>3 DEF Sound, SameRole
    <3>2. r = (IF x.protocol THEN 1 ELSE 0) /\ r \in 0..2
      BY <3>1
    <3>a. z = [y EXCEPT !.state = "CLOSED", !.hard = w, !.released = r]
      OBVIOUS
    <3>b. w \in BOOLEAN
      OBVIOUS
    <3> HIDE DEF y, z, r, w
    <3>3. z \in Conns
      BY <1>1, <3>2, <3>a, <3>b DEF Conns
    <3>4. /\ z.managed = y.managed /\ z.state = "CLOSED"
          /\ z.released = IF x.protocol THEN 1 ELSE 0
          /\ SameRole(y, z) /\ SameTraffic(y, z)
      BY <1>1, <3>2, <3>a DEF Conns, SameRole, SameTraffic
    <3> QED BY <1>1, <3>3, <3>4 DEF SameRole, SameTraffic
  <2>2. Close(x, force) \in {z, CloseSocket(z)}
    BY <1>3 DEF Close, MayClose
  <2> HIDE DEF y, z
  <2>3. /\ CloseSocket(z) \in Conns
        /\ CloseSocket(z).managed = FALSE
        /\ CloseSocket(z).state = "CLOSED"
        /\ CloseSocket(z).released = z.released
        /\ SameRole(z, CloseSocket(z)) /\ SameTraffic(z, CloseSocket(z))
    BY <2>1, CloseSocketKeeps
  <2> QED BY <2>1, <2>2, <2>3 DEF Sound, SameRole, SameTraffic
<1> QED BY <1>2, <1>3 DEF Sound, Conns

\* The start of a read succeeds, or the connection is closed.
LEMMA StartReadKeeps ==
  ASSUME NEW x, Sound(x), NEW part \in {"header", "body"}, NEW y \in StartRead(x, part)
  PROVE  /\ Sound(y)
         /\ SameRole(x, y)
         /\ y.queue = x.queue /\ y.writes = x.writes
         /\ \/ y.state = x.state /\ y.read = part
            \/ y.state = "CLOSED" /\ y.read = x.read
<1> DEFINE b == [x EXCEPT !.readTimer = Rearm(@)]
           d == [b EXCEPT !.read = part]
           e == [b EXCEPT !.hard = TRUE]
<1>1. /\ Sound(d) /\ SameRole(x, d)
      /\ d.queue = x.queue /\ d.writes = x.writes
      /\ d.state = x.state /\ d.read = part
  BY DEF Sound, Conns, Rearm, Timers, SameRole
<1>2. Sound(e) /\ SameRole(x, e) /\ SameTraffic(x, e)
  BY DEF Sound, Conns, Rearm, Timers, SameRole, SameTraffic
<1>3. y = d \/ y = Close(e, TRUE)
  BY DEF StartRead, Started
<1> HIDE DEF b, d, e
<1>4. /\ Sound(Close(e, TRUE))
      /\ Close(e, TRUE).state = "CLOSED"
      /\ SameRole(e, Close(e, TRUE)) /\ SameTraffic(e, Close(e, TRUE))
  BY <1>2, CloseKeeps
<1> QED BY <1>1, <1>2, <1>3, <1>4 DEF SameRole, SameTraffic

\* The start of a write succeeds, or the connection is closed.
LEMMA InternalSendKeeps ==
  ASSUME NEW x, Sound(x), NEW y \in InternalSend(x)
  PROVE  /\ Sound(y)
         /\ SameRole(x, y)
         /\ y.queue = x.queue /\ y.read = x.read
         /\ \/ y.state = x.state /\ y.writes = x.writes + 1
            \/ y.state = "CLOSED" /\ y.writes = x.writes
<1> DEFINE b == [x EXCEPT !.writeTimer = Rearm(@)]
           d == [b EXCEPT !.writes = @ + 1]
           e == [b EXCEPT !.hard = TRUE]
<1>0. Sound(b) /\ SameRole(x, b) /\ SameTraffic(x, b) /\ b.state = x.state
  BY DEF Sound, Conns, Rearm, Timers, SameRole, SameTraffic
<1>1. /\ Sound(d) /\ SameRole(x, d)
      /\ d.queue = x.queue /\ d.read = x.read
      /\ d.state = x.state /\ d.writes = x.writes + 1
  <2> HIDE DEF b
  <2>1. b \in Conns /\ b.writes + 1 \in Nat
    BY <1>0 DEF Sound, Conns
  <2>2. /\ d \in Conns
        /\ d.state = b.state /\ d.queue = b.queue /\ d.read = b.read
        /\ d.writes = b.writes + 1
        /\ d.released = b.released /\ d.managed = b.managed
        /\ SameRole(b, d)
    BY <2>1 DEF Conns, SameRole
  <2> HIDE DEF d
  <2> QED BY <1>0, <2>2 DEF Sound, SameRole, SameTraffic
<1>2. Sound(e) /\ SameRole(x, e) /\ SameTraffic(x, e)
  BY DEF Sound, Conns, Rearm, Timers, SameRole, SameTraffic
<1>3. y = d \/ y = Close(e, TRUE)
  BY DEF InternalSend, Started
<1> HIDE DEF b, d, e
<1>4. /\ Sound(Close(e, TRUE))
      /\ Close(e, TRUE).state = "CLOSED"
      /\ SameRole(e, Close(e, TRUE)) /\ SameTraffic(e, Close(e, TRUE))
  BY <1>2, CloseKeeps
<1> QED BY <1>1, <1>2, <1>3, <1>4 DEF SameRole, SameTraffic

\* send() queues a message on an open connection; it starts a write if none is
\* out, and keeps the writes orderly.
LEMMA SendKeeps ==
  ASSUME NEW x, Sound(x), Orderly(x), NEW y \in Send(x)
  PROVE  /\ Sound(y) /\ Orderly(y)
         /\ SameRole(x, y)
         /\ y.read = x.read
         /\ y.state \in {x.state, "CLOSED"}
         /\ y.queue = IF x.state = "OPEN" THEN x.queue + 1 ELSE x.queue
<1> DEFINE z == [x EXCEPT !.queue = @ + 1]
<1>1. Sound(z) /\ SameRole(x, z) /\ z.state = x.state /\ z.read = x.read
      /\ z.queue = x.queue + 1 /\ z.writes = x.writes
  BY DEF Sound, Conns, SameRole
<1>2. x.queue \in Nat /\ x.writes \in Nat /\ x.state \in {"OPEN", "CLOSED"}
  BY DEF Sound, Conns
<1>3. CASE x.state # "OPEN"
  BY <1>2, <1>3 DEF Send, SameRole
<1>4. CASE x.state = "OPEN" /\ x.queue = 0
  <2>1. y \in InternalSend(z)
    BY <1>4 DEF Send, NoPendingWrite
  <2> HIDE DEF z
  <2>2. x.writes = 0
    BY <1>2, <1>4 DEF Orderly
  <2>3. /\ Sound(y)
        /\ SameRole(z, y)
        /\ y.queue = z.queue /\ y.read = z.read
        /\ \/ y.state = z.state /\ y.writes = z.writes + 1
           \/ y.state = "CLOSED" /\ y.writes = z.writes
    BY <1>1, <2>1, InternalSendKeeps
  <2> QED BY <1>1, <1>2, <1>4, <2>2, <2>3 DEF Orderly, SameRole
<1>5. CASE x.state = "OPEN" /\ x.queue # 0
  <2>1. y = z
    BY <1>5 DEF Send, NoPendingWrite
  <2> HIDE DEF z
  <2>2. x.writes = 1
    BY <1>2, <1>5 DEF Orderly
  <2> QED BY <1>1, <1>2, <1>5, <2>1, <2>2 DEF Orderly
<1> QED BY <1>3, <1>4, <1>5

\* At the end of a step the object may be destroyed.
LEMMA SettleKeeps ==
  ASSUME NEW x, Sound(x)
  PROVE  LET y == Settle(x)
         IN  /\ Sound(y)
             /\ SameTraffic(x, y)
             /\ y.state = x.state
             /\ y.accept = x.accept
             /\ y.protocol = x.protocol
             /\ y.released = x.released
             /\ y.managed = x.managed
             /\ y.alive = IF Referenced(x) THEN x.alive ELSE FALSE
             /\ y.readTimer \subseteq x.readTimer /\ y.writeTimer \subseteq x.writeTimer
<1>1. CASE Referenced(x)
  BY <1>1 DEF Settle, SameTraffic
<1>2. CASE ~Referenced(x)
  <2> DEFINE z == CloseSocket(x)
             y == [z EXCEPT !.alive = FALSE]
  <2>1. /\ z \in Conns
        /\ SameRole(x, z) /\ SameTraffic(x, z)
        /\ z.state = x.state
        /\ z.managed = x.managed
        /\ z.released = x.released
        /\ z.readTimer \subseteq x.readTimer /\ z.writeTimer \subseteq x.writeTimer
    BY CloseSocketKeeps DEF Sound
  <2>2. Settle(x) = y
    BY <1>2 DEF Settle
  <2> HIDE DEF z
  <2>3. /\ y \in Conns
        /\ y.accept = z.accept /\ y.protocol = z.protocol
        /\ SameTraffic(z, y)
        /\ y.state = z.state
        /\ y.managed = z.managed
        /\ y.released = z.released
        /\ y.alive = FALSE
        /\ y.readTimer = z.readTimer /\ y.writeTimer = z.writeTimer
    BY <2>1 DEF Conns, SameTraffic
  <2> HIDE DEF y
  <2> QED BY <1>2, <2>1, <2>2, <2>3 DEF Sound, SameRole, SameTraffic
<1> QED BY <1>1, <1>2

----------------------------------------------------------------------------
(* The invariant                                                           *)

\* Before the accept has succeeded nothing can be done with the connection.
Fresh(x) ==
  x.accept # "done" =>
    /\ x.state = "OPEN" /\ ~x.protocol
    /\ x.read = "none" /\ x.writes = 0 /\ x.queue = 0
    /\ x.readTimer = {} /\ x.writeTimer = {}

\* An accepted open connection has a read out; a destroyed one nothing.
Reading(x) ==
  /\ x.accept = "done" /\ x.state = "OPEN" => x.read # "none"
  /\ ~x.alive => ~Referenced(x)

\* The counts of messages agree.
Counts ==
  /\ accepted \in 0..MaxMessages
  /\ written \in Nat
  /\ c.queue + written =< accepted

Others == peerReads \in BOOLEAN /\ failed \in BOOLEAN

ConnectionInv == Sound(c) /\ Orderly(c) /\ Fresh(c) /\ Reading(c) /\ Counts /\ Others

\* The connection becomes a method's result x.
LEMMA BecomesKeeps ==
  ASSUME NEW x, Sound(x), Orderly(x), Fresh(x),
         x.accept = "done" /\ x.state = "OPEN" => x.read # "none",
         x.alive \/ ~Referenced(x),
         c' = Settle(x)
  PROVE  /\ Sound(c)' /\ Orderly(c)' /\ Fresh(c)' /\ Reading(c)'
         /\ c'.queue = x.queue
<1>1. /\ Sound(c')
      /\ SameTraffic(x, c')
      /\ c'.state = x.state
      /\ c'.accept = x.accept
      /\ c'.protocol = x.protocol
      /\ c'.released = x.released
      /\ c'.managed = x.managed
      /\ c'.alive = IF Referenced(x) THEN x.alive ELSE FALSE
      /\ c'.readTimer \subseteq x.readTimer /\ c'.writeTimer \subseteq x.writeTimer
  BY SettleKeeps
<1>2. Orderly(c') /\ Fresh(c') /\ c'.queue = x.queue
  <2>1. Orderly(c') /\ c'.queue = x.queue
    BY <1>1 DEF Orderly, SameTraffic
  <2>2. Fresh(c')
    BY <1>1 DEF Fresh, SameTraffic
  <2> QED BY <2>1, <2>2
<1>3. Referenced(c') <=> Referenced(x)
  BY <1>1 DEF Referenced, SameTraffic
<1>4. Reading(c')
  BY <1>1, <1>3 DEF Reading, SameTraffic
<1> QED BY <1>1, <1>2, <1>4 DEF Sound, Orderly, Fresh, Reading

\* At the start the connection waits for its peer.
LEMMA ConnectionInvInit == ConnectionInit => ConnectionInv
<1> SUFFICES ASSUME ConnectionInit PROVE ConnectionInv
  OBVIOUS
<1>1. c \in Conns
  BY DEF ConnectionInit, Conns, Timers
<1>2. Sound(c) /\ Orderly(c) /\ Fresh(c) /\ Reading(c)
  BY <1>1 DEF ConnectionInit, Sound, Orderly, Fresh, Reading
<1>3. Counts
  BY ConnectionAssumption DEF ConnectionInit, Counts, ConnectionAssumption
<1>4. Others
  BY Zenon DEF ConnectionInit, Others
<1> QED BY <1>2, <1>3, <1>4 DEF ConnectionInv

\* The invariant implies the properties the runs check.
LEMMA IInvImplies == ConnectionInv => ConnectionTypeOK /\ OneWriteAtATime /\ ReleasedOnce
<1> SUFFICES ASSUME ConnectionInv PROVE ConnectionTypeOK /\ OneWriteAtATime /\ ReleasedOnce
  OBVIOUS
<1>1. OneWriteAtATime
  BY DEF ConnectionInv, Orderly, OneWriteAtATime
<1>2. /\ c \in Conns /\ accepted \in 0..MaxMessages /\ MaxMessages \in Nat
      /\ written \in Nat /\ c.queue + written =< accepted
  BY ConnectionAssumption DEF ConnectionInv, Sound, Counts, ConnectionAssumption
<1>3. c.queue \in Nat /\ c.writes \in Nat
  BY <1>2 DEF Conns
<1>4. c.queue \in 0..MaxMessages /\ written \in 0..accepted
  BY <1>2, <1>3
<1>5. c.writes \in 0..MaxMessages
  BY <1>1, <1>2, <1>3, <1>4 DEF OneWriteAtATime
<1>6. ConnectionTypeOK
  BY <1>2, <1>4, <1>5 DEF ConnectionTypeOK, Conns, ConnectionInv, Others
<1>7. ReleasedOnce
  <2>1. c.released =< 1 /\ (c.protocol /\ c.state = "CLOSED" => c.released = 1)
    BY DEF ConnectionInv, Sound
  <2>2. ASSUME c.protocol, ~c.alive PROVE c.released = 1
    <3>1. c.accept = "done" /\ c.read = "none"
      BY <2>2 DEF ConnectionInv, Fresh, Reading, Referenced
    <3>2. c.state = "CLOSED"
      BY <3>1, <1>2 DEF ConnectionInv, Reading, Conns
    <3> QED BY <2>1, <2>2, <3>2
  <2> QED BY <2>1, <2>2 DEF ReleasedOnce
<1> QED BY <1>1, <1>6, <1>7

----------------------------------------------------------------------------
(* The steps                                                               *)

\* Who refers to the connection keeps it alive.
LEMMA ReferencedIsAlive ==
  ASSUME ConnectionInv, Referenced(c)
  PROVE  c.alive
BY DEF ConnectionInv, Reading, Sound, Conns

\* An accepted connection becomes a method's result x.
LEMMA AcceptedKeeps ==
  ASSUME NEW x, Sound(x), Orderly(x), x.accept = "done",
         x.state = "OPEN" => x.read # "none", x.alive, c' = Settle(x),
         accepted' \in 0..MaxMessages, written' \in Nat, x.queue + written' =< accepted', Others'
  PROVE  ConnectionInv'
<1>1. Fresh(x)
  BY DEF Fresh
<1>2. /\ Sound(c)' /\ Orderly(c)' /\ Fresh(c)' /\ Reading(c)'
      /\ c'.queue = x.queue
  BY <1>1, BecomesKeeps
<1> QED BY <1>2 DEF ConnectionInv, Counts

\* An accepted connection becomes a result of close().
LEMMA ClosedKeeps ==
  ASSUME ConnectionInv, NEW x, Sound(x), Orderly(x), x.accept = "done", x.alive, x.queue =< c.queue,
         NEW force \in BOOLEAN, c' = Settle(Close(x, force)),
         accepted' = accepted, written' = written, Others'
  PROVE  ConnectionInv'
<1> DEFINE y == Close(x, force)
<1>1. /\ Sound(y) /\ y.state = "CLOSED"
      /\ SameRole(x, y) /\ SameTraffic(x, y)
  BY CloseKeeps
<1> HIDE DEF y
<1>2. Orderly(y) /\ y.accept = "done" /\ y.alive /\ y.queue = x.queue
  BY <1>1 DEF Orderly, SameRole, SameTraffic
<1>3. y.queue + written' =< accepted' /\ accepted' \in 0..MaxMessages /\ written' \in Nat
  <2>1. x.queue \in Nat /\ c.queue \in Nat
    BY DEF ConnectionInv, Sound, Conns
  <2>2. /\ accepted \in 0..MaxMessages /\ written \in Nat /\ c.queue + written =< accepted
        /\ accepted \in Nat
    BY ConnectionAssumption DEF ConnectionInv, Counts, ConnectionAssumption
  <2> QED BY <1>2, <2>1, <2>2
<1>4. c' = Settle(y)
  BY DEF y
<1> QED BY <1>1, <1>2, <1>3, <1>4, AcceptedKeeps

\* An accepted connection starts a read.
LEMMA ReadStartedKeeps ==
  ASSUME ConnectionInv, NEW x, Sound(x), Orderly(x), x.accept = "done", x.alive,
         NEW part \in {"header", "body"}, NEW y \in StartRead(x, part), c' = Settle(y),
         accepted' \in 0..MaxMessages, written' \in Nat, x.queue + written' =< accepted', Others'
  PROVE  ConnectionInv'
<1>1. /\ Sound(y)
      /\ SameRole(x, y)
      /\ y.queue = x.queue /\ y.writes = x.writes
      /\ \/ y.state = x.state /\ y.read = part
         \/ y.state = "CLOSED" /\ y.read = x.read
  BY StartReadKeeps
<1>2. Orderly(y)
  BY <1>1 DEF Orderly
<1>3. y.state = "OPEN" => y.read # "none"
  BY <1>1
<1>4. y.accept = "done" /\ y.alive
  BY <1>1 DEF SameRole
<1> QED BY <1>1, <1>2, <1>3, <1>4, AcceptedKeeps

\* Only timers change.
LEMMA TimersKeep ==
  ASSUME ConnectionInv, NEW r \in Timers, NEW w \in Timers, c.accept = "done",
         c' = [c EXCEPT !.readTimer = r, !.writeTimer = w],
         accepted' = accepted, written' = written, Others'
  PROVE  ConnectionInv'
<1>1. /\ Sound(c') /\ SameRole(c, c') /\ SameTraffic(c, c') /\ c'.state = c.state
      /\ c'.managed = c.managed
  BY DEF ConnectionInv, Sound, Conns, SameRole, SameTraffic
<1>2. Orderly(c') /\ Fresh(c')
  BY <1>1 DEF ConnectionInv, Orderly, Fresh, SameRole, SameTraffic
<1>3. Reading(c')
  BY <1>1 DEF ConnectionInv, Reading, Referenced, SameRole, SameTraffic
<1>4. Counts'
  BY <1>1 DEF ConnectionInv, Counts, SameTraffic
<1> QED BY <1>1, <1>2, <1>3, <1>4 DEF ConnectionInv, Sound, Orderly, Fresh, Reading

\* The read that is out has come to its end.
LEMMA ReadDoneSound ==
  ASSUME ConnectionInv, c.read # "none"
  PROVE  /\ Sound(ReadDone) /\ Orderly(ReadDone)
         /\ ReadDone.accept = "done" /\ ReadDone.alive
         /\ ReadDone.queue = c.queue
         /\ ReadDone.state = c.state
         /\ ReadDone.read = "none"
<1>1. c.accept = "done" /\ c.alive
  BY ReferencedIsAlive DEF ConnectionInv, Fresh, Referenced
<1>2. /\ Sound(ReadDone)
      /\ SameRole(c, ReadDone)
      /\ ReadDone.queue = c.queue /\ ReadDone.writes = c.writes
      /\ ReadDone.state = c.state
      /\ ReadDone.read = "none"
  BY DEF ConnectionInv, ReadDone, Cancel, Timers, Sound, Conns, SameRole
<1> QED BY <1>1, <1>2 DEF ConnectionInv, Orderly, SameRole

\* parseHeader leaves a connection closed, or with a read of the body.
LEMMA ParseHeaderKeeps ==
  ASSUME ConnectionInv, NEW error \in BOOLEAN, ParseHeader(error), Others'
  PROVE  ConnectionInv'
<1>1. /\ c.read = "header" /\ accepted' = accepted /\ written' = written
      /\ accepted \in 0..MaxMessages /\ written \in Nat /\ c.queue + written =< accepted
  BY DEF ParseHeader, ConnectionInv, Counts
<1>2. /\ Sound(ReadDone) /\ Orderly(ReadDone)
      /\ ReadDone.accept = "done" /\ ReadDone.alive
      /\ ReadDone.queue = c.queue
      /\ ReadDone.state = c.state
  BY <1>1, ReadDoneSound
<1>3. c.queue =< c.queue
  BY DEF ConnectionInv, Sound, Conns
<1>4. ASSUME NEW force \in BOOLEAN, c' = Settle(Close(ReadDone, force)) PROVE ConnectionInv'
  BY <1>1, <1>2, <1>3, <1>4, ClosedKeeps
<1>5. ASSUME c.state # "OPEN", c' = Settle(ReadDone) PROVE ConnectionInv'
  BY <1>1, <1>2, <1>5, AcceptedKeeps
<1>6. ASSUME NEW y \in StartRead(ReadDone, "body"), c' = Settle(y) PROVE ConnectionInv'
  BY <1>1, <1>2, <1>6, ReadStartedKeeps
<1> QED BY <1>4, <1>5, <1>6 DEF ParseHeader, Becomes

\* parsePacket without a packet to take.
LEMMA DropPacketKeeps ==
  ASSUME ConnectionInv, NEW error \in BOOLEAN, DropPacket(error), Others'
  PROVE  ConnectionInv'
<1> DEFINE x == [ReadDone EXCEPT !.first = TRUE]
<1>1. /\ c.read = "body" /\ accepted' = accepted /\ written' = written
      /\ accepted \in 0..MaxMessages /\ written \in Nat /\ c.queue + written =< accepted
  BY DEF DropPacket, ConnectionInv, Counts
<1>2. /\ Sound(ReadDone) /\ Orderly(ReadDone)
      /\ ReadDone.accept = "done" /\ ReadDone.alive
      /\ ReadDone.queue = c.queue
      /\ ReadDone.state = c.state
  BY <1>1, ReadDoneSound
<1>3. /\ Sound(x) /\ Orderly(x)
      /\ x.accept = "done" /\ x.alive
      /\ x.queue = c.queue
  <2> DEFINE r == ReadDone
  <2> HIDE DEF r
  <2>1. Sound(r) /\ Orderly(r) /\ r.accept = "done" /\ r.alive /\ r.queue = c.queue
    BY <1>2 DEF r
  <2>2. LET u == [r EXCEPT !.first = TRUE]
        IN  Sound(u) /\ Orderly(u) /\ u.accept = "done" /\ u.alive /\ u.queue = c.queue
    BY <2>1 DEF Sound, Conns, Orderly
  <2> QED BY <2>2 DEF r
<1>4. c.queue =< c.queue
  BY DEF ConnectionInv, Sound, Conns
<1>5. ASSUME c' = Settle(Close(ReadDone, TRUE)) PROVE ConnectionInv'
  BY <1>1, <1>2, <1>4, <1>5, ClosedKeeps
<1>6. ASSUME c.state # "OPEN", c' = Settle(ReadDone) PROVE ConnectionInv'
  BY <1>1, <1>2, <1>6, AcceptedKeeps
<1>7. ASSUME c' = Settle(Close(x, TRUE)) PROVE ConnectionInv'
  <2> HIDE DEF x
  <2> QED BY <1>1, <1>3, <1>4, <1>7, ClosedKeeps
<1> QED BY <1>5, <1>6, <1>7 DEF DropPacket, Becomes

\* The protocol takes a packet: a possible answer and a possible disconnect
\* leave what the start of the next read relies on.
LEMMA ParsePacketKeeps ==
  ASSUME ConnectionInv, NEW answers \in BOOLEAN, NEW disconnects \in BOOLEAN,
         ParsePacket(answers, disconnects), Others'
  PROVE  ConnectionInv'
<1> DEFINE x == [ReadDone EXCEPT !.first = TRUE, !.protocol = TRUE]
<1>1. /\ c.read = "body" /\ c.state = "OPEN" /\ written' = written
      /\ accepted' = IF answers THEN accepted + 1 ELSE accepted
      /\ answers => accepted < MaxMessages
  BY DEF ParsePacket
<1>2. /\ accepted \in 0..MaxMessages /\ written \in Nat /\ c.queue + written =< accepted
      /\ c.queue \in Nat /\ MaxMessages \in Nat
  BY ConnectionAssumption DEF ConnectionInv, Counts, Sound, Conns, ConnectionAssumption
<1>3. /\ Sound(x) /\ Orderly(x)
      /\ x.accept = "done" /\ x.alive
      /\ x.queue = c.queue
      /\ x.state = "OPEN"
  <2> DEFINE r == ReadDone
  <2> HIDE DEF r
  <2>1. Sound(r) /\ Orderly(r) /\ r.accept = "done" /\ r.alive /\ r.queue = c.queue
        /\ r.state = "OPEN"
    BY <1>1, ReadDoneSound DEF r
  <2>2. LET u == [r EXCEPT !.first = TRUE, !.protocol = TRUE]
        IN  Sound(u) /\ Orderly(u) /\ u.accept = "done" /\ u.alive /\ u.queue = c.queue
            /\ u.state = "OPEN"
    BY <2>1 DEF Sound, Conns, Orderly
  <2> QED BY <2>2 DEF r
<1>4. PICK y \in (IF answers THEN Send(x) ELSE {x}) :
      \E w \in StartRead(IF disconnects THEN Close(y, FALSE) ELSE y, "header") : c' = Settle(w)
  <2> HIDE DEF x
  <2>1. \E w \in UNION {StartRead(z, "header") :
            z \in IF disconnects THEN {Close(y, FALSE) : y \in IF answers THEN Send(x) ELSE {x}}
                  ELSE IF answers THEN Send(x) ELSE {x}} : c' = Settle(w)
    BY DEF ParsePacket, Becomes, x
  <2> QED BY <2>1
<1> HIDE DEF x
<1>5. /\ Sound(y) /\ Orderly(y) /\ y.accept = "done" /\ y.alive
      /\ y.queue = IF answers THEN c.queue + 1 ELSE c.queue
  <2>1. CASE answers
    <3>1. y \in Send(x)
      BY <1>4, <2>1
    <3>2. /\ Sound(y) /\ Orderly(y) /\ SameRole(x, y)
          /\ y.queue = IF x.state = "OPEN" THEN x.queue + 1 ELSE x.queue
      BY <1>3, <3>1, SendKeeps
    <3> QED BY <1>3, <2>1, <3>2 DEF SameRole
  <2>2. CASE ~answers
    BY <1>3, <1>4, <2>2
  <2> QED BY <2>1, <2>2
<1> DEFINE z == IF disconnects THEN Close(y, FALSE) ELSE y
<1>6. /\ Sound(z) /\ Orderly(z) /\ z.accept = "done" /\ z.alive
      /\ z.queue = y.queue
  <2>1. CASE disconnects
    <3> DEFINE d == Close(y, FALSE)
    <3>1. Sound(d) /\ SameRole(y, d) /\ SameTraffic(y, d) /\ d.state = "CLOSED"
      BY <1>5, CloseKeeps
    <3> HIDE DEF d
    <3>2. Sound(d) /\ Orderly(d) /\ d.accept = "done" /\ d.alive /\ d.queue = y.queue
      BY <1>5, <3>1 DEF SameRole, SameTraffic, Orderly
    <3> QED BY <2>1, <3>2 DEF d
  <2>2. CASE ~disconnects
    BY <1>5, <2>2
  <2> QED BY <2>1, <2>2
<1>7. \E w \in StartRead(z, "header") : c' = Settle(w)
  BY <1>4
<1> HIDE DEF z
<1>8. z.queue + written' =< accepted' /\ accepted' \in 0..MaxMessages /\ written' \in Nat
  BY <1>1, <1>2, <1>5, <1>6
<1>9. PICK w \in StartRead(z, "header") : c' = Settle(w)
  BY <1>7
<1> QED BY <1>6, <1>8, <1>9, ReadStartedKeeps

\* The write that is out has come to its end: its message leaves the queue, and
\* the next one is written or the connection is closed.
LEMMA OnWriteOperationKeeps ==
  ASSUME ConnectionInv, NEW error \in BOOLEAN, OnWriteOperation(error), Others'
  PROVE  ConnectionInv'
<1> DEFINE b == [c EXCEPT !.writes = @ - 1, !.writeTimer = Cancel(@)]
           x == PopFront(b)
           e == [x EXCEPT !.queue = 0]
<1>1. /\ c.writes > 0 /\ accepted' = accepted
      /\ written' = IF error THEN written ELSE written + 1
      /\ \/ error /\ c' = Settle(Close(e, TRUE))
         \/ ~error /\ x.queue > 0 /\ \E y \in InternalSend(x) : c' = Settle(y)
         \/ ~error /\ ~(x.queue > 0) /\ c' = Settle(AfterLastWrite(x))
  BY DEF OnWriteOperation, Becomes
<1>2. /\ accepted \in 0..MaxMessages /\ written \in Nat /\ c.queue + written =< accepted
      /\ c.queue \in Nat /\ c.writes \in Nat
  BY DEF ConnectionInv, Counts, Sound, Conns
<1>3. c.writes = 1 /\ c.queue > 0
  BY <1>1, <1>2 DEF ConnectionInv, Orderly
<1>4. /\ c.accept = "done" /\ c.alive
      /\ c.state = "OPEN" => c.read # "none"
  BY <1>3, ReferencedIsAlive DEF ConnectionInv, Fresh, Reading, Referenced
<1>5. /\ Sound(x) /\ SameRole(c, x) /\ x.state = c.state /\ x.read = c.read
      /\ x.queue = c.queue - 1 /\ x.writes = 0
  <2>1. /\ c.queue - 1 \in Nat /\ c.writes - 1 \in Nat /\ c.writes - 1 = 0
        /\ Cancel(c.writeTimer) \in Timers
    BY <1>2, <1>3 DEF ConnectionInv, Sound, Conns, Cancel, Timers
  <2>2. /\ Sound(b) /\ SameRole(c, b) /\ b.state = c.state /\ b.read = c.read
        /\ b.queue = c.queue /\ b.writes = 0
    <3>1. c \in Conns
      BY DEF ConnectionInv, Sound
    <3>2. /\ b \in Conns /\ SameRole(c, b) /\ b.state = c.state /\ b.read = c.read
          /\ b.queue = c.queue /\ b.writes = 0
          /\ b.released = c.released /\ b.managed = c.managed
      BY <2>1, <3>1 DEF Conns, SameRole
    <3> HIDE DEF b
    <3> QED BY <3>2 DEF ConnectionInv, Sound, SameRole
  <2> HIDE DEF b
  <2>3. b \in Conns /\ b.queue - 1 \in Nat
    BY <2>1, <2>2 DEF Sound
  <2>4. /\ x \in Conns /\ SameRole(b, x) /\ x.state = b.state /\ x.read = b.read
        /\ x.queue = b.queue - 1 /\ x.writes = b.writes
        /\ x.released = b.released /\ x.managed = b.managed
    BY <2>3 DEF Conns, PopFront, SameRole
  <2> HIDE DEF x
  <2> QED BY <2>2, <2>4 DEF Sound, SameRole
<1>6. CASE error
  <2>1. c' = Settle(Close(e, TRUE)) /\ written' = written
    BY <1>1, <1>6
  <2>2. Sound(e) /\ Orderly(e) /\ e.accept = "done" /\ e.alive /\ e.queue = 0
    <3> HIDE DEF x
    <3>1. x \in Conns
      BY <1>5 DEF Sound
    <3>2. /\ e \in Conns /\ e.accept = x.accept /\ e.alive = x.alive
          /\ e.queue = 0 /\ e.writes = x.writes
          /\ e.state = x.state /\ e.protocol = x.protocol
          /\ e.released = x.released /\ e.managed = x.managed
      BY <3>1 DEF Conns
    <3> HIDE DEF e
    <3> QED BY <1>4, <1>5, <3>2 DEF Sound, Orderly, SameRole
  <2> HIDE DEF e
  <2>3. e.queue =< c.queue
    BY <1>2, <2>2
  <2> QED BY <1>1, <2>1, <2>2, <2>3, ClosedKeeps
<1>7. ASSUME ~error PROVE accepted' \in 0..MaxMessages /\ written' \in Nat
                          /\ x.queue + written' =< accepted'
  <2> HIDE DEF x
  <2> QED BY <1>1, <1>2, <1>3, <1>5, <1>7
<1> HIDE DEF x
<1>8. ASSUME ~error, x.queue > 0, NEW y \in InternalSend(x), c' = Settle(y) PROVE ConnectionInv'
  <2>1. /\ Sound(y)
        /\ SameRole(x, y)
        /\ y.queue = x.queue /\ y.read = x.read
        /\ \/ y.state = x.state /\ y.writes = x.writes + 1
           \/ y.state = "CLOSED" /\ y.writes = x.writes
    BY <1>5, <1>8, InternalSendKeeps
  <2>2. Orderly(y)
    BY <1>5, <1>8, <2>1 DEF Orderly
  <2>3. y.accept = "done" /\ y.alive /\ (y.state = "OPEN" => y.read # "none")
    BY <1>4, <1>5, <2>1 DEF SameRole
  <2> QED BY <1>7, <1>8, <2>1, <2>2, <2>3, AcceptedKeeps
<1>9. ASSUME ~error, ~(x.queue > 0), c' = Settle(AfterLastWrite(x)) PROVE ConnectionInv'
  <2> DEFINE y == AfterLastWrite(x)
  <2>1. /\ CloseSocket(x) \in Conns
        /\ SameRole(x, CloseSocket(x)) /\ SameTraffic(x, CloseSocket(x))
        /\ CloseSocket(x).state = x.state
        /\ CloseSocket(x).managed = x.managed
        /\ CloseSocket(x).released = x.released
    BY <1>5, CloseSocketKeeps DEF Sound
  <2>2. y \in {x, CloseSocket(x)}
    BY DEF AfterLastWrite
  <2> HIDE DEF y
  <2>3. Sound(y) /\ SameRole(x, y) /\ SameTraffic(x, y) /\ y.state = x.state
    BY <1>5, <2>1, <2>2 DEF Sound, SameRole, SameTraffic
  <2>4. /\ Orderly(y) /\ y.accept = "done" /\ y.alive /\ y.queue = x.queue
        /\ y.state = "OPEN" => y.read # "none"
    <3>1. x.queue \in Nat
      BY <1>5 DEF Sound, Conns
    <3> QED BY <1>4, <1>5, <1>9, <2>3, <3>1 DEF Orderly, SameRole, SameTraffic
  <2>5. c' = Settle(y)
    BY <1>9 DEF y
  <2> QED BY <1>7, <1>9, <2>3, <2>4, <2>5, AcceptedKeeps
<1> QED BY <1>1, <1>6, <1>8, <1>9

\* A connection whose peer has come is closed, or reads its first header.
LEMMA OnAcceptKeeps ==
  ASSUME ConnectionInv, OnAccept, Others'
  PROVE  ConnectionInv'
<1> DEFINE x == [c EXCEPT !.accept = "done"]
           p == [x EXCEPT !.protocol = TRUE]
<1>1. /\ c.accept = "ready" /\ accepted' = accepted /\ written' = written
      /\ accepted \in 0..MaxMessages /\ written \in Nat /\ c.queue + written =< accepted
  BY DEF OnAccept, ConnectionInv, Counts
<1>2. c.alive /\ c.state = "OPEN" /\ c.writes = 0 /\ c.queue = 0
  BY <1>1, ReferencedIsAlive DEF Referenced, ConnectionInv, Fresh
<1>3. /\ Sound(x) /\ Orderly(x) /\ x.accept = "done" /\ x.alive
      /\ x.queue = c.queue /\ x.state = "OPEN"
  BY <1>2 DEF ConnectionInv, Sound, Conns, Orderly
<1>4. /\ Sound(p) /\ Orderly(p) /\ p.accept = "done" /\ p.alive
      /\ p.queue = c.queue
  <2> HIDE DEF x
  <2> QED BY <1>3 DEF Sound, Conns, Orderly
<1>5. \/ c' = Settle(Close(x, TRUE))
      \/ \E y \in StartRead(x, "header") : c' = Settle(y)
      \/ \E y \in StartRead(p, "header") : c' = Settle(y)
  BY DEF OnAccept, Becomes
<1> HIDE DEF x, p
<1>6. ASSUME c' = Settle(Close(x, TRUE)) PROVE ConnectionInv'
  <2>1. x.queue =< c.queue
    BY <1>2, <1>3
  <2> QED BY <1>1, <1>3, <1>6, <2>1, ClosedKeeps
<1>7. ASSUME NEW y \in StartRead(x, "header"), c' = Settle(y) PROVE ConnectionInv'
  BY <1>1, <1>3, <1>7, ReadStartedKeeps
<1>8. ASSUME NEW y \in StartRead(p, "header"), c' = Settle(y) PROVE ConnectionInv'
  BY <1>1, <1>4, <1>8, ReadStartedKeeps
<1> QED BY <1>5, <1>6, <1>7, <1>8

\* Before the accept has succeeded the connection only waits, is given up, or
\* is closed with all the others.
LEMMA UnacceptedKeeps ==
  ASSUME ConnectionInv, PeerConnects \/ AcceptError \/ CloseAll, Others'
  PROVE  ConnectionInv'
<1>1. Counts /\ accepted' = accepted /\ written' = written
  BY DEF PeerConnects, AcceptError, CloseAll, ConnectionInv
<1>2. CASE PeerConnects
  <2> DEFINE x == [c EXCEPT !.accept = "ready", !.sock = TRUE]
  <2>1. c' = x /\ c.accept = "pending"
    BY <1>2 DEF PeerConnects
  <2>2. c.alive
    BY <2>1, ReferencedIsAlive DEF Referenced
  <2>3. Sound(x) /\ Orderly(x) /\ Fresh(x) /\ Reading(x) /\ x.queue = c.queue
    BY <2>1, <2>2 DEF ConnectionInv, Sound, Conns, Orderly, Fresh, Reading
  <2> HIDE DEF x
  <2> QED BY <1>1, <2>1, <2>3 DEF ConnectionInv, Sound, Orderly, Fresh, Reading, Counts
<1>3. CASE AcceptError
  <2> DEFINE x == [c EXCEPT !.accept = "failed"]
  <2>1. c' = Settle(x) /\ c.accept = "pending"
    BY <1>3 DEF AcceptError, Becomes
  <2>2. c.alive
    BY <2>1, ReferencedIsAlive DEF Referenced
  <2>3. /\ Sound(x) /\ Orderly(x) /\ Fresh(x) /\ x.queue = c.queue
        /\ x.accept = "failed" /\ x.alive
    BY <2>1, <2>2 DEF ConnectionInv, Sound, Conns, Orderly, Fresh
  <2> HIDE DEF x
  <2>4. /\ Sound(c)' /\ Orderly(c)' /\ Fresh(c)' /\ Reading(c)'
        /\ c'.queue = x.queue
    BY <2>1, <2>3, BecomesKeeps
  <2> QED BY <1>1, <2>3, <2>4 DEF ConnectionInv, Counts
<1>4. CASE CloseAll
  <2> DEFINE x == [c EXCEPT !.managed = FALSE, !.sock = FALSE, !.hard = TRUE]
  <2>1. c' = Settle(x) /\ c.managed
    BY <1>4 DEF CloseAll
  <2>2. c.alive
    BY <2>1, ReferencedIsAlive DEF Referenced
  <2>3. /\ Sound(x) /\ Orderly(x) /\ Fresh(x) /\ x.queue = c.queue
        /\ x.alive /\ x.accept = c.accept /\ x.state = c.state /\ x.read = c.read
    BY <2>2 DEF ConnectionInv, Sound, Conns, Orderly, Fresh
  <2>4. x.accept = "done" /\ x.state = "OPEN" => x.read # "none"
    BY <2>3 DEF ConnectionInv, Reading
  <2> HIDE DEF x
  <2>5. /\ Sound(c)' /\ Orderly(c)' /\ Fresh(c)' /\ Reading(c)'
        /\ c'.queue = x.queue
    BY <2>1, <2>3, <2>4, BecomesKeeps
  <2> QED BY <1>1, <2>3, <2>5 DEF ConnectionInv, Counts
<1> QED BY <1>2, <1>3, <1>4

\* A timer is fired; its handler closes what still exists.
LEMMA TimeoutsKeep ==
  ASSUME ConnectionInv, ReadTimeout \/ WriteTimeout \/ HandleTimeout, Others'
  PROVE  ConnectionInv'
<1>1. /\ accepted' = accepted /\ written' = written
      /\ c \in Conns /\ c.readTimer \in Timers /\ c.writeTimer \in Timers
  BY DEF ReadTimeout, WriteTimeout, HandleTimeout, ConnectionInv, Sound, Conns
<1>2. c.readTimer # {} \/ c.writeTimer # {}
  BY DEF ReadTimeout, WriteTimeout, HandleTimeout
<1>3. c.accept = "done"
  BY <1>2 DEF ConnectionInv, Fresh
<1> DEFINE T(r, w) == [c EXCEPT !.readTimer = r, !.writeTimer = w]
           fired == {"fired"}
           noRead == c.readTimer \ {"fired"}
           noWrite == c.writeTimer \ {"fired"}
<1>4. /\ fired \in Timers /\ noRead \in Timers /\ noWrite \in Timers
  BY <1>1 DEF Timers
<1>5. ASSUME NEW r \in Timers, NEW w \in Timers, c' = T(r, w) PROVE ConnectionInv'
  BY <1>1, <1>3, <1>5, TimersKeep
<1>6. ASSUME NEW r \in Timers, NEW w \in Timers, c.alive, c' = Settle(Close(T(r, w), TRUE))
      PROVE  ConnectionInv'
  <2> DEFINE t == T(r, w)
  <2>1. /\ t \in Conns /\ t.state = c.state /\ t.released = c.released
        /\ t.managed = c.managed /\ SameRole(c, t) /\ SameTraffic(c, t)
    BY <1>1 DEF Conns, SameRole, SameTraffic
  <2> HIDE DEF t
  <2>2. Sound(t) /\ Orderly(t) /\ t.accept = "done" /\ t.alive
    BY <1>3, <1>6, <2>1 DEF ConnectionInv, Sound, Orderly, SameRole, SameTraffic
  <2>3. t.queue =< c.queue
    BY <1>1, <2>1 DEF Conns, SameTraffic
  <2>4. c' = Settle(Close(t, TRUE))
    BY <1>6 DEF t
  <2> QED BY <1>1, <2>2, <2>3, <2>4, ClosedKeeps
<1>7. /\ [c EXCEPT !.readTimer = {"fired"}] = T(fired, c.writeTimer)
      /\ [c EXCEPT !.writeTimer = {"fired"}] = T(c.readTimer, fired)
      /\ [c EXCEPT !.readTimer = @ \ {"fired"}] = T(noRead, c.writeTimer)
      /\ [c EXCEPT !.writeTimer = @ \ {"fired"}] = T(c.readTimer, noWrite)
  BY <1>1 DEF Conns
<1> HIDE DEF T, fired, noRead, noWrite
<1>8. CASE ReadTimeout
  BY <1>1, <1>4, <1>5, <1>7, <1>8 DEF ReadTimeout
<1>9. CASE WriteTimeout
  BY <1>1, <1>4, <1>5, <1>7, <1>9 DEF WriteTimeout
<1>10. CASE HandleTimeout
  <2>1. \/ c' \in {T(noRead, c.writeTimer), T(c.readTimer, noWrite)}
        \/ /\ c.alive
           /\ c' \in {Settle(Close(T(noRead, c.writeTimer), TRUE)),
                      Settle(Close(T(c.readTimer, noWrite), TRUE))}
    BY <1>7, <1>10 DEF HandleTimeout, Becomes
  <2> QED BY <1>1, <1>4, <1>5, <1>6, <2>1
<1> QED BY <1>8, <1>9, <1>10

\* The dispatcher thread sends on the connection or closes it.
LEMMA GameKeeps ==
  ASSUME ConnectionInv, GameSends \/ GameDisconnects, Others'
  PROVE  ConnectionInv'
<1>1. /\ c.alive /\ c.protocol /\ written' = written
      /\ accepted \in 0..MaxMessages /\ written \in Nat /\ c.queue + written =< accepted
      /\ c.queue \in Nat /\ MaxMessages \in Nat
  BY ConnectionAssumption
     DEF GameSends, GameDisconnects, ConnectionInv, Counts, Sound, Conns, ConnectionAssumption
<1>2. c.accept = "done" /\ Sound(c) /\ Orderly(c) /\ (c.state = "OPEN" => c.read # "none")
  BY <1>1 DEF ConnectionInv, Fresh, Reading
<1>3. CASE GameSends
  <2>1. PICK y \in Send(c) : c' = Settle(y)
    BY <1>3 DEF GameSends, Becomes
  <2>2. /\ Sound(y) /\ Orderly(y)
        /\ SameRole(c, y)
        /\ y.read = c.read
        /\ y.state \in {c.state, "CLOSED"}
        /\ y.queue = IF c.state = "OPEN" THEN c.queue + 1 ELSE c.queue
    BY <1>2, SendKeeps
  <2>3. /\ accepted < MaxMessages
        /\ accepted' = IF c.state = "OPEN" THEN accepted + 1 ELSE accepted
    BY <1>3 DEF GameSends
  <2>4. accepted' \in 0..MaxMessages /\ written' \in Nat /\ y.queue + written' =< accepted'
    BY <1>1, <2>2, <2>3
  <2>5. y.accept = "done" /\ y.alive /\ (y.state = "OPEN" => y.read # "none")
    BY <1>1, <1>2, <2>2 DEF SameRole
  <2> QED BY <2>1, <2>2, <2>4, <2>5, AcceptedKeeps
<1>4. CASE GameDisconnects
  <2>1. c' = Settle(Close(c, FALSE)) /\ accepted' = accepted
    BY <1>4 DEF GameDisconnects, Becomes
  <2>2. c.queue =< c.queue
    BY <1>1
  <2> QED BY <1>1, <1>2, <2>1, <2>2, ClosedKeeps
<1> QED BY <1>3, <1>4

----------------------------------------------------------------------------
(* The theorems                                                            *)

\* Every step keeps the invariant.
LEMMA ConnectionInvStep == ConnectionInv /\ [ConnectionNext]_connectionVars => ConnectionInv'
<1> SUFFICES ASSUME ConnectionInv, [ConnectionNext]_connectionVars PROVE ConnectionInv'
  OBVIOUS
<1>1. CASE ConnectionNext
  <2>1. peerReads' \in BOOLEAN
    BY <1>1 DEF ConnectionNext, ConnectionInv, Others
  <2>2. failed' \in BOOLEAN
    <3>1. failed \in BOOLEAN
      BY DEF ConnectionInv, Others
    <3>2. ASSUME NEW error \in BOOLEAN, Outcome(error) PROVE failed' \in BOOLEAN
      BY <3>2, Zenon DEF Outcome
    <3>3. failed' = failed \/ \E error \in BOOLEAN : Outcome(error)
      BY <1>1, Zenon
         DEF ConnectionNext, Step, PeerConnects, OnAccept, AcceptError, ParseHeader, DropPacket,
             ParsePacket, OnWriteOperation, ReadTimeout, WriteTimeout, HandleTimeout,
             GameSends, GameDisconnects, CloseAll
    <3> QED BY <3>1, <3>2, <3>3
  <2>4. Others'
    BY <2>1, <2>2 DEF Others
  <2>5. ASSUME NEW error \in BOOLEAN,
               ParseHeader(error) \/ DropPacket(error) \/ OnWriteOperation(error)
        PROVE  ConnectionInv'
    BY <2>4, <2>5, ParseHeaderKeeps, DropPacketKeeps, OnWriteOperationKeeps
  <2>6. ASSUME NEW answers \in BOOLEAN, NEW disconnects \in BOOLEAN,
               ParsePacket(answers, disconnects)
        PROVE  ConnectionInv'
    BY <2>4, <2>6, ParsePacketKeeps
  <2>7. ASSUME PeerConnects \/ OnAccept \/ AcceptError \/ CloseAll PROVE ConnectionInv'
    BY <2>4, <2>7, OnAcceptKeeps, UnacceptedKeeps
  <2>8. ASSUME ReadTimeout \/ WriteTimeout \/ HandleTimeout PROVE ConnectionInv'
    BY <2>4, <2>8, TimeoutsKeep
  <2>9. ASSUME GameSends \/ GameDisconnects PROVE ConnectionInv'
    BY <2>4, <2>9, GameKeeps
  <2> QED BY <1>1, <2>5, <2>6, <2>7, <2>8, <2>9, Zenon DEF ConnectionNext, Step
<1>2. CASE UNCHANGED connectionVars
  BY <1>2 DEF connectionVars, moving, ConnectionInv, Sound, Orderly, Fresh, Reading, Referenced, Counts, Others
<1> QED BY <1>1, <1>2

\* However the handlers, the timers and the game interleave, every write that
\* is out writes the head of the queue, and no second one is out.
THEOREM WritesInTurn == ConnectionSpec => [](ConnectionTypeOK /\ OneWriteAtATime)
<1> QED BY ConnectionInvInit, ConnectionInvStep, IInvImplies, PTL DEF ConnectionSpec

\* However often and by whomever a connection is closed, its protocol is
\* released once, and before the object is destroyed.
THEOREM ReleasedAtClose == ConnectionSpec => []ReleasedOnce
<1> QED BY ConnectionInvInit, ConnectionInvStep, IInvImplies, PTL DEF ConnectionSpec

----------------------------------------------------------------------------
(* What a connection that is not closed by force still writes              *)

\* Unless a start threw or somebody forced the close: a message that waits has
\* a write out, an accepted open connection has its socket, the messages that
\* were accepted (a) are in the queue or written (w), and a socket that did not
\* fail (f) is given up with an empty queue only.
Delivers(x, a, w, f) ==
  ~x.hard =>
    /\ x.queue > 0 => x.writes = 1
    /\ x.accept \in {"ready", "done"} /\ x.state = "OPEN" => x.sock
    /\ ~f => x.queue + w = a
    /\ ~f /\ ~x.sock => x.queue = 0

\* y differs from x in nothing that matters here.
SameFlow(x, y) ==
  /\ y.hard = x.hard
  /\ y.queue = x.queue /\ y.writes = x.writes
  /\ y.accept = x.accept /\ y.state = x.state
  /\ y.sock = x.sock

\* Such a change keeps it.
LEMMA SameFlowDelivers ==
  ASSUME NEW x, NEW y, SameFlow(x, y), NEW a, NEW w, NEW f, Delivers(x, a, w, f)
  PROVE  Delivers(y, a, w, f)
BY DEF SameFlow, Delivers

\* Closing the socket closes the socket.
LEMMA CloseSocketFlows ==
  ASSUME NEW x \in Conns
  PROVE  LET y == CloseSocket(x)
         IN  /\ y.hard = x.hard
             /\ y.queue = x.queue /\ y.writes = x.writes
             /\ y.accept = x.accept /\ y.state = x.state
             /\ y.sock = FALSE
BY DEF CloseSocket, Conns

\* close() leaves the socket to the messages in the queue, unless it is forced.
LEMMA CloseDelivers ==
  ASSUME NEW x, Sound(x), NEW force \in BOOLEAN, NEW a, NEW w, NEW f, Delivers(x, a, w, f)
  PROVE  /\ Delivers(Close(x, force), a, w, f)
         /\ x.hard => Close(x, force).hard
<1> DEFINE y == [x EXCEPT !.managed = FALSE]
           r == IF x.protocol /\ y.released < 2 THEN y.released + 1 ELSE y.released
           z == [y EXCEPT !.state = "CLOSED", !.hard = @ \/ force, !.released = r]
<1>1. y \in Conns /\ SameFlow(x, y)
  BY DEF Sound, Conns, SameFlow
<1>2. CASE x.state = "CLOSED"
  <2>1. Close(x, force) = y
    BY <1>2 DEF Close, MayClose
  <2> HIDE DEF y
  <2> QED BY <1>1, <2>1, SameFlowDelivers DEF SameFlow
<1>3. CASE x.state = "OPEN"
  <2>1. x.hard \in BOOLEAN /\ x.queue \in Nat
    BY DEF Sound, Conns
  <2>2. /\ z \in Conns
        /\ z.hard = (x.hard \/ force) /\ z.state = "CLOSED"
        /\ z.queue = x.queue /\ z.writes = x.writes
        /\ z.accept = x.accept /\ z.sock = x.sock
    <3> DEFINE h == y.hard \/ force
    <3>1. r \in 0..2
      BY <1>1 DEF Conns
    <3>2. h \in BOOLEAN /\ h = (x.hard \/ force)
      BY <1>1 DEF SameFlow
    <3>3. z = [y EXCEPT !.state = "CLOSED", !.hard = h, !.released = r]
      OBVIOUS
    <3> HIDE DEF y, r, z, h
    <3> QED BY <1>1, <3>1, <3>2, <3>3 DEF Conns, SameFlow
  <2>3. Close(x, force) = IF x.queue = 0 \/ force THEN CloseSocket(z) ELSE z
    BY <1>3 DEF Close, MayClose, ClosesNow
  <2> HIDE DEF y, z, r
  <2>4. /\ CloseSocket(z).hard = z.hard
        /\ CloseSocket(z).queue = z.queue /\ CloseSocket(z).writes = z.writes
        /\ CloseSocket(z).accept = z.accept /\ CloseSocket(z).state = z.state
        /\ CloseSocket(z).sock = FALSE
    BY <2>2, CloseSocketFlows
  <2>5. CASE x.hard \/ force
    BY <2>2, <2>3, <2>4, <2>5 DEF Delivers
  <2>6. CASE ~x.hard /\ ~force /\ x.queue = 0
    BY <2>2, <2>3, <2>4, <2>6 DEF Delivers
  <2>7. CASE ~x.hard /\ ~force /\ x.queue # 0
    BY <2>2, <2>3, <2>7 DEF Delivers
  <2> QED BY <2>5, <2>6, <2>7
<1> QED BY <1>2, <1>3 DEF Sound, Conns

\* The start of a read takes nothing from the queue.
LEMMA StartReadDelivers ==
  ASSUME NEW x, Sound(x), NEW part \in {"header", "body"}, NEW y \in StartRead(x, part),
         NEW a, NEW w, NEW f, Delivers(x, a, w, f)
  PROVE  Delivers(y, a, w, f)
<1> DEFINE b == [x EXCEPT !.readTimer = Rearm(@)]
           d == [b EXCEPT !.read = part]
           e == [b EXCEPT !.hard = TRUE]
<1>1. SameFlow(x, d)
  BY DEF Sound, Conns, Rearm, Timers, SameFlow
<1>2. Sound(e) /\ e.hard
  BY DEF Sound, Conns, Rearm, Timers
<1>3. y = d \/ y = Close(e, TRUE)
  BY DEF StartRead, Started
<1> HIDE DEF b, d, e
<1>4. Delivers(e, a, w, f)
  BY <1>2 DEF Delivers
<1>5. Delivers(Close(e, TRUE), a, w, f)
  BY <1>2, <1>4, CloseDelivers
<1> QED BY <1>1, <1>3, <1>5, SameFlowDelivers

\* The start of a write leaves no message without one, or throws.
LEMMA InternalSendDelivers ==
  ASSUME NEW x, Sound(x), x.writes = 0, NEW y \in InternalSend(x),
         NEW a, NEW w, NEW f,
         ~x.hard =>
           /\ x.accept \in {"ready", "done"} /\ x.state = "OPEN" => x.sock
           /\ ~f => x.queue + w = a
           /\ ~f /\ ~x.sock => x.queue = 0
  PROVE  Delivers(y, a, w, f)
<1> DEFINE b == [x EXCEPT !.writeTimer = Rearm(@)]
           d == [b EXCEPT !.writes = @ + 1]
           e == [b EXCEPT !.hard = TRUE]
<1>1. b \in Conns /\ SameFlow(x, b)
  BY DEF Sound, Conns, Rearm, Timers, SameFlow
<1>2. /\ d.hard = x.hard /\ d.queue = x.queue /\ d.writes = 1
      /\ d.accept = x.accept /\ d.state = x.state /\ d.sock = x.sock
  <2> HIDE DEF b
  <2> QED BY <1>1 DEF Conns, SameFlow
<1>3. Sound(e) /\ e.hard
  BY DEF Sound, Conns, Rearm, Timers
<1>4. y = d \/ y = Close(e, TRUE)
  BY DEF InternalSend, Started
<1> HIDE DEF b, d, e
<1>5. Delivers(d, a, w, f)
  BY <1>2 DEF Delivers
<1>6. Delivers(e, a, w, f)
  BY <1>3 DEF Delivers
<1>7. Delivers(Close(e, TRUE), a, w, f)
  BY <1>3, <1>6, CloseDelivers
<1> QED BY <1>4, <1>5, <1>7

\* send() accepts a message on an open connection only, which has its socket.
LEMMA SendDelivers ==
  ASSUME NEW x, Sound(x), Orderly(x), x.accept = "done", NEW y \in Send(x),
         NEW a \in Nat, NEW w \in Nat, NEW f, Delivers(x, a, w, f)
  PROVE  Delivers(y, IF x.state = "OPEN" THEN a + 1 ELSE a, w, f)
<1> DEFINE z == [x EXCEPT !.queue = @ + 1]
<1>1. /\ Sound(z) /\ z.hard = x.hard /\ z.queue = x.queue + 1 /\ z.writes = x.writes
      /\ z.accept = x.accept /\ z.state = x.state /\ z.sock = x.sock
  BY DEF Sound, Conns
<1>2. x.queue \in Nat /\ x.writes \in Nat
  BY DEF Sound, Conns
<1>3. CASE x.state # "OPEN"
  BY <1>3 DEF Send
<1>4. CASE x.state = "OPEN" /\ x.queue = 0
  <2>1. y \in InternalSend(z)
    BY <1>4 DEF Send, NoPendingWrite
  <2> HIDE DEF z
  <2>2. z.writes = 0
    BY <1>1, <1>2, <1>4 DEF Orderly
  <2>3. ~z.hard =>
          /\ z.accept \in {"ready", "done"} /\ z.state = "OPEN" => z.sock
          /\ ~f => z.queue + w = a + 1
          /\ ~f /\ ~z.sock => z.queue = 0
    BY <1>1, <1>2, <1>4 DEF Delivers
  <2>4. Delivers(y, a + 1, w, f)
    BY <1>1, <2>1, <2>2, <2>3, InternalSendDelivers
  <2> QED BY <1>4, <2>4
<1>5. CASE x.state = "OPEN" /\ x.queue # 0
  <2>1. y = z
    BY <1>5 DEF Send, NoPendingWrite
  <2> HIDE DEF z
  <2> QED BY <1>1, <1>2, <1>5, <2>1 DEF Delivers
<1> QED BY <1>3, <1>4, <1>5

\* A connection that nothing refers to has nothing to write.
LEMMA SettleDelivers ==
  ASSUME NEW x, Sound(x), x.accept = "done" /\ x.state = "OPEN" => x.read # "none",
         NEW a, NEW w, NEW f, Delivers(x, a, w, f)
  PROVE  Delivers(Settle(x), a, w, f)
<1>1. CASE Referenced(x)
  BY <1>1 DEF Settle
<1>2. CASE ~Referenced(x)
  <2> DEFINE z == CloseSocket(x)
             y == [z EXCEPT !.alive = FALSE]
  <2>1. /\ z.hard = x.hard
        /\ z.queue = x.queue /\ z.writes = x.writes
        /\ z.accept = x.accept /\ z.state = x.state
        /\ z.sock = FALSE
        /\ z \in Conns
    BY CloseSocketFlows, CloseSocketKeeps DEF Sound
  <2>2. Settle(x) = y
    BY <1>2 DEF Settle
  <2> HIDE DEF z
  <2>3. SameFlow(z, y)
    BY <2>1 DEF Conns, SameFlow
  <2> HIDE DEF y
  <2>4. x.writes = 0 /\ x.queue \in Nat
    BY <1>2 DEF Referenced, Sound, Conns
  <2>5. ~(x.accept \in {"ready", "done"} /\ x.state = "OPEN")
    BY <1>2 DEF Referenced
  <2>6. ~x.hard => x.queue = 0
    BY <2>4 DEF Delivers
  <2>7. Delivers(z, a, w, f)
    BY <2>1, <2>4, <2>5, <2>6 DEF Delivers
  <2> QED BY <2>2, <2>3, <2>7, SameFlowDelivers
<1> QED BY <1>1, <1>2

Flow == Delivers(c, accepted, written, failed)

FlowNext == Delivers(c', accepted', written', failed')

\* The connection becomes a method's result x.
LEMMA BecomesDelivers ==
  ASSUME NEW x, Sound(x), x.accept = "done" /\ x.state = "OPEN" => x.read # "none",
         Delivers(x, accepted', written', failed'), c' = Settle(x)
  PROVE  FlowNext
BY SettleDelivers DEF FlowNext

\* The connection becomes a result of close().
LEMMA ClosedDelivers ==
  ASSUME NEW x, Sound(x), NEW force \in BOOLEAN,
         Delivers(x, accepted', written', failed'), c' = Settle(Close(x, force))
  PROVE  FlowNext
<1> DEFINE y == Close(x, force)
<1>1. Sound(y) /\ y.state = "CLOSED" /\ Delivers(y, accepted', written', failed')
  BY CloseKeeps, CloseDelivers
<1> HIDE DEF y
<1>2. c' = Settle(y)
  BY DEF y
<1> QED BY <1>1, <1>2, BecomesDelivers

\* The connection starts a read.
LEMMA ReadStartedDelivers ==
  ASSUME NEW x, Sound(x), NEW part \in {"header", "body"}, NEW y \in StartRead(x, part),
         Delivers(x, accepted', written', failed'), c' = Settle(y)
  PROVE  FlowNext
<1>1. Sound(y) /\ (y.state = "OPEN" => y.read # "none")
  BY StartReadKeeps
<1>2. Delivers(y, accepted', written', failed')
  BY StartReadDelivers
<1> QED BY <1>1, <1>2, BecomesDelivers

\* An outcome can only make the connection a failed one.
LEMMA FailingDelivers ==
  ASSUME failed => failed', NEW x, NEW a, NEW w, Delivers(x, a, w, failed)
  PROVE  Delivers(x, a, w, failed')
BY DEF Delivers

\* The end of a read is of no concern to what is written.
LEMMA ReadDoneDelivers ==
  ASSUME ConnectionInv, NEW a, NEW w, NEW f, Delivers(c, a, w, f)
  PROVE  Delivers(ReadDone, a, w, f)
<1>1. SameFlow(c, ReadDone)
  BY DEF ConnectionInv, ReadDone, Cancel, Timers, Sound, Conns, SameFlow
<1> QED BY <1>1, SameFlowDelivers

\* The handlers of a read, but for the packet that is taken.
LEMMA ReadEndsDelivers ==
  ASSUME ConnectionInv, Flow, NEW error \in BOOLEAN, ParseHeader(error) \/ DropPacket(error)
  PROVE  FlowNext
<1> DEFINE r == ReadDone
           x == [r EXCEPT !.first = TRUE]
<1>1. /\ accepted' = accepted /\ written' = written /\ Outcome(error)
      /\ c.read # "none"
  BY DEF ParseHeader, DropPacket
<1>2. Sound(r) /\ r.state = c.state
  BY <1>1, ReadDoneSound
<1>3. Delivers(r, accepted', written', failed')
  <2>1. Delivers(r, accepted, written, failed)
    BY ReadDoneDelivers DEF Flow
  <2>2. failed => failed'
    BY <1>1, Zenon DEF Outcome
  <2> HIDE DEF r
  <2>3. Delivers(r, accepted, written, failed')
    BY <1>1, <2>1, <2>2, FailingDelivers
  <2> QED BY <1>1, <2>3
<1>4. \/ \E force \in BOOLEAN : c' = Settle(Close(r, force))
      \/ c.state # "OPEN" /\ c' = Settle(r)
      \/ \E y \in StartRead(r, "body") : c' = Settle(y)
      \/ c' = Settle(Close(x, TRUE))
  BY DEF ParseHeader, DropPacket, Becomes
<1> HIDE DEF r
<1>5. Sound(x) /\ SameFlow(r, x)
  BY <1>2 DEF Sound, Conns, SameFlow
<1> HIDE DEF x
<1>6. Delivers(x, accepted', written', failed')
  BY <1>3, <1>5, SameFlowDelivers
<1> QED BY <1>2, <1>3, <1>4, <1>5, <1>6, BecomesDelivers, ClosedDelivers, ReadStartedDelivers

\* The answer to a packet is accepted before the disconnect that may follow.
LEMMA ParsePacketDelivers ==
  ASSUME ConnectionInv, Flow, NEW answers \in BOOLEAN, NEW disconnects \in BOOLEAN,
         ParsePacket(answers, disconnects)
  PROVE  FlowNext
<1> DEFINE r == ReadDone
           x == [r EXCEPT !.first = TRUE, !.protocol = TRUE]
<1>1. /\ c.read = "body" /\ c.state = "OPEN" /\ written' = written
      /\ accepted' = (IF answers THEN accepted + 1 ELSE accepted)
      /\ Outcome(FALSE)
  BY DEF ParsePacket
<1>2. accepted \in Nat /\ written \in Nat
  BY ConnectionAssumption DEF ConnectionInv, Counts, ConnectionAssumption
<1>3. Sound(r) /\ Orderly(r) /\ r.accept = "done" /\ r.state = "OPEN"
  BY <1>1, ReadDoneSound
<1>4. Delivers(r, accepted, written, failed')
  <2>1. Delivers(r, accepted, written, failed)
    BY ReadDoneDelivers DEF Flow
  <2>2. failed => failed'
    BY <1>1, Zenon DEF Outcome
  <2> HIDE DEF r
  <2> QED BY <1>1, <2>1, <2>2, FailingDelivers
<1>5. PICK y \in (IF answers THEN Send(x) ELSE {x}) :
      \E v \in StartRead(IF disconnects THEN Close(y, FALSE) ELSE y, "header") : c' = Settle(v)
  <2> HIDE DEF x
  <2>1. \E v \in UNION {StartRead(z, "header") :
            z \in IF disconnects THEN {Close(y, FALSE) : y \in IF answers THEN Send(x) ELSE {x}}
                  ELSE IF answers THEN Send(x) ELSE {x}} : c' = Settle(v)
    BY DEF ParsePacket, Becomes, x
  <2> QED BY <2>1
<1> HIDE DEF r
<1>6. Sound(x) /\ Orderly(x) /\ SameFlow(r, x)
  BY <1>3 DEF Sound, Conns, Orderly, SameFlow
<1> HIDE DEF x
<1>7. x.accept = "done" /\ x.state = "OPEN" /\ Delivers(x, accepted, written, failed')
  BY <1>3, <1>4, <1>6, SameFlowDelivers DEF SameFlow
<1>8. Sound(y) /\ Delivers(y, accepted', written', failed')
  <2>1. CASE answers
    <3>1. y \in Send(x)
      BY <1>5, <2>1
    <3>2. Sound(y)
      BY <1>6, <3>1, SendKeeps
    <3>3. Delivers(y, IF x.state = "OPEN" THEN accepted + 1 ELSE accepted, written, failed')
      BY <1>2, <1>6, <1>7, <3>1, SendDelivers
    <3> QED BY <1>1, <1>7, <2>1, <3>2, <3>3
  <2>2. CASE ~answers
    BY <1>1, <1>5, <1>6, <1>7, <2>2
  <2> QED BY <2>1, <2>2
<1> DEFINE z == IF disconnects THEN Close(y, FALSE) ELSE y
<1>9. Sound(z) /\ Delivers(z, accepted', written', failed')
  BY <1>8, CloseKeeps, CloseDelivers
<1>10. \E v \in StartRead(z, "header") : c' = Settle(v)
  BY <1>5
<1> HIDE DEF z
<1> QED BY <1>9, <1>10, ReadStartedDelivers

\* A write that fails makes the connection a failed one, unless its socket was
\* closed before: then the close was a forced one, as its message still waited.
LEMMA OnWriteOperationDelivers ==
  ASSUME ConnectionInv, Flow, NEW error \in BOOLEAN, OnWriteOperation(error)
  PROVE  FlowNext
<1> DEFINE b == [c EXCEPT !.writes = @ - 1, !.writeTimer = Cancel(@)]
           x == PopFront(b)
           e == [x EXCEPT !.queue = 0]
<1>1. /\ c.writes > 0 /\ accepted' = accepted
      /\ written' = (IF error THEN written ELSE written + 1)
      /\ Outcome(error)
      /\ \/ error /\ c' = Settle(Close(e, TRUE))
         \/ ~error /\ x.queue > 0 /\ \E y \in InternalSend(x) : c' = Settle(y)
         \/ ~error /\ ~(x.queue > 0) /\ c' = Settle(AfterLastWrite(x))
  BY DEF OnWriteOperation, Becomes
<1>2. /\ accepted \in Nat /\ written \in Nat /\ failed \in BOOLEAN
      /\ c.queue \in Nat /\ c.writes \in Nat /\ c.sock \in BOOLEAN /\ c.hard \in BOOLEAN
  BY ConnectionAssumption DEF ConnectionInv, Counts, Others, Sound, Conns, ConnectionAssumption
<1>3. c.writes = 1 /\ c.queue > 0
  BY <1>1, <1>2 DEF ConnectionInv, Orderly
<1>4. /\ c.accept = "done"
      /\ c.state = "OPEN" => c.read # "none"
  BY <1>3 DEF ConnectionInv, Fresh, Reading
<1>5. /\ Sound(x) /\ x.state = c.state /\ x.read = c.read /\ x.accept = c.accept
      /\ x.queue = c.queue - 1 /\ x.writes = 0
      /\ x.sock = c.sock /\ x.hard = c.hard
  <2>1. /\ c.queue - 1 \in Nat /\ c.writes - 1 \in Nat /\ c.writes - 1 = 0
        /\ Cancel(c.writeTimer) \in Timers
    BY <1>2, <1>3 DEF ConnectionInv, Sound, Conns, Cancel, Timers
  <2>2. c \in Conns
    BY DEF ConnectionInv, Sound
  <2>3. /\ b \in Conns /\ b.state = c.state /\ b.read = c.read /\ b.accept = c.accept
        /\ b.queue = c.queue /\ b.writes = 0
        /\ b.sock = c.sock /\ b.hard = c.hard
        /\ b.released = c.released /\ b.managed = c.managed /\ b.protocol = c.protocol
    BY <2>1, <2>2 DEF Conns
  <2> HIDE DEF b
  <2>4. b.queue - 1 \in Nat
    BY <2>1, <2>3
  <2>5. /\ x \in Conns /\ x.state = b.state /\ x.read = b.read /\ x.accept = b.accept
        /\ x.queue = b.queue - 1 /\ x.writes = b.writes
        /\ x.sock = b.sock /\ x.hard = b.hard
        /\ x.released = b.released /\ x.managed = b.managed /\ x.protocol = b.protocol
    BY <2>3, <2>4 DEF Conns, PopFront
  <2> HIDE DEF x
  <2> QED BY <2>3, <2>5 DEF ConnectionInv, Sound
<1>6. CASE error
  <2>1. c' = Settle(Close(e, TRUE)) /\ written' = written
    BY <1>1, <1>6
  <2>2. /\ Sound(e) /\ e.queue = 0 /\ e.accept = c.accept /\ e.state = c.state
        /\ e.sock = c.sock /\ e.hard = c.hard
    <3> HIDE DEF x
    <3>1. x \in Conns
      BY <1>5 DEF Sound
    <3>2. /\ e \in Conns /\ e.accept = x.accept /\ e.state = x.state
          /\ e.queue = 0 /\ e.sock = x.sock /\ e.hard = x.hard
          /\ e.protocol = x.protocol /\ e.released = x.released /\ e.managed = x.managed
      BY <3>1 DEF Conns
    <3> HIDE DEF e
    <3> QED BY <1>5, <3>2 DEF Sound
  <2>3. ~failed' => c.hard
    <3>1. failed' \/ (~failed /\ ~c.sock)
      BY <1>1, <1>2, <1>6, Zenon DEF Outcome
    <3>2. ~failed /\ ~c.sock => c.hard
      BY <1>2, <1>3 DEF Flow, Delivers
    <3> QED BY <3>1, <3>2
  <2> HIDE DEF e
  <2>4. Delivers(e, accepted', written', failed')
    <3>1. ~c.hard => (c.state = "OPEN" => c.sock)
      BY <1>4 DEF Flow, Delivers
    <3> QED BY <2>2, <2>3, <3>1 DEF Delivers
  <2> QED BY <2>1, <2>2, <2>4, ClosedDelivers
<1> HIDE DEF b, x
<1>7. ASSUME ~error PROVE
        ~x.hard =>
          /\ x.accept \in {"ready", "done"} /\ x.state = "OPEN" => x.sock
          /\ ~failed' => x.queue + written' = accepted'
          /\ ~failed' /\ ~x.sock => x.queue = 0
  <2>1. failed' = failed
    BY <1>1, <1>2, <1>7, Zenon DEF Outcome
  <2>2. written' = written + 1 /\ accepted' = accepted
    BY <1>1, <1>7
  <2> QED BY <1>2, <1>3, <1>5, <2>1, <2>2 DEF Flow, Delivers
<1>8. ASSUME ~error, NEW y \in InternalSend(x), c' = Settle(y) PROVE FlowNext
  <2>1. Sound(y) /\ (y.state = "OPEN" => y.read # "none")
    BY <1>4, <1>5, <1>8, InternalSendKeeps
  <2>2. Delivers(y, accepted', written', failed')
    BY <1>5, <1>7, <1>8, InternalSendDelivers
  <2> QED BY <1>8, <2>1, <2>2, BecomesDelivers
<1>9. ASSUME ~error, ~(x.queue > 0), c' = Settle(AfterLastWrite(x)) PROVE FlowNext
  <2>1. x \in Conns /\ x.queue \in Nat
    BY <1>5 DEF Sound, Conns
  <2>2. Delivers(x, accepted', written', failed')
    BY <1>7, <1>9, <2>1 DEF Delivers
  <2>3. CASE x.state = "CLOSED"
    <3> DEFINE y == CloseSocket(x)
    <3>1. y \in Conns /\ y.managed = x.managed /\ y.released = x.released
          /\ y.protocol = x.protocol /\ y.state = "CLOSED"
      BY <2>1, <2>3, CloseSocketKeeps DEF SameRole
    <3>2. /\ y.hard = x.hard /\ y.queue = x.queue /\ y.writes = x.writes /\ y.accept = x.accept
      BY <2>1, CloseSocketFlows
    <3>3. c' = Settle(y)
      BY <1>9, <2>3 DEF AfterLastWrite
    <3> HIDE DEF y
    <3>4. Sound(y)
      BY <1>5, <2>3, <3>1 DEF Sound
    <3>5. Delivers(y, accepted', written', failed')
      BY <1>9, <2>1, <2>2, <3>1, <3>2 DEF Delivers
    <3> QED BY <3>1, <3>3, <3>4, <3>5, BecomesDelivers
  <2>4. CASE x.state # "CLOSED"
    <3>1. c' = Settle(x)
      BY <1>9, <2>4 DEF AfterLastWrite
    <3> QED BY <1>4, <1>5, <2>2, <3>1, BecomesDelivers
  <2> QED BY <2>3, <2>4
<1> QED BY <1>1, <1>6, <1>8, <1>9

\* Who comes, is refused, or finds the services dying, loses no message.
LEMMA AcceptingDelivers ==
  ASSUME ConnectionInv, Flow, PeerConnects \/ OnAccept \/ AcceptError \/ CloseAll
  PROVE  FlowNext
<1>1. /\ accepted' = accepted /\ written' = written /\ failed' = failed
      /\ Delivers(c, accepted', written', failed') /\ Sound(c)
  BY DEF PeerConnects, OnAccept, AcceptError, CloseAll, Flow, ConnectionInv
<1>2. CASE PeerConnects
  <2> DEFINE x == [c EXCEPT !.accept = "ready", !.sock = TRUE]
  <2>1. /\ x.hard = c.hard /\ x.queue = c.queue /\ x.writes = c.writes /\ x.sock = TRUE
    BY <1>1 DEF Sound, Conns
  <2>2. c' = x
    BY <1>2 DEF PeerConnects
  <2> HIDE DEF x
  <2> QED BY <1>1, <2>1, <2>2 DEF Delivers, FlowNext
<1>3. CASE OnAccept
  <2> DEFINE x == [c EXCEPT !.accept = "done"]
             p == [x EXCEPT !.protocol = TRUE]
  <2>1. c.accept = "ready" /\ c.state = "OPEN"
    BY <1>3 DEF OnAccept, ConnectionInv, Fresh
  <2>2. /\ Sound(x) /\ x.state = "OPEN"
        /\ x.hard = c.hard /\ x.queue = c.queue /\ x.writes = c.writes /\ x.sock = c.sock
    BY <1>1, <2>1 DEF Sound, Conns
  <2>3. \/ c' = Settle(Close(x, TRUE))
        \/ \E y \in StartRead(x, "header") : c' = Settle(y)
        \/ \E y \in StartRead(p, "header") : c' = Settle(y)
    BY <1>3 DEF OnAccept, Becomes
  <2> HIDE DEF x
  <2>4. Sound(p) /\ SameFlow(x, p)
    BY <2>2 DEF Sound, Conns, SameFlow
  <2> HIDE DEF p
  <2>5. Delivers(x, accepted', written', failed')
    BY <1>1, <2>1, <2>2 DEF Delivers
  <2>6. Delivers(p, accepted', written', failed')
    BY <2>4, <2>5, SameFlowDelivers
  <2> QED BY <2>2, <2>3, <2>4, <2>5, <2>6, ClosedDelivers, ReadStartedDelivers
<1>4. CASE AcceptError
  <2> DEFINE x == [c EXCEPT !.accept = "failed"]
  <2>1. c' = Settle(x) /\ c.accept = "pending"
    BY <1>4 DEF AcceptError, Becomes
  <2>2. /\ Sound(x) /\ x.accept = "failed"
        /\ x.hard = c.hard /\ x.queue = c.queue /\ x.writes = c.writes /\ x.sock = c.sock
    BY <1>1 DEF Sound, Conns
  <2> HIDE DEF x
  <2>3. Delivers(x, accepted', written', failed')
    BY <1>1, <2>2 DEF Delivers
  <2> QED BY <2>1, <2>2, <2>3, BecomesDelivers
<1>5. CASE CloseAll
  <2> DEFINE x == [c EXCEPT !.managed = FALSE, !.sock = FALSE, !.hard = TRUE]
  <2>1. c' = Settle(x)
    BY <1>5 DEF CloseAll
  <2>2. /\ Sound(x) /\ x.hard
        /\ x.accept = c.accept /\ x.state = c.state /\ x.read = c.read
    BY <1>1 DEF Sound, Conns
  <2>3. x.accept = "done" /\ x.state = "OPEN" => x.read # "none"
    BY <2>2 DEF ConnectionInv, Reading
  <2> HIDE DEF x
  <2>4. Delivers(x, accepted', written', failed')
    BY <2>2 DEF Delivers
  <2> QED BY <2>1, <2>2, <2>3, <2>4, BecomesDelivers
<1> QED BY <1>2, <1>3, <1>4, <1>5

\* A timer closes by force or only changes itself; the game sends and closes.
LEMMA TimersAndGameDeliver ==
  ASSUME ConnectionInv, Flow,
         ReadTimeout \/ WriteTimeout \/ HandleTimeout \/ GameSends \/ GameDisconnects
  PROVE  FlowNext
<1>1. written' = written /\ failed' = failed /\ Sound(c) /\ Orderly(c)
  BY DEF ReadTimeout, WriteTimeout, HandleTimeout, GameSends, GameDisconnects, ConnectionInv
<1>2. ASSUME NEW t, Sound(t), SameFlow(c, t), accepted' = accepted,
             c' = t \/ c' = Settle(Close(t, TRUE))
      PROVE  FlowNext
  <2>1. Delivers(t, accepted', written', failed')
    BY <1>1, <1>2, SameFlowDelivers DEF Flow
  <2> QED BY <1>2, <2>1, ClosedDelivers DEF FlowNext
<1>3. CASE ReadTimeout \/ WriteTimeout \/ HandleTimeout
  <2> DEFINE rf == [c EXCEPT !.readTimer = {"fired"}]
             wf == [c EXCEPT !.writeTimer = {"fired"}]
             rn == [c EXCEPT !.readTimer = @ \ {"fired"}]
             wn == [c EXCEPT !.writeTimer = @ \ {"fired"}]
  <2>1. accepted' = accepted
    BY <1>3 DEF ReadTimeout, WriteTimeout, HandleTimeout
  <2>2. \E t \in {rf, wf, rn, wn} : c' = t \/ c' = Settle(Close(t, TRUE))
    BY <1>3 DEF ReadTimeout, WriteTimeout, HandleTimeout, Becomes
  <2>3. Sound(rf) /\ SameFlow(c, rf) /\ Sound(wf) /\ SameFlow(c, wf)
    BY <1>1 DEF Sound, Conns, Timers, SameFlow
  <2>4. Sound(rn) /\ SameFlow(c, rn)
    BY <1>1 DEF Sound, Conns, Timers, SameFlow
  <2>5. Sound(wn) /\ SameFlow(c, wn)
    BY <1>1 DEF Sound, Conns, Timers, SameFlow
  <2> HIDE DEF rf, wf, rn, wn
  <2> QED BY <1>2, <2>1, <2>2, <2>3, <2>4, <2>5
<1>4. CASE GameSends
  <2>1. PICK y \in Send(c) : c' = Settle(y)
    BY <1>4 DEF GameSends, Becomes
  <2>2. c.accept = "done" /\ c.alive /\ (c.state = "OPEN" => c.read # "none")
    BY <1>4 DEF GameSends, ConnectionInv, Fresh, Reading
  <2>3. Sound(y) /\ y.read = c.read /\ y.state \in {c.state, "CLOSED"}
    BY <1>1, <2>1, SendKeeps
  <2>4. accepted \in Nat /\ written \in Nat
    BY ConnectionAssumption DEF ConnectionInv, Counts, ConnectionAssumption
  <2>5. Delivers(y, IF c.state = "OPEN" THEN accepted + 1 ELSE accepted, written, failed)
    BY <1>1, <2>1, <2>2, <2>4, SendDelivers DEF Flow
  <2>6. Delivers(y, accepted', written', failed')
    BY <1>1, <1>4, <2>5 DEF GameSends
  <2> QED BY <2>1, <2>2, <2>3, <2>6, BecomesDelivers
<1>5. CASE GameDisconnects
  <2>1. c' = Settle(Close(c, FALSE)) /\ accepted' = accepted
    BY <1>5 DEF GameDisconnects, Becomes
  <2> QED BY <1>1, <2>1, ClosedDelivers DEF Flow
<1> QED BY <1>3, <1>4, <1>5

\* Every step lets the accepted messages be written.
LEMMA FlowStep == ConnectionInv /\ Flow /\ [ConnectionNext]_connectionVars => Flow'
<1> SUFFICES ASSUME ConnectionInv, Flow, [ConnectionNext]_connectionVars PROVE FlowNext
  BY DEF Flow, FlowNext, Delivers
<1>1. CASE ConnectionNext
  <2>1. ASSUME NEW error \in BOOLEAN,
               ParseHeader(error) \/ DropPacket(error) \/ OnWriteOperation(error)
        PROVE  FlowNext
    BY <2>1, ReadEndsDelivers, OnWriteOperationDelivers
  <2>2. ASSUME NEW answers \in BOOLEAN, NEW disconnects \in BOOLEAN,
               ParsePacket(answers, disconnects)
        PROVE  FlowNext
    BY <2>2, ParsePacketDelivers
  <2>3. ASSUME PeerConnects \/ OnAccept \/ AcceptError \/ CloseAll PROVE FlowNext
    BY <2>3, AcceptingDelivers
  <2>4. ASSUME ReadTimeout \/ WriteTimeout \/ HandleTimeout \/ GameSends \/ GameDisconnects
        PROVE  FlowNext
    BY <2>4, TimersAndGameDeliver
  <2> QED BY <1>1, <2>1, <2>2, <2>3, <2>4, Zenon DEF ConnectionNext, Step
<1>2. CASE UNCHANGED connectionVars
  BY <1>2 DEF connectionVars, moving, Flow, FlowNext
<1> QED BY <1>1, <1>2

\* Whatever interleaves: a connection that nobody closed by force and that did
\* not break off gives up its socket only when send() has accepted nothing that
\* onWriteOperation() has not written; the reason of a disconnect arrives.
THEOREM LastWordsArrive == ConnectionSpec => []GracefulDelivers
<1>1. ConnectionInit => Flow
  BY DEF ConnectionInit, Flow, Delivers
<1>2. ConnectionInv /\ Flow => GracefulDelivers
  <2>1. SUFFICES ASSUME ConnectionInv, Flow PROVE GracefulDelivers
    OBVIOUS
  <2>2. accepted \in Nat /\ written \in Nat
    BY <2>1, ConnectionAssumption DEF ConnectionInv, Counts, ConnectionAssumption
  <2> QED BY <2>1, <2>2 DEF Flow, Delivers, GracefulDelivers
<1> QED BY <1>1, <1>2, ConnectionInvInit, ConnectionInvStep, FlowStep, PTL DEF ConnectionSpec

=============================================================================
