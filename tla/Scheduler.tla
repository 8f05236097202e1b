------------------------------ MODULE Scheduler ------------------------------
(***************************************************************************)
(* The Scheduler of scheduler.cpp / scheduler.h: a thread that keeps a     *)
(* priority queue of delayed SchedulerTasks and hands each one, when its   *)
(* cycle has come, to the Dispatcher.  Any other thread may add events,    *)
(* cancel them by id, or stop and shut the scheduler down.                 *)
(*                                                                         *)
(* m_eventLock is never held across a blocking call other than the wait on *)
(* m_eventSignal, so each critical section is one action.  Everything that *)
(* happens outside the lock is an action of its own: the loop test of      *)
(* line 40, the notify_one after the unlock of addEvent, the re-acquiring  *)
(* of the lock after a wait and the hand-over to the Dispatcher.           *)
(***************************************************************************)
EXTENDS Integers, FiniteSets

CONSTANTS
  NULL,             \* no task
  Events,           \* SchedulerTask objects; each is created for one addEvent
  Threads,          \* the threads that call addEvent
  Delays,           \* the delays asked for, in units of SCHEDULER_MINTICKS
  Horizon,          \* bound: time stops here
  IdMax,            \* the largest event id, 0xFFFFFFFF in the code
  SpuriousWakeups   \* may a wait on m_eventSignal return without a notify?

ASSUME SchedulerAssumption ==
  /\ NULL \notin Events
  /\ Delays \subseteq Nat \ {0}
  /\ Horizon \in Nat
  /\ IdMax \in Nat \ {0}
  /\ SpuriousWakeups \in BOOLEAN

VARIABLES
  threadState,      \* m_threadState
  eventList,        \* m_eventList, a priority queue on cycle
  eventIds,         \* m_eventIds, the ids that are still active
  lastEvent,        \* m_lastEvent
  eventId,          \* SchedulerTask::m_eventId of each event
  cycle,            \* Task::m_expiration of each event, see getCycle()
  pc,               \* where the scheduler thread is
  deadline,         \* the time its timed_wait was given
  action,           \* its local: the wait was ended by a notify
  task,             \* its local: the popped task it will hand over
  signalling,       \* threads that unlocked in addEvent and still have to notify
  now,              \* system time
  fate,             \* history: what became of each event
  cancelled         \* history: the events stopEvent answered TRUE for

fields  == <<threadState, eventList, eventIds, lastEvent, eventId, cycle>>
locals  == <<pc, deadline, action, task>>
history == <<fate, cancelled>>
vars    == <<fields, locals, signalling, now, history>>

States == {"RUNNING", "CLOSING", "TERMINATED"}
Places == {"test", "lock", "wait", "timed_wait", "relock", "hand_over",
           "ended", "undefined"}
Fates  == {"new", "refused", "queued", "popped", "handed", "discarded", "dropped"}

TypeOK ==
  /\ threadState \in States
  /\ eventList \in SUBSET Events
  /\ eventIds \in SUBSET (1..IdMax)
  /\ lastEvent \in 0..IdMax
  /\ eventId \in [Events -> 0..IdMax]
  /\ cycle \in [Events -> 0..Horizon]
  /\ pc \in Places
  /\ deadline \in 0..Horizon
  /\ action \in BOOLEAN
  /\ task \in Events \cup {NULL}
  /\ signalling \in SUBSET Threads
  /\ now \in 0..Horizon
  /\ fate \in [Events -> Fates]
  /\ cancelled \in SUBSET Events

Init ==
  /\ threadState = "RUNNING"
  /\ eventList = {}
  /\ eventIds = {}
  /\ lastEvent = 0
  /\ eventId = [e \in Events |-> 0]
  /\ cycle = [e \in Events |-> 0]
  /\ pc = "test"
  /\ deadline = 0
  /\ action = FALSE
  /\ task = NULL
  /\ signalling = {}
  /\ now = 0
  /\ fate = [e \in Events |-> "new"]
  /\ cancelled = {}

----------------------------------------------------------------------------
(* Operations that other threads call.                                     *)

\* The events m_eventList.top() may return: the heap leaves ties open.
Tops == {e \in eventList : \A f \in eventList : cycle[e] =< cycle[f]}

\* The id counter skips 0 when it wraps: 0 means "no id yet".
NextId == IF lastEvent >= IdMax THEN 1 ELSE lastEvent + 1

\* Mutant: signal only if the list was empty.
SignalsIfEmpty(c) == eventList = {}

\* An event of cycle c becomes the top, and the thread has to be told, if it
\* is due strictly before all others.
Signals(c) == \A f \in eventList : c < cycle[f]

\* Mutants: every queued event counts as active; ids stay in m_eventIds.
AlwaysActive(e) == TRUE
Kept(e) == eventIds

\* Was event e added and neither run nor stopped since?
IsActive(e) == eventId[e] \in eventIds

Erased(e) == eventIds \ {eventId[e]}

\* addEvent(createSchedulerTask(d, ...)) by thread t.
AddEvent(t, e, d) ==
  /\ t \notin signalling
  /\ fate[e] = "new"
  /\ now + d =< Horizon
  /\ threadState = "RUNNING"
  /\ lastEvent' = NextId
  /\ eventId' = [eventId EXCEPT ![e] = NextId]
  /\ eventIds' = eventIds \cup {NextId}
  /\ eventList' = eventList \cup {e}
  /\ cycle' = [cycle EXCEPT ![e] = now + d]
  /\ signalling' = IF Signals(now + d) THEN signalling \cup {t} ELSE signalling
  /\ fate' = [fate EXCEPT ![e] = "queued"]
  /\ UNCHANGED <<threadState, locals, now, cancelled>>

\* addEvent once the scheduler is closing: the event is neither queued nor
\* freed, and the caller is given the id 0.
RefuseEvent(t, e) ==
  /\ t \notin signalling
  /\ fate[e] = "new"
  /\ threadState # "RUNNING"
  /\ fate' = [fate EXCEPT ![e] = "refused"]
  /\ UNCHANGED <<fields, locals, signalling, now, cancelled>>

\* The end of addEvent: m_eventSignal.notify_one(), after the unlock.
Notify(t) ==
  /\ t \in signalling
  /\ signalling' = signalling \ {t}
  /\ IF pc \in {"wait", "timed_wait"}
     THEN pc' = "relock" /\ action' = (pc = "timed_wait")
     ELSE UNCHANGED <<pc, action>>
  /\ UNCHANGED <<fields, deadline, task, now, history>>

\* stopEvent(id of e), by a caller whose addEvent has returned.
StopEvent(e) ==
  /\ eventId[e] \in eventIds
  /\ eventIds' = Erased(e)
  /\ cancelled' = cancelled \cup {e}
  /\ UNCHANGED <<threadState, eventList, lastEvent, eventId, cycle, locals,
                 signalling, now, fate>>

\* stop() and shutdown(): neither notifies m_eventSignal.
Stop ==
  /\ threadState' = "CLOSING"
  /\ UNCHANGED <<eventList, eventIds, lastEvent, eventId, cycle, locals,
                 signalling, now, history>>

Shutdown ==
  /\ threadState' = "TERMINATED"
  /\ eventList' = {}
  /\ eventIds' = {}
  /\ fate' = [e \in Events |-> IF e \in eventList THEN "dropped" ELSE fate[e]]
  /\ UNCHANGED <<lastEvent, eventId, cycle, locals, signalling, now, cancelled>>

----------------------------------------------------------------------------
(* schedulerThread()                                                       *)

\* The unlocked test of m_threadState at the head of the loop.
TestState ==
  /\ pc = "test"
  /\ pc' = IF threadState = "TERMINATED" THEN "ended" ELSE "lock"
  /\ task' = NULL
  /\ action' = FALSE
  /\ UNCHANGED <<fields, deadline, signalling, now, history>>

\* Nothing queued: wait for a signal, with no deadline.
Wait ==
  /\ pc = "lock"
  /\ eventList = {}
  /\ pc' = "wait"
  /\ UNCHANGED <<fields, deadline, action, task, signalling, now, history>>

\* Wait for a signal until the top event is due.
TimedWait ==
  /\ pc = "lock"
  /\ \E e \in Tops : deadline' = cycle[e]
  /\ pc' = "timed_wait"
  /\ UNCHANGED <<fields, action, task, signalling, now, history>>

Timeout ==
  /\ pc = "timed_wait"
  /\ deadline =< now
  /\ pc' = "relock"
  /\ action' = FALSE
  /\ UNCHANGED <<fields, deadline, task, signalling, now, history>>

\* A condition variable may wake its waiter for no reason; timed_wait then
\* returns TRUE, as it does for a notify.
SpuriousWakeup ==
  /\ SpuriousWakeups
  /\ pc \in {"wait", "timed_wait"}
  /\ pc' = "relock"
  /\ action' = (pc = "timed_wait")
  /\ UNCHANGED <<fields, deadline, task, signalling, now, history>>

\* The thread has the lock again and takes this wake-up for a timeout.
TakesTop == pc = "relock" /\ ~action /\ threadState # "TERMINATED"

\* A notify, or a shutdown while it slept: start over.
StartOver ==
  /\ pc = "relock"
  /\ action \/ threadState = "TERMINATED"
  /\ pc' = "test"
  /\ UNCHANGED <<fields, deadline, action, task, signalling, now, history>>

\* The top event is still active: take it off the queue to run it.
PopActive(e) ==
  /\ TakesTop
  /\ e \in Tops
  /\ IsActive(e)
  /\ eventList' = eventList \ {e}
  /\ eventIds' = Erased(e)
  /\ task' = e
  /\ pc' = "hand_over"
  /\ fate' = [fate EXCEPT ![e] = "popped"]
  /\ UNCHANGED <<threadState, lastEvent, eventId, cycle, deadline, action,
                 signalling, now, cancelled>>

\* The top event was stopped: it is deleted.
PopStopped(e) ==
  /\ TakesTop
  /\ e \in Tops
  /\ ~IsActive(e)
  /\ eventList' = eventList \ {e}
  /\ pc' = "test"
  /\ fate' = [fate EXCEPT ![e] = "discarded"]
  /\ UNCHANGED <<threadState, eventIds, lastEvent, eventId, cycle, deadline,
                 action, task, signalling, now, cancelled>>

\* top() and pop() of an empty priority queue: undefined behaviour, taken
\* here to be the end of the process.
PopEmpty ==
  /\ TakesTop
  /\ eventList = {}
  /\ pc' = "undefined"
  /\ UNCHANGED <<fields, deadline, action, task, signalling, now, history>>

\* Dispatcher::addTask(task, true), outside the lock.
HandOver ==
  /\ pc = "hand_over"
  /\ pc' = "test"
  /\ fate' = [fate EXCEPT ![task] = "handed"]
  /\ UNCHANGED <<fields, deadline, action, task, signalling, now, cancelled>>

Tick ==
  /\ now < Horizon
  /\ now' = now + 1
  /\ UNCHANGED <<fields, locals, signalling, history>>

----------------------------------------------------------------------------
SchedulerThread ==
  \/ TestState
  \/ Wait
  \/ TimedWait
  \/ Timeout
  \/ StartOver
  \/ \E e \in Events : PopActive(e) \/ PopStopped(e)
  \/ PopEmpty
  \/ HandOver

Callers ==
  \/ \E t \in Threads, e \in Events :
       (\E d \in Delays : AddEvent(t, e, d)) \/ RefuseEvent(t, e)
  \/ \E t \in Threads : Notify(t)
  \/ \E e \in Events : StopEvent(e)
  \/ Stop
  \/ Shutdown

\* Undefined behaviour ends the process: no step follows it.
Running == pc # "undefined"

Next == Running /\ (SchedulerThread \/ SpuriousWakeup \/ Callers \/ Tick)

Spec == Init /\ [][Next]_vars

\* The operating system runs the scheduler thread and a thread that is about
\* to notify, and time passes.  A wait whose deadline is over is not woken
\* spuriously for ever instead.  Nobody has to call anything.
Fairness ==
  /\ WF_vars(Running /\ SchedulerThread)
  /\ SF_vars(Running /\ Timeout)
  /\ \A t \in Threads : WF_vars(Running /\ Notify(t))
  /\ WF_vars(Running /\ Tick)

FairSpec == Spec /\ Fairness

----------------------------------------------------------------------------
(* Properties                                                              *)

\* Until the id counter wraps, ids are not reused.
IdsSuffice == IsFiniteSet(Events) /\ Cardinality(Events) =< IdMax

\* stopEvent answers TRUE only for an event that will not run, whatever the
\* scheduler thread was doing when it was called (scheduler.cpp 54-63, 127).
CancelledNeverRuns ==
  \A e \in cancelled : fate[e] \notin {"popped", "handed"}

\* Every id in m_eventIds belongs to an event that is still queued: an id is
\* erased by whoever stops, runs or drops its event, so that a later stopEvent
\* with it answers FALSE.
IdsAreQueued ==
  \A i \in eventIds : \E e \in eventList : eventId[e] = i

\* An event is thrown away unrun only if it was stopped (scheduler.cpp:81,
\* "was stopped, have to be deleted here").
DiscardedWasStopped ==
  \A e \in Events : fate[e] = "discarded" => e \in cancelled

\* No lost wake-up: once every caller has notified, the thread does not sleep
\* on a queue with events, nor beyond the cycle of any of them.
NoLostWakeup ==
  signalling = {} =>
    /\ pc = "wait" => eventList = {}
    /\ pc = "timed_wait" => \A e \in eventList : deadline =< cycle[e]

Status ==
  [e \in Events |->
     IF fate[e] \in {"popped", "handed"} THEN "fired"
     ELSE IF e \in cancelled THEN "cancelled"
     ELSE IF fate[e] = "new" THEN "new"
     ELSE IF fate[e] = "queued" THEN "active" ELSE "lost"]

Timer == INSTANCE EventTimer WITH status <- Status

\* The scheduler provides the event service of EventTimer: at most one of
\* running and cancelling takes effect on an event, and once.
ImplementsTimer == Timer!Spec
=============================================================================
