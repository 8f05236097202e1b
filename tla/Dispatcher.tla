----------------------------- MODULE Dispatcher -----------------------------
(***************************************************************************)
(* The Dispatcher of dispatcher.cpp / dispatcher.h: the one thread that    *)
(* runs the game.  Every other thread appends tasks to m_taskList; the     *)
(* Scheduler puts its due events in front.  The thread also executes       *)
(* Dispatcher::shutdown(), from inside a task, and that flushes what is    *)
(* left of the queue with m_taskLock held.                                 *)
(*                                                                         *)
(* m_taskLock is not recursive, so a flushed task that itself calls        *)
(* addTask blocks its own thread (BlockOnOwnLock).  What a task computes   *)
(* is abstracted to the calls it makes on the Dispatcher.                  *)
(***************************************************************************)
EXTENDS Integers, Sequences, FiniteSets, SequencesExt

CONSTANTS
  NULL,             \* no task
  Tasks,            \* Task objects; each is added once
  Threads,          \* the other threads that call addTask
  Self              \* the dispatcher thread, as a caller of addTask

ASSUME DispatcherAssumption ==
  /\ NULL \notin Tasks
  /\ Self \notin Threads

VARIABLES
  threadState,      \* m_threadState
  taskList,         \* m_taskList
  perishable,       \* tasks with an m_expiration
  expired,          \* those of them whose m_expiration is over
  pc,               \* where the dispatcher thread is
  task,             \* its local: the task it took off the list
  signalling,       \* threads that unlocked in addTask and still have to notify
  fate,             \* history: what became of each task
  added,            \* history: the accepted tasks, the ones added at the back
                    \* in the order of their addTask
  ran               \* history: the tasks that were run, in that order

fields  == <<threadState, taskList, perishable>>
history == <<fate, added, ran>>
vars    == <<fields, expired, pc, task, signalling, history>>

States == {"RUNNING", "CLOSING", "TERMINATED"}
Places == {"test", "lock", "wait", "relock", "taken", "run", "flush",
           "flush_run", "ended", "deadlocked"}
Fates  == {"new", "refused", "queued", "run", "expired"}

TypeOK ==
  /\ threadState \in States
  /\ taskList \in Seq(Tasks)
  /\ perishable \in SUBSET Tasks
  /\ expired \in SUBSET perishable
  /\ pc \in Places
  /\ task \in Tasks \cup {NULL}
  /\ signalling \in SUBSET (Threads \cup {Self})
  /\ fate \in [Tasks -> Fates]
  /\ added \in Seq(Tasks)
  /\ ran \in Seq(Tasks)

Init ==
  /\ threadState = "RUNNING"
  /\ taskList = <<>>
  /\ perishable = {}
  /\ expired = {}
  /\ pc = "test"
  /\ task = NULL
  /\ signalling = {}
  /\ fate = [k \in Tasks |-> "new"]
  /\ added = <<>>
  /\ ran = <<>>

----------------------------------------------------------------------------
(* Operations that other threads, and running tasks, call.                 *)

\* dispatcher::shutdown() keeps m_taskLock while it flushes.
LockIsFree == pc \notin {"flush", "flush_run", "deadlocked"}

\* The dispatcher thread calls addTask only from within a task.
MayCall(t) == t \notin signalling /\ (t = Self => pc = "run")

\* Mutants: the list is tested after the push; front and back are swapped.
NeverSignals == FALSE
InsertSwapped(k, front) == IF front THEN Append(taskList, k) ELSE <<k>> \o taskList

Signals == taskList = <<>>

Insert(k, front) == IF front THEN <<k>> \o taskList ELSE Append(taskList, k)

Rest == Tail(taskList)

Accepts == threadState = "RUNNING"

\* addTask(k, front) by thread t; ms tells whether k was given an expiration.
AddTask(t, k, front, ms) ==
  /\ MayCall(t)
  /\ LockIsFree
  /\ fate[k] = "new"
  /\ Accepts
  /\ taskList' = Insert(k, front)
  /\ added' = IF front THEN added ELSE Append(added, k)
  /\ perishable' = IF ms THEN perishable \cup {k} ELSE perishable
  /\ signalling' = IF Signals THEN signalling \cup {t} ELSE signalling
  /\ fate' = [fate EXCEPT ![k] = "queued"]
  /\ UNCHANGED <<threadState, expired, pc, task, ran>>

\* addTask once the dispatcher is closing: the task is neither queued nor freed.
RefuseTask(t, k) ==
  /\ MayCall(t)
  /\ LockIsFree
  /\ fate[k] = "new"
  /\ ~Accepts
  /\ fate' = [fate EXCEPT ![k] = "refused"]
  /\ UNCHANGED <<fields, expired, pc, task, signalling, added, ran>>

\* The end of addTask: m_taskSignal.notify_one(), after the unlock.
Notify(t) ==
  /\ t \in signalling
  /\ signalling' = signalling \ {t}
  /\ pc' = IF pc = "wait" THEN "relock" ELSE pc
  /\ UNCHANGED <<fields, expired, task, history>>

Stop ==
  /\ LockIsFree
  /\ threadState' = "CLOSING"
  /\ UNCHANGED <<taskList, perishable, expired, pc, task, signalling, history>>

\* shutdown(), called by the running task: from here on it holds the lock.
Shutdown ==
  /\ pc = "run"
  /\ threadState' = "TERMINATED"
  /\ pc' = "flush"
  /\ UNCHANGED <<taskList, perishable, expired, task, signalling, history>>

----------------------------------------------------------------------------
(* dispatcherThread()                                                      *)

\* The unlocked test of m_threadState at the head of the loop.
TestState ==
  /\ pc = "test"
  /\ pc' = IF threadState = "TERMINATED" THEN "ended" ELSE "lock"
  /\ task' = NULL
  /\ UNCHANGED <<fields, expired, signalling, history>>

Wait ==
  /\ pc = "lock"
  /\ taskList = <<>>
  /\ pc' = "wait"
  /\ UNCHANGED <<fields, expired, task, signalling, history>>

SpuriousWakeup ==
  /\ pc = "wait"
  /\ pc' = "relock"
  /\ UNCHANGED <<fields, expired, task, signalling, history>>

HasLock == pc = "relock" \/ (pc = "lock" /\ taskList # <<>>)

MayTake == taskList # <<>> /\ threadState # "TERMINATED"

Take ==
  /\ HasLock
  /\ MayTake
  /\ task' = Head(taskList)
  /\ taskList' = Rest
  /\ pc' = "taken"
  /\ UNCHANGED <<threadState, perishable, expired, signalling, history>>

NothingToTake ==
  /\ HasLock
  /\ ~MayTake
  /\ pc' = "test"
  /\ UNCHANGED <<fields, expired, task, signalling, history>>

Became(k, f) == fate' = [fate EXCEPT ![k] = f]

Run ==
  /\ pc = "taken"
  /\ task \notin expired
  /\ pc' = "run"
  /\ Became(task, "run")
  /\ ran' = Append(ran, task)
  /\ UNCHANGED <<fields, expired, task, signalling, added>>

Skip ==
  /\ pc = "taken"
  /\ task \in expired
  /\ pc' = "test"
  /\ Became(task, "expired")
  /\ UNCHANGED <<fields, expired, task, signalling, added, ran>>

\* The task returns and is deleted; a call of addTask in it has notified.
Return ==
  /\ pc = "run"
  /\ Self \notin signalling
  /\ pc' = "test"
  /\ UNCHANGED <<fields, expired, task, signalling, history>>

\* flush(): run the next remaining task, expired or not, under the lock.
FlushNext ==
  /\ pc = "flush"
  /\ taskList # <<>>
  /\ taskList' = Rest
  /\ pc' = "flush_run"
  /\ Became(Head(taskList), "run")
  /\ ran' = Append(ran, Head(taskList))
  /\ UNCHANGED <<threadState, perishable, expired, task, signalling, added>>

FlushReturn ==
  /\ pc = "flush_run"
  /\ pc' = "flush"
  /\ UNCHANGED <<fields, expired, task, signalling, history>>

\* A flushed task calls addTask and waits for the lock its own thread holds.
BlockOnOwnLock ==
  /\ pc = "flush_run"
  /\ pc' = "deadlocked"
  /\ UNCHANGED <<fields, expired, task, signalling, history>>

\* The queue is empty: shutdown() unlocks and returns to its task.
FlushEnd ==
  /\ pc = "flush"
  /\ taskList = <<>>
  /\ pc' = "run"
  /\ UNCHANGED <<fields, expired, task, signalling, history>>

\* Time passes: DISPATCHER_TASK_EXPIRATION is over for k.
Expire(k) ==
  /\ k \in perishable \ expired
  /\ expired' = expired \cup {k}
  /\ UNCHANGED <<fields, pc, task, signalling, history>>

----------------------------------------------------------------------------
DispatcherThread ==
  \/ TestState
  \/ Wait
  \/ Take
  \/ NothingToTake
  \/ Run
  \/ Skip
  \/ Return
  \/ FlushNext
  \/ FlushReturn
  \/ FlushEnd

Callers ==
  \/ \E t \in Threads \cup {Self}, k \in Tasks :
       (\E front, ms \in BOOLEAN : AddTask(t, k, front, ms)) \/ RefuseTask(t, k)
  \/ \E t \in Threads \cup {Self} : Notify(t)
  \/ Stop
  \/ Shutdown

Next ==
  \/ DispatcherThread
  \/ SpuriousWakeup
  \/ BlockOnOwnLock
  \/ Callers
  \/ \E k \in Tasks : Expire(k)

Spec == Init /\ [][Next]_vars

\* The operating system runs the dispatcher thread, tasks return, and a thread
\* that is about to notify gets there.
Fairness ==
  /\ WF_vars(DispatcherThread)
  /\ \A t \in Threads \cup {Self} : WF_vars(Notify(t))

FairSpec == Spec /\ Fairness

----------------------------------------------------------------------------
(* Properties                                                              *)

Settled(k) == fate[k] \in {"run", "expired"}

\* No lost wake-up: addTask signals only when the list was empty, and still the
\* thread never sleeps on a list with tasks once every caller has notified.
NoLostWakeup ==
  pc = "wait" /\ signalling = {} => taskList = <<>>

\* Tasks added at the back are settled (run, or found expired) in the order in
\* which they were added, whatever the Scheduler pushes in front of them and
\* also when shutdown flushes the list.  No task is run twice, by the thread or
\* by the flush.
InOrder ==
  /\ \A i, j \in DOMAIN added :
       i < j /\ Settled(added[j]) => Settled(added[i])
  /\ \A i, j \in DOMAIN ran : i # j => ran[i] # ran[j]

\* Every accepted task is in the end run, or found expired, unless a flushed
\* task has called addTask under the lock its own thread holds: so the thread
\* does not end with tasks on the list.
AcceptedIsSettled ==
  \A k \in Tasks : (fate[k] = "queued") ~> (Settled(k) \/ pc = "deadlocked")
=============================================================================
