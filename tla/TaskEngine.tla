----------------------------- MODULE TaskEngine -----------------------------
(***************************************************************************)
(* The Scheduler and the Dispatcher at work together, and how the server   *)
(* is brought down: the scheduler thread hands its events to the           *)
(* dispatcher thread; running tasks add tasks, add and cancel events; a    *)
(* Game::setGameState(GAMESTATE_SHUTDOWN) task or the SIGTERM handler      *)
(* queues Game::shutdown, which shuts both engines down from inside the    *)
(* dispatcher thread; and main() joins the two threads.                    *)
(***************************************************************************)
EXTENDS Integers, Sequences, FiniteSets

CONSTANTS
  NULL,
  Events,           \* scheduled tasks
  Plain,            \* other tasks of the game and of the network
  Quits,            \* Game::setGameState(GAMESTATE_SHUTDOWN) tasks
  Downs,            \* Game::shutdown tasks
  Delays, Horizon, IdMax, SpuriousWakeups,    \* see Scheduler
  Self, SThread,    \* the dispatcher thread and the scheduler thread
  Main, Net,        \* the thread of main(): its signal handler, its handlers of asio
  SigTerm           \* may the process be sent a SIGTERM?

ASSUME EngineAssumption ==
  /\ \A A, B \in {Events, Plain, Quits, Downs} : A # B => A \cap B = {}
  /\ Cardinality({Self, SThread, Main, Net}) = 4
  /\ SigTerm \in BOOLEAN

VARIABLES
  sState, eventList, eventIds, lastEvent, eventId, cycle, sPc, deadline,
  action, event, sSignalling, now, eventFate, cancelled,    \* of the Scheduler
  dState, taskList, perishable, expired, dPc, task, dSignalling, taskFate,
  added, ran,                                               \* of the Dispatcher
  step,             \* how far the running Quit or Down task is
  gameShutdown,     \* gameState = GAMESTATE_SHUTDOWN
  main,             \* where main() is
  net,              \* is a handler of asio inside of addTask, with m_taskLock?
  sig               \* how far the SIGTERM handler is

S == INSTANCE Scheduler WITH
       Threads <- {Self, Net}, threadState <- sState, pc <- sPc,
       task <- event, signalling <- sSignalling, fate <- eventFate

D == INSTANCE Dispatcher WITH
       Tasks <- Events \cup Plain \cup Quits \cup Downs,
       Threads <- {SThread, Main, Net}, threadState <- dState, pc <- dPc,
       signalling <- dSignalling, fate <- taskFate

sVars == <<sState, eventList, eventIds, lastEvent, eventId, cycle, sPc, deadline,
           action, event, sSignalling, now, eventFate, cancelled>>
dVars == <<dState, taskList, perishable, expired, dPc, task, dSignalling,
           taskFate, added, ran>>
glue  == <<step, gameShutdown, main, net, sig>>
vars  == <<sVars, dVars, glue>>

TypeOK ==
  /\ S!TypeOK
  /\ D!TypeOK
  /\ step \in 0..3
  /\ gameShutdown \in BOOLEAN
  /\ main \in {"serve", "stopping", "join_dispatcher", "join_scheduler", "exited"}
  /\ net \in {"out", "locked"}
  /\ sig \in {"idle", "added", "dispatcher_stopped", "done", "deadlocked"}

Init ==
  /\ S!Init
  /\ D!Init
  /\ step = 0
  /\ gameShutdown = FALSE
  /\ main = "serve"
  /\ net = "out"
  /\ sig = "idle"

----------------------------------------------------------------------------

\* A handler of asio may be interrupted inside of addTask; m_taskLock is its own
\* until it goes on.  All else that takes the lock is one step.
TaskLockIsFree == net = "out"

\* addTask, by whichever of its two outcomes the dispatcher's state gives.
Queue(t, k, front) == D!AddTask(t, k, front, FALSE) \/ D!RefuseTask(t, k)
Submit(t, k, front) == TaskLockIsFree /\ Queue(t, k, front)

StopDispatcher == TaskLockIsFree /\ D!Stop

\* The scheduler thread: its own steps, and the hand-over, where the event
\* loses its expiration and goes to the front of the dispatcher's list.
TimerStep ==
  /\ SThread \notin dSignalling
  /\ \/ S!SchedulerThread /\ ~S!HandOver /\ UNCHANGED dVars
     \/ S!HandOver /\ Submit(SThread, event, TRUE)
  /\ UNCHANGED glue

TimerNotify == D!Notify(SThread) /\ UNCHANGED <<sVars, glue>>

----------------------------------------------------------------------------
(* What the dispatcher thread's tasks do.                                  *)

Running(kinds) == dPc = "run" /\ task \in kinds

\* A game task adds another one, or adds or cancels an event.
PlainCalls ==
  /\ Running(Plain \cup Events)
  /\ \/ \E k \in Plain : TaskLockIsFree /\ D!AddTask(Self, k, FALSE, TRUE) /\ UNCHANGED sVars
     \/ /\ \E e \in Events : \/ \E d \in Delays : S!AddEvent(Self, e, d)
                             \/ S!RefuseEvent(Self, e)
                             \/ S!StopEvent(e)
        /\ UNCHANGED dVars
  /\ UNCHANGED glue

\* Mutant: Game::shutdown is not queued.
QuitForgets ==
  /\ Running(Quits)
  /\ step = 0
  /\ ~gameShutdown
  /\ gameShutdown' = TRUE
  /\ step' = 1
  /\ UNCHANGED <<sVars, dVars, main, net, sig>>

\* setGameState(GAMESTATE_SHUTDOWN): kick, save, then queue Game::shutdown and
\* stop the two engines; a second call returns at once.
QuitAdds ==
  /\ Running(Quits)
  /\ step = 0
  /\ ~gameShutdown
  /\ gameShutdown' = TRUE
  /\ \E k \in Downs : Submit(Self, k, FALSE)
  /\ step' = 1
  /\ UNCHANGED <<sVars, main, net, sig>>

QuitStopsScheduler ==
  /\ Running(Quits)
  /\ step = 1
  /\ Self \notin dSignalling
  /\ S!Stop
  /\ step' = 2
  /\ UNCHANGED <<dVars, gameShutdown, main, net, sig>>

QuitStopsDispatcher ==
  /\ Running(Quits)
  /\ step = 2
  /\ StopDispatcher
  /\ step' = 3
  /\ UNCHANGED <<sVars, gameShutdown, main, net, sig>>

\* Game::shutdown: the Scheduler, the Dispatcher with its flush, then the
\* services, which lets main() leave servicer.run() three seconds later.
DownShutsScheduler ==
  /\ Running(Downs)
  /\ step = 0
  /\ S!Shutdown
  /\ step' = 1
  /\ UNCHANGED <<dVars, gameShutdown, main, net, sig>>

DownShutsDispatcher ==
  /\ Running(Downs)
  /\ step = 1
  /\ TaskLockIsFree
  /\ D!Shutdown
  /\ step' = 2
  /\ UNCHANGED <<sVars, gameShutdown, main, net, sig>>

DownStopsServices ==
  /\ Running(Downs)
  /\ step = 2
  /\ step' = 3
  /\ main' = IF main = "serve" THEN "stopping" ELSE main
  /\ UNCHANGED <<sVars, dVars, gameShutdown, net, sig>>

\* The task returns to dispatcherThread().
Returns ==
  /\ \/ Running(Plain \cup Events)
     \/ Running(Quits) /\ (step = 3 \/ (step = 0 /\ gameShutdown))
     \/ Running(Downs) /\ step = 3
  /\ Self \notin sSignalling
  /\ D!Return
  /\ step' = 0
  /\ UNCHANGED <<sVars, gameShutdown, main, net, sig>>

\* A flushed task needs m_taskLock if it queues a task (Quits do, unless the
\* game is shutting down already) or calls Dispatcher::shutdown (Downs do).
Flushed == ran[Len(ran)]
MayBlock == \/ Flushed \in Plain \cup Events \cup Downs
            \/ Flushed \in Quits /\ ~gameShutdown
MayReturn == \/ Flushed \in Plain \cup Events
             \/ Flushed \in Quits /\ gameShutdown

FlushStep ==
  /\ \/ D!FlushNext
     \/ D!FlushReturn /\ MayReturn
     \/ D!FlushEnd
     \/ D!BlockOnOwnLock /\ MayBlock
  /\ UNCHANGED <<sVars, glue>>

\* The rest of dispatcherThread(); all but the test and the task need the lock.
DispatcherStep ==
  /\ \/ D!TestState
     \/ TaskLockIsFree /\ (D!Wait \/ D!Take \/ D!NothingToTake)
     \/ D!Run
     \/ D!Skip
  /\ UNCHANGED <<sVars, glue>>

SelfNotify ==
  \/ D!Notify(Self) /\ UNCHANGED <<sVars, glue>>
  \/ S!Notify(Self) /\ UNCHANGED <<dVars, glue>>

SelfStep ==
  \/ QuitAdds \/ QuitStopsScheduler \/ QuitStopsDispatcher
  \/ DownShutsScheduler \/ DownShutsDispatcher \/ DownStopsServices
  \/ Returns \/ FlushStep \/ DispatcherStep

----------------------------------------------------------------------------
(* The thread of main(): its handlers of asio, which the SIGTERM handler    *)
(* interrupts wherever they are, and the joins.                             *)

NotInterrupted == sig \in {"idle", "done"}

\* A handler of asio enters addTask.
NetLocks ==
  /\ main \in {"serve", "stopping"}
  /\ NotInterrupted /\ TaskLockIsFree
  /\ D!LockIsFree /\ D!MayCall(Net)
  /\ \E k \in Plain \cup Quits : taskFate[k] = "new"
  /\ net' = "locked"
  /\ UNCHANGED <<sVars, dVars, step, gameShutdown, main, sig>>

NetAdds ==
  /\ NotInterrupted
  /\ net = "locked"
  /\ \E k \in Plain \cup Quits : Queue(Net, k, FALSE)
  /\ net' = "out"
  /\ UNCHANGED <<sVars, step, gameShutdown, main, sig>>

NetNotify == NotInterrupted /\ D!Notify(Net) /\ UNCHANGED <<sVars, glue>>

\* Mutant: the handler stops the dispatcher before it queues the shutdown.
SigTermStopsFirst ==
  /\ SigTerm
  /\ sig = "idle"
  /\ main # "exited"
  /\ StopDispatcher
  /\ sig' = "added"
  /\ UNCHANGED <<sVars, step, gameShutdown, main, net>>

SigTermAdds ==
  /\ SigTerm
  /\ sig = "idle"
  /\ main # "exited"
  /\ \E k \in Downs : Submit(Main, k, FALSE)
  /\ sig' = "added"
  /\ UNCHANGED <<sVars, step, gameShutdown, main, net>>

\* The signal comes while the thread it interrupts is inside of addTask: the
\* handler waits for the lock of its own thread, and nobody else ever gets it.
SigTermBlocks ==
  /\ SigTerm
  /\ sig = "idle"
  /\ net = "locked"
  /\ sig' = "deadlocked"
  /\ UNCHANGED <<sVars, dVars, step, gameShutdown, main, net>>

MainNotify == D!Notify(Main) /\ UNCHANGED <<sVars, glue>>

SigTermStopsDispatcher ==
  /\ sig = "added"
  /\ Main \notin dSignalling
  /\ StopDispatcher
  /\ sig' = "dispatcher_stopped"
  /\ UNCHANGED <<sVars, step, gameShutdown, main, net>>

SigTermStopsScheduler ==
  /\ sig = "dispatcher_stopped"
  /\ S!Stop
  /\ sig' = "done"
  /\ UNCHANGED <<dVars, step, gameShutdown, main, net>>

\* ServiceManager::die: servicer.run() returns between two handlers.
MainStops ==
  /\ NotInterrupted
  /\ main = "stopping"
  /\ net = "out" /\ Net \notin dSignalling
  /\ main' = "join_dispatcher"
  /\ UNCHANGED <<sVars, dVars, step, gameShutdown, net, sig>>

\* Dispatcher::exit() and Scheduler::exit() join the threads.
MainJoins ==
  /\ NotInterrupted
  /\ \/ main = "join_dispatcher" /\ dPc = "ended" /\ main' = "join_scheduler"
     \/ main = "join_scheduler" /\ sPc = "ended" /\ main' = "exited"
  /\ UNCHANGED <<sVars, dVars, step, gameShutdown, net, sig>>

MainStep == NetAdds \/ SigTermStopsDispatcher \/ SigTermStopsScheduler \/ MainStops \/ MainJoins

Environment ==
  \/ S!SpuriousWakeup /\ UNCHANGED <<dVars, glue>>
  \/ S!Tick /\ UNCHANGED <<dVars, glue>>
  \/ (\E k \in Plain \cup Events : D!Expire(k)) /\ UNCHANGED <<sVars, glue>>

----------------------------------------------------------------------------
Next ==
  /\ S!Running
  /\ \/ TimerStep \/ TimerNotify
     \/ PlainCalls \/ SelfStep \/ SelfNotify
     \/ NetLocks \/ NetNotify
     \/ SigTermAdds \/ SigTermBlocks \/ MainStep \/ MainNotify
     \/ Environment

Spec == Init /\ [][Next]_vars

\* Every thread is scheduled, every task returns, and time passes.
Fairness ==
  /\ WF_vars(S!Running /\ TimerStep)
  /\ WF_vars(S!Running /\ SelfStep)
  /\ WF_vars(S!Running /\ MainStep)
  /\ WF_vars(S!Running /\ TimerNotify)
  /\ WF_vars(S!Running /\ SelfNotify)
  /\ WF_vars(S!Running /\ NetNotify)
  /\ WF_vars(S!Running /\ MainNotify)
  /\ WF_vars(S!Running /\ S!Tick /\ UNCHANGED <<dVars, glue>>)

FairSpec == Spec /\ Fairness

----------------------------------------------------------------------------
(* Properties                                                              *)

\* A shutdown asked for by setGameState ends the dispatcher thread, unless a
\* flushed task blocks it, the scheduler hit its empty queue, or a SIGTERM
\* comes as well.
QuitEndsDispatcher ==
  (gameShutdown /\ sig = "idle") ~>
    (dPc \in {"ended", "deadlocked"} \/ ~S!Running \/ sig # "idle")

\* After a SIGTERM Game::shutdown is run, the handler's or one that was queued
\* before it stopped the dispatcher, unless the handler has interrupted its own
\* thread inside of addTask.
ShutdownRuns == \E k \in Downs : taskFate[k] = "run"

SigTermRunsShutdown ==
  (sig # "idle") ~> (ShutdownRuns \/ ~S!Running \/ sig = "deadlocked")

=============================================================================
