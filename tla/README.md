# OTX Server 2 in TLA+

OTX Server 2 (`src/source/`) is a game server written in C++: one process, one
world, a few thousand players. This directory models the parts of it whose
correctness depends on order and interleaving, checks the models with TLC and
proves theorems about them with TLAPS. `PROJECT.json` lists for every definition
the source lines it stands for, every run, every mutant and every hazard.

## 1. The system

### Threads

| thread | code | what it does |
| --- | --- | --- |
| dispatcher | `dispatcher.cpp` | runs the game: every task, one at a time |
| scheduler | `scheduler.cpp` | hands delayed tasks to the dispatcher when they are due |
| main / asio | `otserv.cpp`, `server.cpp`, `connection.cpp` | `servicer.run()`: accepts, reads, writes, network timers |
| signal handlers | `otserv.cpp` | interrupt the thread of `main()`; queue tasks, and in some cases act on the game at once |

Game state (creatures, items, tiles, parties, trades, houses, ...) belongs to the
dispatcher thread and has no locks of its own. What makes it hard is not data
races but *time*: a game operation is a chain of tasks, and between two of them
any other operation may run.

### Components

| component | state | operations | hard part |
| --- | --- | --- | --- |
| Scheduler | priority queue, active ids, id counter | addEvent, stopEvent, stop, shutdown | condition variable, cancel against pop, id reuse, termination |
| Dispatcher | task list | addTask, stop, shutdown/flush | lost wake-ups, order, flush under the lock |
| Process life cycle | game state, the two thread states | setGameState, Game::shutdown, SIGTERM | order of stop, queue and shutdown; joins |
| Connection | socket, write queue, pending reads and writes, state | accept, close, parseHeader, parsePacket, send, onWriteOperation, handleTimeout | graceful against forced close, callbacks after close |
| Output message pool | autosend list | add/remove, scheduleSendAll, sendAll | flush timer running exactly while needed |
| Service ports | acceptor, pending re-open | open, accept, onAccept, close | accept loop must not die |
| Game session | player, protocol, owner, connect event | login, connect, logout, release, disconnect | two connections for one player |
| Live casts | watchers of a player | spectate, turn, leave, password, kick | raw pointers to protocols that come and go |
| Waiting list | ordered list with time-outs | login, cleanup | order, priority of premium players, expiry |
| Party | leader, members, invitations, shared experience | invite, join, revoke, leave, pass, disband | two-sided references, dangling parties |
| Player trade | state, partner and item of both players | request, accept, close | the two sides must agree after every task |
| Item decay | four buckets, new items, durations | startDecay, internalDecayItem, checkDecay, cleanup | index arithmetic, items removed or changed meanwhile |
| Creature life cycle | check vectors, summons, reference counts | place, remove, checkCreatures, death, summon, convince | removal during iteration, counts kept by hand |
| Spawns | places, spawned map, check event | checkSpawn, spawnMonster, removeMonster | the check must be armed while a place is vacant |
| Targets | attackedCreature, followCreature, targetList, isIdle | setAttackedCreature, setFollowCreature, onCreatureMove, onCreatureDisappear | bare pointers, notices inside of notices in any order |
| Containers | contents, parent, weights | queryAdd, moveItem, addMoney, removeMoney | no item inside itself, nothing lost when half fits |
| House | owner, rent, access lists | setOwner, payRent, auction | transfer with an offline owner |
| Chat | private, party, guild channels | create, invite, kick, close | channels that outlive their owner |
| Raid | timers, running raid | startup, check, execute | one raid at a time, re-arming timers |
| Conditions, combat | timed effects | add, merge, expire | merging rules |
| Persistence | database rows | savePlayer, saveMap, bans, guild wars | partial failure |
| Scripts | Lua state | events, bindings | callbacks that change what the caller holds |
| Loaders, GUI, support | - | - | none of the above: start-up parsing, Windows only, utilities |

### Interaction

Connections turn packets into dispatcher tasks (`Dispatcher::addTask`), the game
turns delays into scheduler events (`Scheduler::addEvent`) which come back as
dispatcher tasks, and the output pool is flushed by a scheduler event. The
shutdown of the process runs through all of them.

## 2. Plan

| order | modules | state |
| --- | --- | --- |
| 1 | `Scheduler`, `EventTimer` (abstract), `Dispatcher`, `SchedulerProofs`, `DispatcherProofs`, `TaskEngine` | done |
| 2 | `Connection` (proved about in `SchedulerProofs`) | done |
| 3 | `Trade`, `TradeProofs`, `Party`, `PartyProofs`, `WaitList` (proved about in `SessionProofs`) | done |
| 4 | `Session`, `SessionProofs` (login, take-over by a second connection, logout, live casts, autosend list), `Creatures` (with the spawn), `CreaturesProofs`, `Targets`, `TargetsProofs` | done |
| 5 | `Decay` (proved about in `DispatcherProofs`), `Items` (containers, slots, weights, money), `ItemsProofs` | done |
| 6 | `House`, `Chat`, `Raid`, bans | not done, see section 6 |

`TaskEngine` composes `Scheduler` and `Dispatcher`. `Session` stands on
`Connection` (its `Protocol::release` is a dispatcher task) and on the order the
`Dispatcher` guarantees; `Creatures` and `Decay` share the cleanup that ends
their loops, and `ReleaseClient` of `Creatures` is the release of `Session`.
The house part of `Trade` and the channel part of `Party` are as much of houses
and chat as these two need.

## 3. The modules

Common conventions. One action is what runs without interruption in the code: a
critical section of a lock, a completion handler, or a whole task of the
dispatcher. Variables and operators carry the names of the code where there is
one (`m_eventList` is `eventList`). Values that only a history of the run needs
are marked "history". An operator that a comment calls a mutant is not part of
the model: it is the form a plausible bug would give the operator below it, and
the runs must reject it. A module `MCx` extends `x` for TLC.

### `Scheduler` (scheduler.cpp, scheduler.h)

State: the thread state, the queue, the active ids, the id counter and, for each
event, its id and cycle; the place, the deadline and the locals of the scheduler
thread; the callers between the unlock of `addEvent` and its `notify_one`; the
time.

`AddEvent`, `RefuseEvent`, `StopEvent`, `Stop` and `Shutdown` are the critical
sections of the methods, `Notify` is the signal after the unlock. The thread is
`TestState` (the unlocked loop test), `Wait` or `TimedWait`, one of `Timeout`,
`Notify` and `SpuriousWakeup`, then `StartOver`, `PopActive`, `PopStopped` or
`PopEmpty`, and `HandOver` to the dispatcher. `PopEmpty` is `top()` and `pop()`
of an empty `priority_queue`, which the code reaches after a spurious or early
wake-up of the untimed wait: undefined behaviour, modelled as the end of the
process.

`EventTimer` is what callers rely on: an event fires or is cancelled, never
both, never twice. `ImplementsTimer` is the refinement, by the mapping `Status`.

### `Dispatcher` (dispatcher.cpp, dispatcher.h)

State: the thread state, the list, which tasks have an expiration and which of
these are over, the place and task of the thread, the callers that still have to
notify. `AddTask` covers both ends of the list; `Shutdown` runs inside a task,
holds `m_taskLock` and flushes: `FlushNext`, `FlushReturn`, `FlushEnd`. The lock
is not recursive, so a flushed task that calls `addTask` blocks its own thread:
`BlockOnOwnLock`.

### `TaskEngine` (game.cpp, otserv.cpp)

Two instances, `S` of the scheduler and `D` of the dispatcher, and what ties them
together: the hand-over of a due event (which takes its expiration away and puts
it in front), tasks that add tasks and add and cancel events, the steps of
`setGameState(GAMESTATE_SHUTDOWN)` and of `Game::shutdown`, the SIGTERM handler,
and the joins of `main()`. The thread of `main()` runs the handlers of asio
(`servicer.run()`), which queue tasks, and the SIGTERM handler interrupts it
wherever it is. That includes the critical section of `addTask`: a handler of
asio takes `m_taskLock` in `NetLocks` and gives it back in `NetAdds`, nobody else
gets it in between (`TaskLockIsFree`), and a signal that comes there waits for the
lock of its own thread (`SigTermBlocks`). All other critical sections stay one
step, as nothing interrupts their threads. Left out are that the allocations of
the handler may meet the lock of the allocator in the same way, a signal that
the system delivers to another thread, and the retry of a port that could not be
opened (server.cpp:142, 198).

### `Connection` (connection.cpp, connection.h, protocol.cpp)

One connection `c` as a record, and its asio operations: which read is out, how
many writes, and for each timer whether it is armed or its handler is already
queued (`cancel()` comes too late for those). `connectionLock` makes each method
one step. A method is an operator from a connection to the set of its possible
results, because `close` and `send` are called from inside other methods and
because the start of an operation may throw; an action lets `c` become one of
the results. `Settle` ends every step: when neither the manager nor a pending
handler refers to the connection, its destructor runs.

### `Trade` (game.cpp, player.cpp, talkaction.cpp, house.cpp)

State: the trade fields of every player, `Game::tradeItems`, the transfer
documents that exist, where every thing is, who owns every house. Requests,
acceptances, refusals, moves that close a trade (`Player::checkTradeState` and
its callers), logout, and buying, selling and losing a house. A script on the
trade event may deny the second acceptance, which leaves both players in
TRADE_ACCEPT until one of them closes.

The exchange (`AcceptLast`) is what the code does: both items have passed their
tests, each with the other one in place, then one is moved after the other, and
nobody looks at the results. So each move (`Moves`) may also be refused, and a
thing goes to any place of the receiver that is left when its turn comes (`Into`),
a bag that has just arrived among them. A document hands its house over
whether or not it could be moved itself (`HandedOver`). Where the document itself
lies, the merging of stacks and the search order of free places are left out.

### `Party` (party.cpp, game.cpp, player.cpp, chat.cpp)

State: the Party object at each address, `Player::party` and
`invitePartyList`, and the users of the channel of each address. The methods of
Party are operators from the state of all parties to a new one; the actions are
the tasks of Game that call them, logout and ghost mode. An address is free
again once its party is deleted, and the channel map keeps its entry: that is
how the code works, and who left a party goes on hearing it. `SetVocation` is a
change of vocation by a script or a promotion, which counts nothing again; the
history variable `stale` holds the parties where that has happened since the
last count.

### `WaitList` (waitlist.cpp, protocolgame.cpp)

The ordered list with the time left of every place, in steps of five seconds,
and the clients: one that is refused tries again when it was told to, or gives
up. Expired places are thrown away at the next login that looks at the list,
as in `cleanup`.

### `Session` (protocolgame.cpp, protocol.cpp, spectators.cpp, outputmessage.cpp)

State: for every connection its protocol (player, spectator or not, whether it
accepts packets, the pending connect), for every Player object its life, its
counted references, its client with owner and watchers, and `isConnecting`; the
task list of the dispatcher, which is a plain sequence because `Dispatcher`
guarantees its order; the autosend list and the number of pending flushes.

The network thread queues: `FirstMessage`, `Packet`, `BreakOff`, `Expire`. The
dispatcher runs the head of the list: `LoginNew`, `LoginAgain`, `Spectate`,
`Turn`, `Release`, `Logout`, `Leave`. `Connect` is the scheduled event of a
take-over, one second later and in front of the list. The game acts in between:
`KickAbsent`, `Kick`, `Die`, `SetCast`, `Cleanup`. A step in undefined behaviour
(`TurnFails`) ends the process. The methods are operators from a *world* (the
variables as a record) to the world they leave, as they call each other.

### `Creatures` (game.cpp, creature.cpp, monster.cpp, spawn.cpp)

State: the Creature objects with life, health, `checkVector`, references,
summons and spawn place; `toAddCheckCreatureVector`, the check vectors, the
iterator of `checkCreatures`; `targetList` and `friendList` of the monsters
(`known`); the spawned map, the chains of spawn events that blink, the check event
of the spawn.

`CheckBegin`, `CheckDrop`, `CheckDeath`, `CheckThink`, `CheckEnd` are the steps of
the loop, with `Cleanup` of other tasks. What a creature does when it thinks or
attacks can call any operation of the game, so these (`Idle`, `Kill`, `Heal`,
`Removal`, `Summon`, `Convince`, `ReleaseClient`) may happen inside of the loop
too. `CheckSpawn`, `SpawnMonster` and `Rest` are the spawn; a check may come while
a place still blinks, which then gets a second chain (`doubled`).

The lists of a monster hold counted references, which are given back when a
creature is lost sight of (`Forget`), when the monster falls asleep (`SetIdle`),
dies (`Dies`), is told that somebody left (`told` in `RemoveCreature`), and in its
destructor. Where monsters stand is not in this module, so whom a monster lists,
loses or is told about is left open; what the code does then is not. As the list
may hold the last reference, an `unRef` may delete a monster whose own lists
hold last references in turn: `Doomed` is the least set that is closed
under this, and `Deleted` is what all these destructors do together.
`convinceCreature` calls `updateTargetList` at its end; that is a `Notice` or a
`Forget` of its own here.

### `Targets` (creature.cpp, monster.cpp, player.cpp, tile.cpp, game.cpp)

State: for every creature where it is, whom it attacks and follows, its master;
for a monster its `targetList`, `isIdle`, `isMasterInRange` and
`teleportToMaster`. Places are spots: what matters of two of them is which sees
the other (`Viewport`, and `ClientView` for players), whether they are on the same
floor, whether they are too far apart for a summon, and which are in a protection
zone. References and check vectors are left to `Creatures`.

An action is a whole call of the game (`Appear`, `Summon`, `Convince`, `Move`,
`Removal`, `Die`, the orders of players and the thinking of monsters). What is hard
is inside of it: the spectators are an unordered set and are told one by one, and
one that is told may move or remove others, who are told before the rest of the
first is. So a call leaves a world and the calls to make before those that are
left to do (`Answer`); a call is made to a set of creatures, of whom `First` is next,
and `Done` makes all the calls, one step (`Made`) after the other. `Luck` chooses the
order of the spectators and whether a summon finds room. The order is only chosen among summons
and their masters: the others are told of the same things in any order.

Left out are `friendList`, which nothing here reads; attack events that deny,
other than by `Lose`; players that lose their client while they are in the game (they
see nothing any more); and that floors 0 to 7 do not see the floors below.

### `Decay` (game.cpp, item.cpp)

State: type, duration, mark, place, origin and references of every item, how often it is
in `toDecayItems`, in each of the four buckets and in `releaseThings`, the bucket
that is next, and the loop of `checkDecay` with what it still has to visit and
the item it decays. `StartDecay`, `Vanishes`, `Becomes` and `IsReplaced` are
`startDecay` and the branches of `internalDecayItem`; `BeginCheck`, `Drop`,
`Pass`, `EndCheck` the loop; `Create`, `RemoveItem`, `SetDuration` and `Transform`
what may happen to an item at any other time. The arithmetic of the buckets is
that of the code, in milliseconds.

The origin of an item says whether it was loaded with the map, and has a unique
id or, as a container, an action id: such an item (`"named"`) does not decay.
`SetId` is a script that gives or takes an id. `StaysPut` is the failure of
`internalRemoveItem`, which refuses beds, depots and others: the model lets any
item be refused.

The types are those a configuration gives, without conditions on their chains.
Where a decay ends without removing the item or taking its mark away, the item
joins the history set `spent`: it was refused, or it has become a type that
stops the time or decays without a time, so that `setID` (item.cpp:292-304) leaves the
mark. `items.xml` has three such types, 2057, 8273 and 8311. It leaves the set
when `setID` unmarks it. Left out are the references of a trade (game.cpp:3229) and
of windows to write in: they are given back like the others and only delay the
freeing of an item.

### `Items` (container.cpp, player.cpp, game.cpp, cylinder.h)

State: the kind, the count and the parent of every item, the contents of every
container and slot in order, `Container::totalWeight`, `Player::inventoryWeight`
and the tile at the player's feet. `MoveItem` is the whole of
`internalMoveItem`: the destination and the item to stack with
(`queryDestination`), `queryAdd`, `queryMaxCount`, what is removed, what is added
or joins a stack, the notifications that update the weights up the chain of
parents. `Tries` is `internalAddItem` with the calls it makes to itself, `GiveCoins`
is `addMoney` with what it drops on the floor, and `RemoveMoney` takes coins as the
code does, the smallest stacks first. An order of search that depends on data the
model does not have is left open.

## 4. What is checked

| run | instance | properties |
| --- | --- | --- |
| `scheduler` | 2 events, 2 calling threads, delays 1 and 2, time to 3, spurious wake-ups | cancelled events never run; no lost wake-up; implements `EventTimer` |
| `dispatcher` | 3 tasks, one other thread, expirations, both ends | no lost wake-up; order among the tasks added at the back, nothing twice; accepted tasks are settled |
| `engine` | 1 event, 1 game task, 1 quit, 2 shutdown tasks, SIGTERM | a quit ends the dispatcher; SIGTERM gets a shutdown run, unless it interrupts its own thread inside of `addTask` |
| `connection` | 3 messages, starts may throw, the peer reads or does not | one write at a time; graceful close delivers; released once; writing ends |
| `session` | 3 connections, 2 characters | a character is in the game once and played by his owner; watchers are alive; references are exact; a flush is pending while there is output; a connecting player has a connect that is due |
| `creatures` | 2 monsters that may have each other as targets, 1 player, 1 place that may blink twice at a time, 1 check vector | references are exact, those of the lists among them; nothing dangles; the vectors agree; the dying are checked; a spawn is full or watched, and a place that is filled twice blinked twice (`PlacesAreKept`) |
| `targets` | 2 monsters, 1 player, 3 spots on 2 floors, 1 of them protected | attacked and followed creatures are in the game and in sight; no monster sleeps beside a player |
| `trade` | 3 players, 2 containers and a coin, 1 house | the sides agree; offers are listed; only bargains move things, and a counter-offer goes nowhere else; no switch under an acceptance |
| `party` | 3 players who change between 2 vocations, 2 addresses | members agree; invitations agree; the bonus is current but for changes of vocation |
| `waitlist` | 4 players (1 premium, 1 privileged), room for 2, 2 visits each | waiters keep their place; nobody is overtaken; waiters enter |
| `decay` | 2 objects of 5 types, loaded with the map, imported durations of 1600 and 1900 ms | references are exact; the marked are listed, but for those whose decay ended and left the mark; decay is on time |
| `items` | 5 coin objects, 2 bags, 2 slots, stacks of 2, capacity 6 | no item holds itself, both ends of a place agree and weights are sums (`ContentsAgree`); a move keeps the number of coins; money that is given is not lost |

### Bounds, and why they are enough

- `scheduler`: two events give every relation of cycles (earlier, equal, later),
  a new top and a not-new top, and a stop of the top and of the other. Two
  callers can both be between unlock and notify. `IdMax = 2` lets the counter
  reach its maximum; `Horizon` bounds time, and with it when events can be added.
- `dispatcher`: three tasks are needed for one to run, one to be inserted in
  front and one to wait behind; two of them left over make a flush of two.
- `engine`: two shutdown tasks are the handler's and the quit's, so that they can
  race; a single event is enough for a hand-over to a closing dispatcher. The game
  task and the quit are also what a handler of asio may be adding when the signal
  comes.
- `connection`: three messages are one being written, one waiting behind it and
  one that is sent while the first handler runs. A connection never interacts
  with another one.
- `trade`: three players so that a partner can be asked by a third one, two
  containers so that one can be inside the other with a thing in the inner one.
- `party`: a party of three, or two parties with an invitation across; two
  addresses so that one is used again while the other party lives. Two vocations,
  as the two counts differ for parties of one and of two vocations, and a party
  of three may go from either to the other by a change, a join or a leave.
- `session`: three connections are a client, one that takes its place and one
  that watches, or comes in between; two characters so that a spectator can turn
  to another stream. Each connection asks once; a connection accepts packets only
  while none of its tasks is queued.
- `creatures`: two monsters and a player give a master with a summon, a summon
  convinced away from its master, and a place whose monster is one of these or
  both. One vector is enough to be removed from the one under iteration and added
  to it again. `Within` bounds what there may be at a time, here: two monsters that
  blink in the place, which is how it is filled twice; or entries by which each
  monster has the other one as a target, so that a list may hold the last
  reference to a monster, whose list may hold that of the next, also in a circle.
  Both at a time, players and friends in the lists (friends differ from targets only
  in not keeping a monster awake) and a second vector are left to the proofs,
  which hold for any `Within`.
- `targets`: a wild monster and a summon, of the player or of the other monster, and
  the player; a second summon at the same time is not looked at. The field sees
  the temple, which is protected, and the cave below it; temple and cave do not
  see each other, and are too far apart for a summon. A client sees less than a
  monster does. So a move may change the zone, the floor or the sight, and a
  master may leave with or without his summon. `teleportPlayerSummons` is on and
  `teleportAllSummons` off, so that both kinds of masters leave differently. One
  bound is part of the module: a call and all it calls take at most `MaxSteps` steps,
  twenty for each creature; a call that took more would be left out. The run has as
  many states as without that bound.
- `decay`: two objects of five types give every way on: into another object, into
  the same object with another type, into nothing, into a type that stops the time
  and from there back by a script, which is the cycle of the candelabra 2057, 2041
  and 2042 of `items.xml`, in which mark and entry part. The durations are two, one
  and no second, and two that only a saved item can have; none is longer than two
  rounds of the buckets, as every further round only takes a second away. The items
  are loaded (`Sources`), so that decay is refused, resumed and refused again as ids
  come and go, and replaced by items that are not. An item may be listed twice
  (`MaxEntries`), and there is room for one replacement of each placed item before a
  cleanup (`Room`).
- `items`: a bag of two places and one of one place, a slot that takes bags and one that
  takes coins and gems, so that each destination can be full, half full or free;
  four coins in stacks of two are split, stacked and exchanged in every way, and
  `MaxWeight` is met on the way. The fifth coin object is the one a split
  creates. Coin objects are interchangeable, hence the symmetry. Two bounds are
  part of the module: `MaxTries` calls of `internalAddItem` (every one but the
  last fills a stack, and there are no more stacks than coin objects), and as many
  rounds of `RemoveMoney` as there are coin objects (each uses up a stack or is
  the last).
- `waitlist`: three players can wait for two places, and with two visits a
  player comes back to an old place. The time-outs are those of the code; only
  the first two of the five retry classes occur with so few players.

Deadlock is not checked: all of these systems may stop. The threads of the engine
end, a connection is destroyed, a step in undefined behaviour ends the process
(`session`), and in the other models a bound on time, visits, objects or messages is
reached or nobody has to act.

### Fairness, and why the code justifies it

- `Scheduler`, `Dispatcher`, `TaskEngine`: weak fairness of each thread and of
  each notify that is under way (the operating system schedules threads, tasks
  of the game return), and of time. The time-out of `timed_wait` is strongly
  fair, because spurious wake-ups could otherwise interrupt it for ever.
  Nobody is assumed to call anything, and nothing makes a SIGTERM arrive.
- `Connection`: asio runs the handler of an operation that was aborted or broke
  off, and of a write that a reading peer lets complete. No peer has to send or
  to read (`peerReads` is chosen at the start). A timer runs out unless
  operations complete, and so arm it again, for ever.
- `WaitList`: a waiting client tries again when it was told to (it does so by
  itself), nobody stays in the game for ever, time passes. Giving up is not
  assumed.
- `Session`, `Creatures`, `Targets`, `Decay`, `Items`, `Trade` and `Party` have safety
  properties only. What must happen in them is stated as what is pending: a
  flush (`FlushIsPending`), a check (`PlacesAreKept`, `TheDyingAreChecked`), being awake (`AwakeWhenNeeded`), an
  entry in a list (`DecayingIsListed`), a countdown that does not pass its end
  (`OnTime`). That what is pending happens is the business of the scheduler and
  the dispatcher, where it is checked as liveness.

### Disagreements found

The following contradict a comment or what callers expect. The models contain
them, and no property of the runs states the opposite:

1. An idle scheduler runs a new event before its cycle: the untimed wait leaves
   `action` false, so the notify counts as a time-out (scheduler.cpp:48, 53).
2. After SIGTERM `main()` may never exit: `Scheduler::shutdown` does not signal
   (scheduler.cpp:155), and the handler's `stop()` can undo a termination, so the
   join waits for a thread that never ends (otserv.cpp:257).
3. A connection closed gracefully while its peer does not read keeps its socket,
   because the write timer finds it CLOSED and returns (connection.cpp:104, 117).
4. The owner of a house is only looked at when it is offered, so a transfer
   document may sell a house its seller has lost (house.cpp:440).
5. A player who leaves a party goes on hearing its channel, and the next party
   that is created at the same address (party.cpp:101).

6. `addMoney` may give more than "the amount to give" (game.h:430): when
   `internalAddItem` puts a part of a stack on one stack, its nested call a part
   on another, and the call nested in that fails, the outermost answers with the
   whole rest it had after the first (game.cpp:1772), and `addMoney` drops it on
   the floor although some of it was taken. It needs stacks of three or more:
   `items` with `Stack = 3`, `Most = 7` and `MaxWeight = 20` reaches `Total(World) > given`.
7. A SIGTERM that arrives while a network handler is inside of `addTask` hangs the
   server instead of shutting it down: `signalHandler` runs on the same thread,
   calls `addTask` itself (otserv.cpp:254) and waits for the non-recursive
   `m_taskLock` that its own thread holds (dispatcher.cpp:79; connection.cpp:110).
   The handler is registered with the comment "shutdown" (otserv.cpp:352). This is
   the step `SigTermBlocks`, and the exception in `SigTermRunsShutdown`, which does
   not hold without it.

Other behaviour the models reproduce, and that a maintainer may want to know:

- `Scheduler::PopEmpty`: a spurious wake-up of an idle scheduler, or the notify
  of an event that was added and popped meanwhile, pops an empty queue.
- The id counter may come back to an id that is still queued after 2^32 events:
  what is proved assumes it does not (`IdsSuffice`).
- A flushed task that adds a task hangs the dispatcher (`BlockOnOwnLock`).
- A buyer who has come to own a house since the offer gets a second one.
- After a script denies a trade both players stay in TRADE_ACCEPT.
- The second half of a trade ignores the results of its two moves
  (game.cpp:3315-3318): when both items fit one by one but not together, or a move is
  refused for another reason, one player receives and does not give. `Bargain`
  says that this is all that can happen: what was not given stays where it was.
- A party of two vocations shares with 120 % after a join and 125 % after a
  leave (`BonusOnJoin`, `BonusOnLeave`).
- `doPlayerSetVocation` (luascript.cpp:5694, player.cpp:163) leaves the multiplier of
  the party out of date until somebody joins or leaves (party.cpp:118, 168).
- A list of expired places only makes a newcomer wait once for nothing.
- A connection whose accept fails stays in the manager (`AcceptError`).
- `ProtocolGame::connect` gives up in front of the line that resets
  `isConnecting`: such a player is never removed for being absent.
  `ConnectingIsDue` does not rule this out; it says that nothing else leaves the
  flag set.
- A connect that is due after the release of its protocol, while the Connection
  object still exists, takes the player over; nothing releases him afterwards
  (`late` in `Session`).
- The last protocol leaves the autosend list and another enters before the
  pending flush: two flushes re-arm themselves from then on.
- A spectator who turns when no stream is left, or when the next one has no
  owner, makes the code dereference nothing (`TurnFails`).
- A convinced monster leaves its spawn without arming the check, so that its
  place stays vacant until another monster of the spawn is removed.
- Each step of the blinking of a spawn place creates a Monster object
  (spawn.cpp:319), and only that of the last step is placed; the others are never
  deleted.
- A summon of a player that dies loses its master first (creature.cpp:756) and is
  nobody's opponent when those who see it are told: a monster keeps it in its
  `targetList` until that monster moves.
- A summon that is given up (`destroySummons` takes its health) and healed before
  it dies does not know the players around it: `AwakeWhenNeeded` speaks of
  monsters that never had a master, and of summons.
- With a spawn interval of 2 to 4 seconds (spawn.cpp:172 refuses 1 second and less;
  the scheduler may also be late by what is missing to 4.2 seconds) a place is
  checked while it blinks, is vacant to that check, and is filled twice. As the
  check counts monsters and not places (spawn.cpp:425), a place that is filled
  twice may leave another one vacant with no check to come, until a monster of
  the spawn is removed. `PlacesAreKept` says what is left: the numbers agree, and
  nothing else fills a place twice.
- An item keeps its mark without a list entry when its decay ends as a type that
  stops the time or that decays without a time, or when it cannot be removed
  (item.cpp:292-304, game.cpp:5339). It is passed over by every later `startDecay`
  (game.cpp:5315). A candelabrum 2057 that went out (2041) and is lit again (2042)
  with nothing left of its time gets a new duration and loses the mark; one with a
  rest of less than a second when it goes out, as a saved duration leaves it (a
  whole number of seconds leaves none), keeps both and burns for ever.
- An item that becomes another object (another `ItemType::type`) gets a duration
  of 0 from `copyAttributes` and decays at once; 224 corpse stages of `items.xml`
  change their kind in this way.
- An item transformed between two decaying types and then given to `startDecay` is
  listed twice and decays at double speed. `OnTime` therefore speaks of items
  with one entry.
- Decay may be less than two intervals (500 ms) late: one because the check that
  decays an item comes after its time, one more when no cleanup lists the item
  before the next check. It may be less than a second early.
- `Container::__queryMaxCount` looks at the place in front of the one that is
  asked for, so that a move within a full bag can fill it over its capacity,
  against the check of `__DEBUG_MOVESYS__` (container.cpp:471-477).
- A stack that `internalAddItem` merges completely sends no notification: the
  player's `inventoryWeight` is too small until the next one. `WeightsAreSums`
  says "at most".
- `removeMoney` compares the balance as a signed 32-bit number (game.cpp:2136);
  `addMoney` takes the minimum of 100 and the coins as 16 bits; the test for an
  empty backpack in `Player::__queryDestination` is the wrong way round.

## 5. What is proved

All proofs are for every value of the constants that satisfies the named
assumptions. `SchedulerProofs`, `DispatcherProofs` and `SessionProofs` hold the proofs
of two components each; `Connection`, `Decay` and `WaitList`, the second of each,
carry names of their own (`ConnectionNext`, `DecayInit`, `WaitSpec`) so that a module
can extend both.

- `SchedulerProofs`, the Scheduler. `TypeCorrect`. `SchedulerSafe`: a confirmed cancellation is
  final, only stopped events are thrown away and active ids are queued, assuming
  `IdsSuffice` (no more events than ids). The invariant `IInv` is needed because
  the property itself says nothing of ids: `IdInv` says that ids up to the counter are used once,
  `QueueInv` that the fate, the queue and the active ids of an event go
  together. `WakeupNotLost` needs only the places of the thread, not the ids.
  `SchedulerImplementsTimer` shows, step by step under `IInv`, that the scheduler
  implements `EventTimer`.
- `DispatcherProofs`, the Dispatcher. `TasksTyped`;
  `TaskNotMissed` (`NoLostWakeup`); `SettledInOrder` (`InOrder`), that the
  tasks added at the back are settled in the order of their `addTask`, also by
  the flush of `shutdown`. The order of what ran says nothing of what still
  waits, so the invariant `OInv` adds three parts: a task that waits is on the
  list once or in the hand of the thread (`PlaceInv`), the histories agree with
  the fates of the tasks (`HistoryInv`), and the list keeps the order of the
  additions, with everything added before the task in hand settled (`OrderInv`).
- `SchedulerProofs`, the connection. `WritesInTurn`: types and `OneWriteAtATime`.
  `ReleasedAtClose`: `ReleasedOnce`. `LastWordsArrive`: `GracefulDelivers`, from
  one more invariant, `Flow`, of connections that nobody forced to close: what is
  queued is being written, what is written and what is queued are together what
  was accepted, and a socket is only closed over an empty queue, unless an
  operation failed. A method is proved about once, for any
  connection `x` it may be called on: `Sound(x)` (released when closed) and
  `Orderly(x)` (one write) are what every method keeps. The invariant `ConnectionInv` adds
  what the handlers rely on: nothing can be done with a connection before its
  accept has succeeded (`Fresh`), an open one has a read out and a destroyed one
  nothing (`Reading`), and the counts of messages agree (`Counts`). `Reading` is
  why an object is never destroyed before its protocol is released.
- `SessionProofs`. `OneOwner`, `WatchersLive`, `OutputIsFlushed` and
  `ConnectingHasCause`, that is `OwnerPlays`, `WatchersAreAlive`, `FlushIsPending`
  and `ConnectingIsDue`, for any connections and characters. The methods of the
  protocol take a world to a world, and so does the invariant: `Good(w)` is kept
  by `Disconnect`, `Clear`, `RemoveCreature`, `LoggedOut` and the others, and one
  lemma per action combines them. The four properties alone are not inductive,
  because tasks that are queued speak of connections that may change before they
  run. `Queue(w)` says what may not change: the release of a connection is its
  last task (`ReleaseIsLast`), comes after its close and before anything is
  marked as released (`ReleaseIsDue`, `ReleasedAreGone`), a connection asks once
  and is untouched until it is answered (`AsksOnce`, `RequestsAreFresh`), and who
  takes a player over never was a spectator (`Roles`). `Played(w)` is `OwnerPlays`
  for players out of the game too, and in both directions; that a release resets
  only its own owner is where it is used. `ReferencesAreExact`: `RefsAreExact`, from
  `Exact(w)` on top of that: an object that is gone is in it too, with no
  references. A step that moves a protocol from one player to another changes the
  users of two objects; a method that does both in a row (release after a
  take-over, a spectator who turns) goes through a world that no state shows.
- `TradeProofs`. `TradeAgreed`, `OffersListed` and `OffersAreKept`, from one
  inductive invariant, `TypeOK`, `Agreement` and `OffersAreListed` together:
  closing a trade of a player also closes that of his partner, so the other
  half of an agreement is needed to keep the list of offers exact.
- The rest of `TradeProofs`. `FairExchange`: `Bargain`, for any players, things and nesting,
  from that invariant and two of its own. `Acyclic` says that every set
  of containers has one that is in none of the others; what is around a thing is
  then the least set that holds its container and the containers of its members
  (`Enclosing`), and what is outermost needs no recursion. `ApartIn` says that no
  offer is inside of another, and `HeldIn` that each is with the player who offers
  it, or on the ground: without the first a thing could go along with an offer it
  is not part of, without the second an exchange would take it from a third
  player. The exchange is two moves, of which each may be refused: `MovesOne` says
  what one move makes of any nesting it fits (`Fits`), and is used once for each,
  the second time for the nesting the first has left.
- `PartyProofs`. `PartiesAgree`: types, `MembershipAgrees`, `InvitationsAgree`,
  `PartyIsUsed` and `ListenersAreOnline`. The methods of Party take and return
  the state of all parties, and so does the invariant: `Good(g, present)`
  restates the four properties of a state `g`, one lemma per method says what
  the method makes of a good state, and the actions combine them. A method in
  the middle of a task leaves states that no task boundary shows; that is why
  the lemmas are about `g` and not about the variables. `PaidAsEarned`:
  `SharingNeedsTwo` and `BonusIsCurrent`, from `Rightful(g)` on top of that
  invariant: the bonus depends on who is in the party, so every method that
  changes the people of a good party has to recompute it; a change of vocation does
  not, and puts the party among the `stale`, outside of which the bonus is right. `InvitationsHold` is the
  part of `PartiesAgree` that speaks of invitations.
- `SessionProofs`, the waiting list. `OnePlaceEach`: types, and no player has two places.
  `PlacesOutlastWaits`: `WaitersKeepTheirPlace`. `EveryoneInTurn`:
  `NobodyIsOvertaken`, of every step. The invariant adds to the types that the list
  is `Single`, so that the place found is the place kept, and `Patient`: the time
  left of a place is more than what its owner still waits, at every moment and not
  only when he comes back. What `cleanup` leaves is described by `ValidPart`, shown
  by induction on the length of the list: exactly the valid places, in their order.
- `CreaturesProofs`. `WellTyped`; `ReferencesAreCounted`: `RefsAreExact`;
  `DeletedAreForgotten`: `NothingDangles`; `EveryoneListedOnce`: `VectorsAgree`;
  `DeathsComeDue`: `TheDyingAreChecked`; for any monsters, players, places and number
  of check vectors, within any bounds (`Within`). `PlacesStayKept`:
  `PlacesAreKept`, with no assumption on the intervals. As in `SessionProofs` the
  methods take a world to a world and the invariant is `Sound(w, owed, left)`, kept
  by every method. The two sets are what makes it inductive over methods that call
  each other: `owed` are the creatures whose reference has been taken out of its
  place but not been given back (a destructor that gives back those of its
  summons), `left` the summons whose master has left the game and that are to
  follow (`removeCreature` of a master removes its summons, one after the other).
  Between tasks both are empty. Its parts need each other: a count that is exact
  says that the last reference is really the last (`LastReference`), which says
  that a deleted creature was in no vector, no place and nobody's master or list.
  A chain of deletions goes through `Doomed`: who is doomed has no references but
  those of the doomed (`Owned`), everyone else keeps one that is none of theirs
  (`Spared`), and as the doomed take their lists along, no entry is left of a
  monster that is gone (`Noting`). `Guarded` is for the spawn: `Living` are the
  monsters of the spawn in the game, and while nothing is armed there are as many
  of them as places, less those convinced away; a place has at most one monster or
  one chain unless it was doubled. `Listed` is `VectorsAgree` with the vectors as
  sequences, whatever the iterator of `checkCreatures`. Methods that go through a set are
  folds; the invariant goes through them by induction on the subsets of a finite
  set (`SubsetInduction`), and through `CheckBegin` by induction on how many
  creatures have been dealt out to the vectors (`Dealt`).

- `DispatcherProofs`, the decay. `TypeCorrect`; `ReferencesAreExact`; `MarkedIsListed`, for any
  items, types, chains and durations, from `KindsAssumption`. The
  invariant `IInv` adds what the actions rely on: the item being decayed is placed
  and may decay (`DueDecays`), only the loop holds entries outside of the lists
  (`LoopIsEmpty`), and an object that is not allocated carries no mark
  (`FreeAreUnmarked`). That a computed bucket is always one of the four
  (`BucketsAgree`) is why no entry is lost when one moves; a mark without
  an entry is one that `Becomes` or `StaysPut` has left, and these put the item
  among the `spent`. `DecaysOnTime` is `OnTime`, from the invariant `CInv` on top of that:
  the `Countdown` of an item says how far what is left of its time and its
  duration, of which the loop takes a round at every visit, may differ, given the
  bucket of its entry and the number of checks until that is visited
  (`ChecksTill`). `FirstIsPunctual` and `RestIsPunctual` are the arithmetic of the
  three roundings.

- `ItemsProofs`. `ContentsAlwaysAgree`: `ContentsAgree`; `NothingIsEverLost`:
  `NothingIsLost`; `EveryMoveConserves`: `MovesConserve`, of every step. For any
  finite sets of bags, coins, gems and slots, any capacities above 0, any size of
  a stack and any strength of the player, from `ItemsAssumption`: the kinds of items
  are apart, and some slot takes bags. The invariant `Kept` is made of a part about
  the world a method leaves, `Sound(w)`, and two that not every method keeps.
  `Sound` is `Nested` (no bag in itself, said by a set that goes up from parent to
  parent), `Placed` (the lists agree with the parents) and `Weighed` (a cached weight
  is the sum of what lies in the bag). They need each other: a weight that goes up
  the chain of parents meets every bag once only because nothing lies in itself, and
  is right only if the item was in the one list it is taken from. `Charged` says that
  the player is charged at most for what he carries; a removal breaks it until the
  notification that follows, so each lemma says whose weight may be out of date.
  The third part, that what was given is there, follows the tries of `internalAddItem`
  (`Stacking`: the coins of the new stack and of those it was put on are together
  what there was, and what the first try left is no less than what is still to be
  added) and the rounds of `removeMoney` (`Paying`: what was taken is at most what
  was to be paid, less what is left). `QueryAdd` is where a bag is kept out of the
  bags it holds, and `DestinationIsReached` shows that what the destination names
  lies where the item goes, which is what stacking relies on. The sums are those of
  the community modules; that they may be taken in any order is proved from
  `SubsetInduction`. That the tries and the rounds end within their bounds is not
  proved: a run that went on would be left out by the model, and TLC finds none.

- `TargetsProofs`. `TypeCorrect`; `AimsAreSafe`: `TargetsAreInSight`;
  `NobodyOversleeps`: `AwakeWhenNeeded`; for any finite sets of monsters, players and
  places, any floors, sights and protection zones and any way to teleport summons,
  from `TargetsAssumption` alone: one sees where one stands, a client sees no more
  than a monster would, and `Viewport` is symmetric. Both
  properties are false while a call is under way. The invariant is therefore
  `Sound(w, k)`, about a world `w` and the calls `k` that are left to be made: every
  relation that does not hold is one that a call in `k` repairs. Who aims at somebody
  out of its sight is still to be told of a move of one of the two (`Pair`, with
  `Zone` for the protection zones); who does not know a player it sees is still to
  look around or to be told that he came (`Known`), and a summon that sleeps is still
  to be woken up (`Served`). For a notice to repair it, `Frames` says
  of all calls that are left what is not said anywhere in the code: who is moving is
  not on his way out and is where the last notice of his moves says (`OnTheMove`), a
  summon teleports only as the next call and to where its master has just come
  (`GoesTo`), one who disappears is removed after all are told (`Withdraws`), a
  monster forgets only who is out of its sight or leaving (`Forgets`), and what is
  about a master comes after what is about his summon (`MasterLast`). `Family` is what the bound on summons gives:
  a summon and its master are a pair, and a master who is removed leaves a summon
  that is leaving. One lemma per kind of call (`GoSound`, `LoseSummonsSound`,
  `MovedSound`, `DisappearSound`, `RemovedSound`, ...) shows that the call to one
  creature, with the calls it puts in front, keeps `Sound`; `DoneIsSound` follows
  the steps by induction over their number, and with no call left `Sound` is
  `Quiet`, which implies the properties (`QuietIsSound`). Each action then starts
  from a quiet world, changes it, and owes nothing that its first call does not repair
  (`StartSound`); a death or a conviction first lets aims and summons go (`Loosens`).

Only model-checked: every liveness property (`AcceptedIsSettled`,
`QuitEndsDispatcher`, `SigTermRunsShutdown`, `WritingEnds`, `WaitersEnter`), which
TLAPS cannot prove under fairness; everything about `TaskEngine`, whose parts are
proved about one by one; and that the calls of `Targets` end within `MaxSteps`.

Out of the prover's reach altogether: liveness under fairness, ENABLED, theorems
of induction that take an operator, and RECURSIVE operators. Recursive functions
and folds are within reach when their induction is stated about a set: the set of
the numbers, or of the subsets, for which the claim holds (`NatBySuccessor`,
`SubsetInduction`).

## 6. What is not modelled

`PROJECT.json` gives the state of each component and the reason. In short:

- Nothing to interleave: parsing at start-up, formulas of combat, conditions and
  vocations, quests and outfits, map geometry and path search, ciphers, the
  Windows interface. These are sequential computations over data.
- Out of reach: SQL and Lua. With them go persistence, bans, guild wars, beds,
  rent and auctions of houses, raids and global events, whose states lie in
  database rows or scripts. The engine calls that scripts make are actions of
  the models wherever they touch modelled state.
- Left out inside of the modelled components: distances and lines of sight
  (trade), levels and activity of members (party), addresses (waiting list), the
  limit of connections per address (connection), signals other than SIGTERM
  (engine), clones and the account manager, chat and mutes of casts (session),
  walking, who is a friend, spells and damage (creatures), moves with FLAG_NOLIMIT or
  IGNOREAUTOSTACK, tile limits, depots, mailboxes, trash holders, teleports and the
  bank balance (items).
- Private and guild channels of the chat: their users are lists that log-out
  clears; only the party channels outlive what they belong to.
