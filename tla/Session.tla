------------------------------ MODULE Session ------------------------------
(***************************************************************************)
(* The sessions of the game protocol: ProtocolGame from its first packet to*)
(* its release, the Player objects it creates or takes over, the live casts*)
(* (Spectators) and the list of protocols whose output is flushed          *)
(* (OutputMessagePool).                                                    *)
(*                                                                         *)
(* The network thread queues tasks; the dispatcher thread runs them in     *)
(* order and, between any two of them, a due connect event or something    *)
(* the game does to a player.  A Player object is named after the          *)
(* connection whose login created it; its id is never used again.          *)
(***************************************************************************)
EXTENDS Integers, FiniteSets, Sequences, SequencesExt

CONSTANTS
  Conns,            \* bound: the connections that are ever accepted
  Names,            \* characters
  NULL

ASSUME SessionAssumption ==
  /\ NULL \notin Conns
  /\ IsFiniteSet(Conns)

VARIABLES
  conn,             \* the protocol of each connection, and its Connection
  obj,              \* the Player objects
  tasks,            \* the list of the dispatcher
  autosend,         \* OutputMessagePool::bufferedProtocols
  flushes,          \* sendAll events that are pending
  down              \* has the process ended in undefined behaviour?

vars == <<conn, obj, tasks, autosend, flushes, down>>

Requests == [op : {"login", "spectate"}, of : Conns, name : Names]
Tasks == Requests \cup [op : {"logout", "leave", "turn", "release"}, of : Conns]

TypeOK ==
  /\ conn \in [Conns ->
       [net       : {"idle", "open", "closed"},    \* connectionState
        linked    : BOOLEAN,                       \* does the Connection still exist?
        asked     : BOOLEAN,                       \* receivedFirst
        player    : Conns \cup {NULL},
        spectator : BOOLEAN,                       \* m_spectator
        accepts   : BOOLEAN,                       \* acceptPackets
        target    : Conns \cup {NULL},             \* whom eventConnect is for
        attempt   : {"none", "due", "done", "gave_up"},
        released  : BOOLEAN,                       \* history: release() has run
        late      : BOOLEAN]]                      \* history: connected after that
  /\ obj \in [Conns ->
       [name       : Names \cup {NULL},
        life       : {"none", "loaded", "game", "removed", "deleted"},
        refs       : Nat,                          \* refCount
        held       : BOOLEAN,                      \* has the game a reference?
        owner      : Conns \cup {NULL},            \* client->owner
        watchers   : SUBSET Conns,                 \* client->spectators
        cast       : BOOLEAN,                      \* client->broadcast
        connecting : BOOLEAN]]                     \* isConnecting
  /\ tasks \in Seq(Tasks)
  /\ autosend \subseteq Conns
  /\ flushes \in Nat
  /\ down \in BOOLEAN

Init ==
  /\ conn = [c \in Conns |->
       [net |-> "idle", linked |-> TRUE, asked |-> FALSE, player |-> NULL,
        spectator |-> FALSE, accepts |-> FALSE, target |-> NULL,
        attempt |-> "none",        released |-> FALSE, late |-> FALSE]]
  /\ obj = [o \in Conns |->
       [name |-> NULL, life |-> "none", refs |-> 0, held |-> FALSE, owner |-> NULL,
        watchers |-> {}, cast |-> FALSE, connecting |-> FALSE]]
  /\ tasks = <<>>
  /\ autosend = {}
  /\ flushes = 0
  /\ down = FALSE

----------------------------------------------------------------------------
(* The methods, from a world to the world they leave                       *)

World == [conn |-> conn, obj |-> obj, tasks |-> tasks, autosend |-> autosend,
          flushes |-> flushes]

Becomes(w) ==
  /\ conn' = w.conn
  /\ obj' = w.obj
  /\ tasks' = w.tasks
  /\ autosend' = w.autosend
  /\ flushes' = w.flushes

InGame(w, name) == {o \in Conns : w.obj[o].life = "game" /\ w.obj[o].name = name}

\* Connection::close of each of the connections C.
Disconnect(w, C) ==
  LET open == {c \in C : w.conn[c].net = "open"}
  IN  [w EXCEPT
        !.conn = [c \in Conns |-> [w.conn[c] EXCEPT !.net = IF c \in open THEN "closed" ELSE @]],
        !.tasks = @ \o SetToSeq([op : {"release"}, of : open])]

\* Thing::addRef and unRef.  Mutant: the second protocol is not counted.
CountsOne(w, o) == [w EXCEPT !.obj[o].refs = IF @ <= 1 THEN @ + 1 ELSE @]
AddRef(w, o) == [w EXCEPT !.obj[o].refs = @ + 1]

UnRef(w, o) ==
  [w EXCEPT !.obj[o].refs = @ - 1,
            !.obj[o].life = IF w.obj[o].refs = 1 THEN "deleted" ELSE @]

Cleared(w, o) == {}

\* Spectators::clear: the watchers are disconnected.
Clear(w, o, full) ==
  Disconnect([w EXCEPT !.obj[o].watchers = Cleared(w, o),
                       !.obj[o].cast = @ /\ ~full], w.obj[o].watchers)

\* removeCreature, with onCreatureDisappear.
RemoveCreature(w, o) == [Clear(w, o, TRUE) EXCEPT !.obj[o].life = "removed"]

\* addProtocolToAutosend.  Mutant: the empty list is looked for after the insertion.
FlushRunsAlready(w) == w.flushes
StartsFlush(w) == IF w.autosend = {} THEN w.flushes + 1 ELSE w.flushes

AddToAutosend(w, c) ==
  [w EXCEPT !.flushes = StartsFlush(w), !.autosend = @ \cup {c}]

\* Protocol::logout of the player o by his protocol c; a script may forbid it.
LoggedOut(w, c) ==
  LET o == w.conn[c].player
      v == Disconnect(Clear(w, o, TRUE), {c})
  IN  IF w.obj[o].life = "game" THEN RemoveCreature(v, o) ELSE v

----------------------------------------------------------------------------
(* The network thread                                                      *)

Accept(c) ==
  /\ conn[c].net = "idle"
  /\ conn' = [conn EXCEPT ![c].net = "open"]
  /\ UNCHANGED <<obj, tasks, autosend, flushes>>

\* onRecvFirstMessage refuses, or queues what is asked for.
FirstMessage(c) ==
  /\ conn[c].net = "open"
  /\ ~conn[c].asked
  /\ LET w == [World EXCEPT !.conn[c].asked = TRUE]
     IN  \/ Becomes(Disconnect(w, {c}))
         \/ \E r \in Requests :
              /\ r.of = c
              /\ Becomes([w EXCEPT !.tasks = Append(@, r)])

\* parsePacket queues a task.  Bound: one task of a connection at a time.
Packet(c) ==
  /\ conn[c].net = "open"
  /\ conn[c].accepts /\ conn[c].player # NULL
  /\ \A i \in DOMAIN tasks : tasks[i].of # c
  /\ \E op \in IF conn[c].spectator THEN {"leave", "turn"} ELSE {"logout"} :
       tasks' = Append(tasks, [op |-> op, of |-> c])
  /\ UNCHANGED <<conn, obj, autosend, flushes>>

\* The peer breaks off, or a timer runs out.
BreakOff(c) ==
  /\ conn[c].net = "open"
  /\ Becomes(Disconnect(World, {c}))

\* The last handler that holds the closed Connection ends.
Expire(c) ==
  /\ conn[c].net = "closed"
  /\ conn[c].linked
  /\ conn' = [conn EXCEPT ![c].linked = FALSE]
  /\ UNCHANGED <<obj, tasks, autosend, flushes>>

----------------------------------------------------------------------------
(* The tasks of the dispatcher                                             *)

\* The task c is at the head of the list; v is the world without it.
AtHead(op, c) == tasks # <<>> /\ Head(tasks).op = op /\ Head(tasks).of = c
Rest == [World EXCEPT !.tasks = Tail(@)]

\* Mutant: login does not look for the character.
NobodyFound(w, name) == {}

FoundPlayers(w, name) == InGame(w, name)

\* login of a character who is not in the game: refused, placed, or placed and
\* thrown out again by the login script.
LoginNew(c) ==
  /\ AtHead("login", c)
  /\ FoundPlayers(World, Head(tasks).name) = {}
  /\ LET w == [Rest EXCEPT !.conn[c].player = c,
                           !.obj[c] = [@ EXCEPT !.name = Head(tasks).name,
                                                !.life = "loaded",
                                                !.refs = 1, !.owner = c]]
         v == [w EXCEPT !.obj[c] = [@ EXCEPT !.life = "game", !.refs = 2, !.held = TRUE]]
         placed == AddToAutosend([v EXCEPT !.conn[c].accepts = TRUE], c)
     IN  \/ Becomes(Disconnect(w, {c}))
         \/ Becomes(placed)
         \/ Becomes(LoggedOut(placed, c))

\* login of a character who is: his client is disconnected, and in a second
\* this protocol connects to him.
LoginAgain(c) ==
  /\ AtHead("login", c)
  /\ \E o \in FoundPlayers(World, Head(tasks).name) :
       LET w == Disconnect(Rest, {obj[o].owner} \ {NULL})
       IN  Becomes(AddToAutosend([w EXCEPT !.obj[o].connecting = TRUE,
                                           !.conn[c].target = o,
                                           !.conn[c].attempt = "due"], c))

\* Mutants: isConnecting is not reset; connect does not look for a client.
StaysConnecting(w, c, o) == [w.obj[o] EXCEPT !.owner = c]
Connected(w, c, o) == [w.obj[o] EXCEPT !.owner = c, !.connecting = FALSE]

TakesOver(w, o) == w.obj[o].life = "game"
MayConnect(w, o) == w.obj[o].life = "game" /\ w.obj[o].owner = NULL

\* connect, an event of the scheduler: it is put in front of the list.
Connect(c) ==
  LET o == conn[c].target
      w == [World EXCEPT !.conn[c].attempt = "gave_up"]
      v == [World EXCEPT !.conn[c] = [@ EXCEPT !.attempt = "done", !.player = o,
                                               !.accepts = TRUE,
                                               !.late = conn[c].released],
                         !.obj[o] = Connected(World, c, o)]
  IN  /\ conn[c].attempt = "due"
      /\ Becomes(IF ~MayConnect(w, o) THEN Disconnect(w, {c})
                 ELSE IF conn[c].linked THEN AddRef(v, o) ELSE w)

\* spectate: the stream is unavailable or refuses, or the protocol watches it.
Spectate(c) ==
  /\ AtHead("spectate", c)
  /\ \/ Becomes(Disconnect(Rest, {c}))
     \/ \E o \in InGame(World, Head(tasks).name) :
          /\ obj[o].cast /\ obj[o].owner # NULL
          /\ LET w == [Rest EXCEPT !.conn[c] = [@ EXCEPT !.player = o, !.spectator = TRUE,
                                                         !.accepts = TRUE],
                                   !.obj[o].watchers = @ \cup {c}]
             IN  Becomes(AddToAutosend(AddRef(w, o), c))

\* spectatorTurn to another stream.  It dereferences the first stream of an
\* empty list, and the owner of a stream that has none.
Streams == {o \in Conns : obj[o].life = "game" /\ obj[o].cast}

TurnFails(c) ==
  /\ AtHead("turn", c)
  /\ Streams = {} \/ \E o \in Streams \ {conn[c].player} : obj[o].owner = NULL

Turn(c) ==
  /\ AtHead("turn", c)
  /\ LET w == Rest
         old == conn[c].player
         v == UnRef([w EXCEPT !.obj[old].watchers = @ \ {c}], old)
     IN  \/ Becomes(w)
         \/ \E o \in Streams \ {old} :
              /\ obj[o].owner # NULL
              /\ Becomes(AddRef([v EXCEPT !.conn[c].player = o,
                                          !.obj[o].watchers = @ \cup {c}], o))

\* Mutant: release leaves the lists of the cast alone.
StaysWatching(w, c, o) == w
Unwatch(w, c, o) ==
  IF w.obj[o].cast THEN [w EXCEPT !.obj[o].watchers = @ \ {c}] ELSE w

\* Protocol::release resets the owner if it is still its own player.
DisownedBy(w, c, o) == IF w.obj[o].owner = c THEN NULL ELSE w.obj[o].owner

Release(c) ==
  /\ AtHead("release", c)
  /\ LET w == [Rest EXCEPT !.autosend = @ \ {c}, !.conn[c].released = TRUE]
         o == conn[c].player
         v == IF conn[c].spectator THEN Unwatch(w, c, o)
              ELSE [w EXCEPT !.obj[o].owner = DisownedBy(w, c, o)]
     IN  Becomes(IF o = NULL THEN w ELSE UnRef([v EXCEPT !.conn[c].player = NULL], o))

Logout(c) ==
  /\ AtHead("logout", c)
  /\ \/ Becomes(Rest)
     \/ conn[c].player # NULL /\ Becomes(LoggedOut(Rest, c))

Leave(c) ==
  /\ AtHead("leave", c)
  /\ Becomes(Disconnect(Rest, {c}))

----------------------------------------------------------------------------
(* The game                                                                *)

\* Player::onThink of a player without a client who has not answered for a
\* minute, when no fight and no script keeps him.
KickAbsent(o) ==
  /\ obj[o].life = "game"
  /\ obj[o].owner = NULL
  /\ ~obj[o].connecting
  /\ Becomes(RemoveCreature(World, o))

\* The same with a client, or Player::kick.
Kick(o) ==
  /\ obj[o].life = "game"
  /\ Becomes(IF obj[o].owner = NULL THEN RemoveCreature(World, o) ELSE LoggedOut(World, obj[o].owner))

\* Player::onDeath: the client stays.
Die(o) ==
  /\ obj[o].life = "game"
  /\ Becomes(RemoveCreature(World, o))

\* doPlayerSetSpectators: on or off, with a new password or without, and some
\* of the watchers are kicked or banned.
SetCast(o) ==
  /\ obj[o].life = "game"
  /\ \E on, newPassword \in BOOLEAN :
       LET w == IF newPassword \/ (~on /\ obj[o].cast) THEN Clear(World, o, FALSE) ELSE World
       IN  \E kicked \in SUBSET w.obj[o].watchers :
             Becomes([Disconnect(w, kicked) EXCEPT !.obj[o].cast = on])

\* cleanup: the game gives its reference to a removed creature back.
Cleanup(o) ==
  /\ obj[o].life = "removed"
  /\ obj[o].held
  /\ Becomes(UnRef([World EXCEPT !.obj[o].held = FALSE], o))

\* sendAll, every three milliseconds while there is a protocol.
SendAll ==
  /\ flushes > 0
  /\ flushes' = IF autosend = {} THEN flushes - 1 ELSE flushes
  /\ UNCHANGED <<conn, obj, tasks, autosend>>

----------------------------------------------------------------------------
RunTask ==
  \E c \in Conns : \/ LoginNew(c) \/ LoginAgain(c) \/ Spectate(c) \/ Turn(c)
                   \/ Release(c) \/ Logout(c) \/ Leave(c)

Network ==
  \E c \in Conns : Accept(c) \/ FirstMessage(c) \/ Packet(c) \/ BreakOff(c) \/ Expire(c)

Play ==
  \E o \in Conns : KickAbsent(o) \/ Kick(o) \/ Die(o) \/ SetCast(o) \/ Cleanup(o)

Step == Network \/ RunTask \/ (\E c \in Conns : Connect(c)) \/ Play \/ SendAll

Next ==
  /\ ~down
  /\ \/ Step /\ UNCHANGED down
     \/ (\E c \in Conns : TurnFails(c)) /\ down' = TRUE
        /\ UNCHANGED <<conn, obj, tasks, autosend, flushes>>

Spec == Init /\ [][Next]_vars

----------------------------------------------------------------------------
(* Properties                                                              *)

Playing(o) == {c \in Conns : conn[c].player = o /\ ~conn[c].spectator}
Watching(o) == {c \in Conns : conn[c].player = o /\ conn[c].spectator}

\* However logins, takeovers and removals interleave, a character is in the game
\* once.  A player of the game is played by one protocol at most, his owner, and a
\* protocol that was released is no owner of his, unless it connected after
\* that: what Player::client sends to reaches his own client (takeovers of
\* protocolgame.cpp:517-534 and 622-654 against the releases still queued).
OwnerPlays ==
  /\ \A name \in Names : Cardinality(InGame(World, name)) <= 1
  /\ \A o \in Conns : obj[o].life = "game" =>
       /\ Playing(o) = {obj[o].owner} \ {NULL}
       /\ \A c \in Playing(o) : conn[c].released => conn[c].late

\* Spectators keeps raw pointers to protocols: each of them is alive (its
\* release is yet to come), a spectator, watches this player and no other, and
\* the cast it watches is on.
WatchersAreAlive ==
  \A o \in Conns : \A c \in obj[o].watchers :
    /\ c \in Watching(o)
    /\ ~conn[c].released
    /\ obj[o].cast

\* The reference count of a player is the number of the protocols that point to
\* him and of the game's own reference; he is deleted when, and only when, none
\* is left (addRef and unRef in login, connect, spectate, spectatorTurn,
\* release, placeCreature and cleanup).
RefsAreExact ==
  \A o \in Conns : obj[o].life # "none" =>
    /\ obj[o].refs = Cardinality(Playing(o) \cup Watching(o)) + (IF obj[o].held THEN 1 ELSE 0)
    /\ obj[o].life = "deleted" <=> obj[o].refs = 0

\* While a protocol waits for its output to be sent, a flush is pending; and the
\* list holds no protocol that was released.
FlushIsPending ==
  /\ autosend # {} => flushes > 0
  /\ \A c \in autosend : ~conn[c].released

\* isConnecting, which keeps an absent player in the game (player.cpp:1976), is
\* set only while a connect is due, or after one that gave up: connect returns
\* in front of its reset (protocolgame.cpp:626-637), and this player stays.
ConnectingIsDue ==
  \A o \in Conns : obj[o].life = "game" /\ obj[o].connecting =>
    \E c \in Conns : conn[c].target = o /\ conn[c].attempt \in {"due", "gave_up"}
=============================================================================
