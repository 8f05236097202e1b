----------------------------- MODULE Creatures -----------------------------
(***************************************************************************)
(* The life of creatures: placing and removing, the vectors of creatures   *)
(* that are checked in turn (Game::checkCreatures), summons, deaths, the   *)
(* spawn that refills its places, the targets and friends of monsters, and *)
(* the references that keep a Creature object alive.                       *)
(*                                                                         *)
(* All of it runs on the dispatcher thread.  checkCreatures is a loop with *)
(* an iterator into a vector (at), and what a creature does when it thinks *)
(* or attacks are the operations of the game below, which may therefore    *)
(* happen between two steps of the loop as well as outside of it.          *)
(***************************************************************************)
EXTENDS Integers, FiniteSets, Sequences, SequencesExt, FiniteSetsExt

CONSTANTS
  Monsters,         \* bound: the Monster objects there can be at a time
  Players,          \* the players who are in the game at first
  Places,           \* spawnMap of the one spawn
  VectorCount,      \* EVENT_CREATURECOUNT
  Lists,            \* the lists of a monster: targetList and friendList
  Within(_, _, _),  \* bound: the entries of lists, the chains of events that blink
                    \* and the doubled places there may be at a time
  NULL

ASSUME CreaturesAssumption ==
  /\ IsFiniteSet(Monsters) /\ IsFiniteSet(Players) /\ IsFiniteSet(Places)
  /\ Monsters \cap Players = {}
  /\ NULL \notin Monsters \cup Players \cup Places
  /\ VectorCount \in Nat \ {0}
  /\ Lists \subseteq {"target", "friend"}

VARIABLES
  creature,         \* the objects
  toAdd,            \* toAddCheckCreatureVector
  checks,           \* checkCreatureVectors
  last,             \* checkCreatureLastIndex
  at,               \* the iterator of checkCreatures, 0 outside of the loop
  known,            \* <<m, l, c>>: c is in list l of monster m
  spawned,          \* spawnedMap
  blinking,         \* chains of spawnMonster events on their way, by place
  rested,           \* is the interval of a place over?
  armed,            \* checkSpawnEvent
  convinced,        \* history: monsters that left the spawn by it since its last check
  doubled           \* history: places where a second monster began to blink

vars == <<creature, toAdd, checks, last, at, known, spawned, blinking, rested, armed,
          convinced, doubled>>

Creature == Monsters \cup Players
Vectors == 0 .. VectorCount - 1

TypeOK ==
  /\ creature \in [Creature ->
       [life    : {"none", "game", "removed"},
        alive   : BOOLEAN,                       \* health > 0
        checked : BOOLEAN,
        vec     : {-1} \cup Vectors,             \* checkVector
        refs    : Nat,                           \* refCount
        freed   : Nat,                           \* how often it is in releaseThings
        client  : BOOLEAN,                       \* has a protocol a reference?
        master  : Creature \cup {NULL},
        summons : SUBSET Monsters,
        place   : Places \cup {NULL}]]           \* whose monster it is, if it has a spawn
  /\ toAdd \in Seq(Creature)
  /\ checks \in [Vectors -> Seq(Creature)]
  /\ last \in Vectors
  /\ at \in Nat
  /\ known \subseteq Monsters \X Lists \X Creature
  /\ spawned \in [Places -> SUBSET Monsters]
  /\ blinking \in [Places -> Nat]
  /\ rested \in [Places -> BOOLEAN]
  /\ armed \in BOOLEAN
  /\ convinced \in Nat
  /\ doubled \subseteq Places

Nothing ==
  [life |-> "none", alive |-> TRUE, checked |-> FALSE, vec |-> -1, refs |-> 0, freed |-> 0,
   client |-> FALSE, master |-> NULL, summons |-> {}, place |-> NULL]

\* Spawn::startup has put a monster, which sleeps, into each place; the players
\* have logged in.
Init ==
  /\ \E first \in [Places -> Monsters] :
       /\ \A p, q \in Places : first[p] = first[q] => p = q
       /\ creature = [c \in Creature |->
            IF c \in Players
            THEN [Nothing EXCEPT !.life = "game", !.checked = TRUE, !.vec = 0,
                                 !.refs = 3, !.client = TRUE]
            ELSE IF \E p \in Places : first[p] = c
            THEN [Nothing EXCEPT !.life = "game", !.refs = 2,
                                 !.place = CHOOSE p \in Places : first[p] = c]
            ELSE Nothing]
       /\ spawned = [p \in Places |-> {first[p]}]
  /\ toAdd = <<>>
  /\ checks = [v \in Vectors |-> IF v = 0 THEN SetToSeq(Players) ELSE <<>>]
  /\ last = 0
  /\ at = 0
  /\ known = {}
  /\ blinking = [p \in Places |-> 0]
  /\ rested = [p \in Places |-> FALSE]
  /\ armed = FALSE
  /\ convinced = 0
  /\ doubled = {}

----------------------------------------------------------------------------
(* The methods, from a world to the world they leave                       *)

World ==
  [cr |-> creature, toAdd |-> toAdd, known |-> known, spawned |-> spawned, armed |-> armed]

Becomes(w) ==
  /\ creature' = w.cr
  /\ toAdd' = w.toAdd
  /\ known' = w.known
  /\ spawned' = w.spawned
  /\ armed' = w.armed

InGame(w, c) == w.cr[c].life = "game"

\* The references to c that the creatures of X give back when they are deleted.
\* Mutant: a monster is deleted with its lists as they are.
OwnedAsMaster(w, X, c) == Cardinality({d \in X : c \in w.cr[d].summons})
Owned(w, X, c) ==
  Cardinality({d \in X : c \in w.cr[d].summons})
    + Cardinality({n \in w.known : n[1] \in X /\ n[3] = c})

\* ~Monster and ~Creature of all of X: the lists are cleared, and the summons lose
\* their master.  Mutant: they keep a pointer to him.
MasterStays(w, X) ==
  [w EXCEPT !.known = {n \in @ : n[1] \notin X},
            !.cr = [c \in Creature |->
              IF c \in X THEN Nothing ELSE [w.cr[c] EXCEPT !.refs = @ - Owned(w, X, c)]]]
Deleted(w, X) ==
  [w EXCEPT !.known = {n \in @ : n[1] \notin X},
            !.cr = [c \in Creature |->
              IF c \in X THEN Nothing
              ELSE [w.cr[c] EXCEPT !.refs = @ - Owned(w, X, c),
                                   !.master = IF \E d \in X : c \in w.cr[d].summons
                                              THEN NULL ELSE @]]]

\* A destructor deletes those whose last references it gives back, and so on: the
\* least set with everyone who has no references but those of its members.
IsClosed(w, X) ==
  \A c \in Creature : w.cr[c].life # "none" /\ w.cr[c].refs <= Owned(w, X, c) => c \in X
Doomed(w) ==
  {c \in Creature : \A X \in SUBSET Creature : IsClosed(w, X) => c \in X}

\* Thing::unRef.
UnRef(w, c) ==
  LET v == [w EXCEPT !.cr[c].refs = @ - 1]
  IN  IF w.cr[c].refs # 1 THEN v ELSE Deleted(v, Doomed(v))

\* Entries of the lists are erased, and their references given back.  Mutant: the
\* lists are not emptied after it.
KeepsEntries(w, S) == FoldSet(LAMBDA n, x : UnRef(x, n[3]), w, S)
Forgets(w, S) ==
  FoldSet(LAMBDA n, x : IF n \in x.known THEN UnRef([x EXCEPT !.known = @ \ {n}], n[3]) ELSE x,
          w, S)

Entries(w, m) == {n \in w.known : n[1] = m}

\* addCreatureCheck, with v for its random vector.  Mutant: a creature that is
\* about to leave its vector is added to another one.
IsListedAndChecked(w, c) == w.cr[c].vec >= 0 /\ w.cr[c].checked
IsListed(w, c) == w.cr[c].vec >= 0

AddCheck(w, c, v) ==
  IF ~InGame(w, c) THEN w
  ELSE IF IsListed(w, c) THEN [w EXCEPT !.cr[c].checked = TRUE]
  ELSE [w EXCEPT !.cr[c] = [w.cr[c] EXCEPT !.checked = TRUE, !.vec = v,
                                           !.refs = w.cr[c].refs + 1],
                 !.toAdd = Append(w.toAdd, c)]

\* removeCreatureCheck.
RemoveCheck(w, c) == [w EXCEPT !.cr[c].checked = FALSE]

\* Monster::setIdle.
SetIdle(w, m, idle, v) ==
  IF ~InGame(w, m) \/ ~w.cr[m].alive THEN w
  ELSE IF idle THEN RemoveCheck(Forgets(w, Entries(w, m)), m) ELSE AddCheck(w, m, v)

\* Monster::changeHealth to nothing.  Mutant: it does not wake the monster.
KilledAsleep(w, m, v) == [w EXCEPT !.cr[m].alive = FALSE]
Killed(w, m, v) == [SetIdle(w, m, FALSE, v) EXCEPT !.cr[m].alive = FALSE]

\* addSummon and removeSummon.  Mutant: the master's reference is not counted.
AddUncounted(w, c, m) == [w EXCEPT !.cr[m].master = c, !.cr[c].summons = @ \cup {m}]
AddSummon(w, c, m) ==
  [w EXCEPT !.cr[m].master = c, !.cr[m].refs = @ + 1, !.cr[c].summons = @ \cup {m}]

RemoveSummon(w, c, m) ==
  IF c = NULL \/ m \notin w.cr[c].summons THEN w
  ELSE UnRef([w EXCEPT !.cr[m].master = NULL, !.cr[c].summons = @ \ {m}], m)

\* destroySummons: they die when they are checked next.
DestroySummons(w, c, v) ==
  FoldSet(LAMBDA m, x : RemoveSummon(Killed(x, m, v), c, m), w, w.cr[c].summons)

\* What removeCreature does to one creature.  Before it is gone it starts the event
\* of its spawn and becomes idle, and the monsters that are told take it from their
\* lists (of told); others keep it, as it is not a friend or an opponent any more,
\* or out of sight.  A master who is gone keeps it in his list.  Its health and its
\* spawn are not read any more.  Mutant: the spawn is not told.
StartsNoEvent(w, c) == w.armed
StartsEvent(w, c) == w.armed \/ w.cr[c].place # NULL

TakenOut(w, c, told) ==
  LET u == Forgets(w, {n \in w.known : \/ n[3] = c /\ n \in told
                                       \/ n[1] = c /\ w.cr[c].alive})
      v == [u EXCEPT !.armed = StartsEvent(u, c),
                     !.cr[c] = [u.cr[c] EXCEPT !.life = "removed", !.alive = TRUE, !.place = NULL,
                                               !.checked = FALSE, !.freed = u.cr[c].freed + 1]]
      master == u.cr[c].master
  IN  IF master # NULL /\ InGame(v, master) THEN RemoveSummon(v, master, c) ELSE v

\* removeCreature: the summons go with their master.  Mutant: they stay.
LeavesSummons(w, c, told) == TakenOut(w, c, told)
RemoveCreature(w, c, told) ==
  FoldSet(LAMBDA m, x : TakenOut(x, m, told), TakenOut(w, c, told), w.cr[c].summons)

\* onDeath of a monster and of a player.
Dies(w, c, v, told) ==
  LET u == RemoveSummon(w, w.cr[c].master, c)
      x == DestroySummons(u, c, v)
  IN  RemoveCreature(IF c \in Monsters THEN Forgets(x, Entries(x, c)) ELSE u, c, told)

\* cleanup: the references in releaseThings are given back.
CleanedUp(w) ==
  FoldSet(LAMBDA c, x : UnRef([x EXCEPT !.cr[c].freed = @ - 1], c),
          FoldSet(LAMBDA c, x : UnRef([x EXCEPT !.cr[c].freed = @ - 1], c),
                  w, {c \in Creature : w.cr[c].freed = 2}),
          {c \in Creature : w.cr[c].freed > 0})

\* placeCreature: it is checked from now on, unless a script has removed it.
Placed(w, m, v, stays, told) ==
  LET u == [w EXCEPT !.cr[m] = [w.cr[m] EXCEPT !.life = "game", !.refs = w.cr[m].refs + 1]]
  IN  AddCheck(IF stays THEN u ELSE RemoveCreature(u, m, told), m, v)

----------------------------------------------------------------------------
(* checkCreatures                                                          *)

SpawnStays == UNCHANGED <<blinking, rested, convinced, doubled>>
LoopStays == UNCHANGED <<checks, last, at>>

\* Who may be told that a creature leaves: the monsters in the game that know it.
Told == SUBSET {n \in known : InGame(World, n[1])}

\* updateIdleStatus: whom its conditions keep awake is left open, but a monster
\* that is no summon and has a target does not fall asleep.
MayIdle(w, m) ==
  w.cr[m].master # NULL \/ \A n \in Entries(w, m) : n[2] # "target"

UpdatesIdle(w, m) ==
  \E idle \in BOOLEAN, v \in Vectors :
    /\ idle => MayIdle(w, m)
    /\ Becomes(SetIdle(w, m, idle, v))

\* Those to be added go to their vectors, one after the other.
CheckBegin ==
  /\ at = 0
  /\ last' = (last + 1) % VectorCount
  /\ LET dealt[n \in 0 .. Len(toAdd)] ==
           IF n = 0 THEN checks
           ELSE [dealt[n - 1] EXCEPT ![creature[toAdd[n]].vec] = Append(@, toAdd[n])]
     IN  checks' = dealt[Len(toAdd)]
  /\ toAdd' = <<>>
  /\ at' = 1
  /\ UNCHANGED <<creature, known, spawned, armed>> /\ SpawnStays

Current == checks[last][at]
Checking == at \in DOMAIN checks[last]

\* A creature that is no longer checked leaves the vector.
CheckDrop ==
  /\ Checking /\ ~creature[Current].checked
  /\ Becomes([World EXCEPT !.cr[Current].vec = -1, !.cr[Current].freed = @ + 1])
  /\ checks' = [checks EXCEPT ![last] = RemoveAt(@, at)]
  /\ UNCHANGED <<last, at>> /\ SpawnStays

CheckDeath ==
  /\ Checking /\ creature[Current].checked /\ ~creature[Current].alive
  /\ \E v \in Vectors, told \in Told : Becomes(Dies(World, Current, v, told))
  /\ at' = at + 1
  /\ UNCHANGED <<checks, last>> /\ SpawnStays

\* onThink, of the living and of those whose death a script denied: a monster
\* may despawn, or become idle.
CheckThink ==
  /\ Checking /\ creature[Current].checked
  /\ \/ Becomes(World)
     \/ Current \in Monsters /\ \E told \in Told : Becomes(RemoveCreature(World, Current, told))
     \/ Current \in Monsters /\ UpdatesIdle(World, Current)
  /\ at' = at + 1
  /\ UNCHANGED <<checks, last>> /\ SpawnStays

CheckEnd ==
  /\ at > Len(checks[last])
  /\ Becomes(CleanedUp(World))
  /\ at' = 0
  /\ UNCHANGED <<checks, last>> /\ SpawnStays

\* The end of checkCreatureWalk and of checkDecay.
Cleanup ==
  /\ at = 0
  /\ Becomes(CleanedUp(World))
  /\ LoopStays /\ SpawnStays

----------------------------------------------------------------------------
(* The game                                                                *)

Play == LoopStays /\ SpawnStays

Idle(m) ==
  /\ InGame(World, m)
  /\ UpdatesIdle(World, m)
  /\ Play

\* onCreatureFound: m lists a creature it sees, which a script may have removed a
\* moment before.
Notice(m, l, c) ==
  /\ InGame(World, m) /\ m # c
  /\ InGame(World, c) \/ creature[c].freed > 0
  /\ <<m, l, c>> \notin known
  /\ Within(known \cup {<<m, l, c>>}, blinking, doubled)
  /\ UpdatesIdle([World EXCEPT !.known = @ \cup {<<m, l, c>>}, !.cr[c].refs = @ + 1], m)
  /\ Play

\* updateTargetList, onCreatureLeave and onFollowCreatureComplete: m loses sight of
\* a creature it lists, or cannot follow it.
Forget(n) ==
  /\ InGame(World, n[1])
  /\ UpdatesIdle(Forgets(World, {n}), n[1])
  /\ Play

\* drainHealth.
Kill(c) ==
  /\ InGame(World, c) /\ creature[c].alive
  /\ \E v \in Vectors :
       Becomes(IF c \in Monsters THEN Killed(World, c, v) ELSE [World EXCEPT !.cr[c].alive = FALSE])
  /\ Play

\* A creature that was killed is healed before it is checked.
Heal(c) ==
  /\ InGame(World, c) /\ ~creature[c].alive
  /\ Becomes([World EXCEPT !.cr[c].alive = TRUE])
  /\ Play

\* removeCreature by a script, a logout or a kick.
Removal(c) ==
  /\ InGame(World, c)
  /\ \E told \in Told : Becomes(RemoveCreature(World, c, told))
  /\ Play

\* placeSummon, and the summons of a monster.  When there is no room the new
\* object is deleted at once.  Bound: who is a summon does not summon.
Summon(c, m) ==
  /\ InGame(World, c) /\ creature[c].master = NULL
  /\ creature[m].life = "none"
  /\ \E v \in Vectors, stays \in BOOLEAN, told \in Told :
       Becomes(Placed(AddSummon(World, c, m), m, v, stays, told))
  /\ Play

\* convinceCreature: the monster leaves its master, its summons and its spawn.  Who
\* is a friend or a target now is Notice and Forget.
Convince(c, m) ==
  /\ InGame(World, c) /\ InGame(World, m)
  /\ creature[m].master # c
  /\ \E v \in Vectors, idle \in BOOLEAN :
       LET w == AddSummon(DestroySummons(RemoveSummon(World, creature[m].master, m), m, v), c, m)
           u == SetIdle(w, m, idle, v)
           p == creature[m].place
       IN  /\ idle => MayIdle(w, m)
           /\ IF p = NULL THEN Becomes(u) /\ SpawnStays
              ELSE /\ Becomes(UnRef([u EXCEPT !.spawned[p] = @ \ {m}, !.cr[m].place = NULL], m))
                   /\ convinced' = convinced + 1
                   /\ UNCHANGED <<blinking, rested, doubled>>
  /\ LoopStays

\* release of the protocol of a player who was removed (module Session).
ReleaseClient(c) ==
  /\ creature[c].client /\ creature[c].life = "removed"
  /\ Becomes(UnRef([World EXCEPT !.cr[c].client = FALSE], c))
  /\ Play

----------------------------------------------------------------------------
(* The spawn                                                               *)

\* The interval of a place, counted from lastSpawn, is over.
Rest(p) ==
  /\ ~rested[p]
  /\ rested' = [rested EXCEPT ![p] = TRUE]
  /\ UNCHANGED <<creature, toAdd, known, spawned, armed, blinking, convinced, doubled>>
  /\ LoopStays

Erased(w) ==
  LET gone == {m \in Monsters : w.cr[m].life = "removed" /\ \E p \in Places : m \in w.spawned[p]}
  IN  FoldSet(LAMBDA m, x : UnRef(x, m),
              [w EXCEPT !.spawned = [p \in Places |-> w.spawned[p] \ gone]], gone)

IsShort(w) == Cardinality(UNION {w.spawned[p] : p \in Places}) < Cardinality(Places)

\* Mutant: a place is filled without a look at who is there.
NeedsOneMore(w, p) == Cardinality(w.spawned[p]) <= 1
IsVacant(w, p) == w.spawned[p] = {}

\* checkSpawn: monsters that were removed are erased, and their places rest; a
\* place that is vacant and rested starts to blink (RATE_SPAWN_MAX is 1), after
\* those in front of it were put off because a player is near.  A monster that
\* blinks is not in spawnedMap, so its place is vacant.
CheckSpawn ==
  /\ armed /\ at = 0
  /\ LET w == Erased(World)
         left == {p \in Places : w.spawned[p] # spawned[p]}
         due == {p \in Places : IsVacant(w, p) /\ rested[p] /\ p \notin left}
     IN  \E late \in SUBSET due, starts \in SUBSET due :
           /\ late \cap starts = {} /\ Cardinality(starts) <= 1
           /\ starts = {} => late = due
           /\ Becomes([w EXCEPT !.armed = IsShort(w)])
           /\ blinking' = [p \in Places |-> blinking[p] + IF p \in starts THEN 1 ELSE 0]
           /\ rested' = [p \in Places |-> rested[p] /\ p \notin late \cup left]
           /\ doubled' = {p \in Places : \/ p \in starts /\ blinking[p] > 0
                                         \/ /\ p \in doubled
                                            /\ w.spawned[p] # {} \/ blinking[p] > 0}
  /\ Within(known, blinking', doubled')
  /\ convinced' = 0
  /\ LoopStays

\* The last spawnMonster of the chain, 4.2 seconds later.  The place may be
\* taken, and a script may remove the monster while it appears, before it knows
\* its spawn.
SpawnMonster(p, m) ==
  /\ blinking[p] > 0 /\ at = 0
  /\ creature[m].life = "none"
  /\ blinking' = [blinking EXCEPT ![p] = @ - 1]
  /\ \/ UNCHANGED <<creature, toAdd, known, spawned, armed, rested>>
     \/ /\ \E v \in Vectors, stays \in BOOLEAN, told \in Told :
             LET w == Placed(World, m, v, stays, told)
             IN  Becomes([w EXCEPT !.cr[m].place = p, !.cr[m].refs = @ + 1,
                                   !.spawned[p] = @ \cup {m}])
        /\ rested' = [rested EXCEPT ![p] = FALSE]
  /\ UNCHANGED <<convinced, doubled>> /\ LoopStays

----------------------------------------------------------------------------
Check == CheckBegin \/ CheckDrop \/ CheckDeath \/ CheckThink \/ CheckEnd \/ Cleanup

Game ==
  \/ \E m \in Monsters : Idle(m)
  \/ \E c \in Creature : Kill(c) \/ Heal(c) \/ Removal(c)
  \/ \E m \in Monsters, l \in Lists, c \in Creature : Notice(m, l, c)
  \/ \E n \in known : Forget(n)
  \/ \E c \in Creature, m \in Monsters : Summon(c, m)
  \/ \E c \in Players, m \in Monsters : Convince(c, m)
  \/ \E c \in Players : ReleaseClient(c)

Spawn == CheckSpawn \/ \E p \in Places : Rest(p) \/ \E m \in Monsters : SpawnMonster(p, m)

Next == Check \/ Game \/ Spawn

Spec == Init /\ [][Next]_vars

----------------------------------------------------------------------------
(* Properties                                                              *)

Count(B) == IF B THEN 1 ELSE 0
InToAdd(c) == Cardinality({i \in DOMAIN toAdd : toAdd[i] = c})
InVector(c, v) == Cardinality({i \in DOMAIN checks[v] : checks[v][i] = c})

\* A reference is counted for each pointer that owns one, and an object is
\* deleted with the last of them: the game, releaseThings, a check vector, a
\* master, the spawn, a protocol and the target and friend lists of monsters give
\* theirs back in any order, and so do the destructors of those deleted.
RefsAreExact ==
  \A c \in Creature :
    creature[c].life # "none" =>
      /\ creature[c].refs > 0
      /\ creature[c].refs = Count(InGame(World, c)) + creature[c].freed
           + InToAdd(c) + FoldSet(LAMBDA v, n : n + InVector(c, v), 0, Vectors)
           + Count(creature[c].client)
           + Cardinality({d \in Creature : c \in creature[d].summons})
           + Cardinality({p \in Places : c \in spawned[p]})
           + Cardinality({n \in known : n[3] = c})

\* No list and no creature points to an object that was deleted; and a summon
\* has a master who has it in his list, and who is in the game as long as it is.
NothingDangles ==
  /\ \A c \in Creature : creature[c].life = "none" =>
       /\ creature[c] = Nothing
       /\ \A d \in Creature : creature[d].master # c /\ c \notin creature[d].summons
       /\ \A p \in Places : c \notin spawned[p]
       /\ \A n \in known : n[1] # c /\ n[3] # c
       /\ \A i \in DOMAIN toAdd : toAdd[i] # c
       /\ \A v \in Vectors : \A i \in DOMAIN checks[v] : checks[v][i] # c
  /\ \A m \in Monsters : InGame(World, m) /\ creature[m].master # NULL =>
       m \in creature[creature[m].master].summons /\ InGame(World, creature[m].master)

\* checkVector tells where a creature is: once among those to be added or in
\* that vector, or nowhere (checkCreatures erases while it iterates, and what
\* it calls adds and removes).
VectorsAgree ==
  \A c \in Creature :
    /\ \A v \in Vectors \ {creature[c].vec} : InVector(c, v) = 0
    /\ InToAdd(c) + (IF creature[c].vec < 0 THEN 0 ELSE InVector(c, creature[c].vec))
         = Count(creature[c].vec >= 0)

\* A creature without health is still checked, so that its death comes: it
\* cannot fall asleep in between (changeHealth, setIdle, destroySummons).
TheDyingAreChecked ==
  \A c \in Creature : InGame(World, c) /\ ~creature[c].alive =>
    creature[c].checked /\ creature[c].vec >= 0

\* While no check is to come the spawn has as many living monsters as places, but
\* for those that were convinced away since the last one: removeMonster arms
\* nothing (Spawn::startEvent, checkSpawn and the removal of its monsters).
Alive(m) == InGame(World, m) /\ \E p \in Places : m \in spawned[p]

DisarmedIsFull ==
  ~armed => Cardinality({m \in Monsters : Alive(m)}) + convinced >= Cardinality(Places)

\* A place gets a second monster only when a check came while another one blinked
\* there, as it may if the interval is shorter than the 4.2 seconds of blinking.
FilledOnce ==
  \A p \in Places \ doubled : Cardinality(spawned[p]) + blinking[p] <= 1

\* The spawn keeps its places.
PlacesAreKept == DisarmedIsFull /\ FilledOnce
=============================================================================
