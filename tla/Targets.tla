------------------------------ MODULE Targets ------------------------------
(***************************************************************************)
(* Whom creatures attack and follow, and which monsters are awake:         *)
(* Creature::attackedCreature and followCreature, Monster::targetList and  *)
(* isIdle, kept up to date by the notices of appearing, moving and         *)
(* disappearing that Game and Tile give to the spectators of a place.      *)
(*                                                                         *)
(* attackedCreature and followCreature are bare pointers.  All of it runs  *)
(* on the dispatcher thread, so an action is a whole call; what makes it   *)
(* hard is inside: the spectators, an unordered set, are told one by one,  *)
(* and what one of them does upon it (a summon teleports after its master, *)
(* a master who moves away loses his summons) gives notices of its own     *)
(* before the others are told.                                             *)
(* The references and the check vectors are module Creatures.              *)
(***************************************************************************)
EXTENDS Integers, FiniteSets, Sequences, Functions

CONSTANTS
  Monsters,         \* bound: the Monster objects there can be at a time
  Players,          \* the characters
  Spots,            \* places that are all the same for what is modelled
  Floor,            \* position.z of a spot
  Viewport,         \* <<p, q>>: from p one sees q (Map::maxViewportX, maxViewportY)
  ClientView,       \* the same for players (ProtocolGame::canSee)
  Far,              \* <<p, q>>: too far for a summon to be kept
  Protected,        \* the spots in a protection zone
  TeleportAll,      \* teleportAllSummons
  TeleportPlayers,  \* teleportPlayerSummons
  NULL

ASSUME TargetsAssumption ==
  /\ IsFiniteSet(Monsters) /\ IsFiniteSet(Players) /\ IsFiniteSet(Spots)
  /\ Monsters \cap Players = {}
  /\ NULL \notin Monsters \cup Players
  /\ Floor \in [Spots -> Nat]
  /\ Viewport \subseteq Spots \X Spots /\ ClientView \subseteq Viewport /\ Far \subseteq Spots \X Spots
  /\ \A p \in Spots : <<p, p>> \in ClientView
  /\ \A r \in Viewport : <<r[2], r[1]>> \in Viewport
  /\ Protected \subseteq Spots
  /\ TeleportAll \in BOOLEAN /\ TeleportPlayers \in BOOLEAN

VARIABLE creature   \* the objects
vars == creature

Creature == Monsters \cup Players

Objects ==
  [life    : {"none", "game", "removed"},
   alive   : BOOLEAN,                     \* health > 0
   at      : Spots \cup {NULL},           \* its position, the last one when it is removed
   target  : Creature \cup {NULL},        \* attackedCreature
   follow  : Creature \cup {NULL},        \* followCreature
   master  : Creature \cup {NULL},
   targets : SUBSET Creature,             \* targetList
   idle    : BOOLEAN,                     \* isIdle
   near    : BOOLEAN,                     \* isMasterInRange
   comes   : BOOLEAN,                     \* teleportToMaster
   wild    : BOOLEAN]                     \* history: it never had a master

Worlds == [Creature -> Objects]
TypeOK == creature \in Worlds

Nobody ==
  [life |-> "none", alive |-> TRUE, at |-> NULL, target |-> NULL, follow |-> NULL,
   master |-> NULL, targets |-> {}, idle |-> TRUE, near |-> FALSE,
   comes |-> FALSE, wild |-> TRUE]

Init == creature = [c \in Creature |-> Nobody]

----------------------------------------------------------------------------
(* What they see                                                           *)

InGame(w, c) == w[c].life = "game"
Summons(w, c) == {m \in Monsters : w[m].master = c}
SameFloor(p, q) == Floor[p] = Floor[q]

Sees(w, c, q) == <<w[c].at, q>> \in IF c \in Players THEN ClientView ELSE Viewport

\* Those who are told of what happens at q.
Spectators(w, q) == {c \in Creature : InGame(w, c) /\ <<w[c].at, q>> \in Viewport}

\* A summon of a player fights everybody but its master; the other monsters
\* fight players and what belongs to them.
IsOpponent(w, m, c) ==
  \/ w[m].master \in Players /\ c # w[m].master
  \/ c \in Players
  \/ w[c].master \in Players

IsTarget(w, m, c) ==
  /\ InGame(w, c)
  /\ w[c].at \notin Protected
  /\ SameFloor(w[m].at, w[c].at)

----------------------------------------------------------------------------
(* attackedCreature and followCreature                                     *)

CanAim(w, c, t) == SameFloor(w[c].at, w[t].at) /\ Sees(w, c, w[t].at)

\* Creature::setAttackedCreature: the summons get the target too, those who see
\* it.
AimOf(w, c, t) == IF t # NULL /\ ~CanAim(w, c, t) THEN NULL ELSE t

Aim(w, c, t) ==
  LET aimers == {c} \cup (IF AimOf(w, c, t) = t THEN Summons(w, c) ELSE {})
  IN  [d \in Creature |-> IF d \in aimers THEN [w[d] EXCEPT !.target = AimOf(w, d, t)] ELSE w[d]]

\* Creature::setFollowCreature.
FollowOf(w, c, t) == IF w[c].follow = t THEN t ELSE AimOf(w, c, t)
Pursue(w, c, t) == [w EXCEPT ![c].follow = FollowOf(w, c, t)]

\* Player::setFollowCreature; Player::setAttackedCreature.  The chaseMode is not
\* kept: the player may have changed it at any time.
PlayerPursue(w, p, t) ==
  IF FollowOf(w, p, t) = t THEN Pursue(w, p, t)
  ELSE Aim([w EXCEPT ![p].follow = NULL], p, NULL)

Chases(w, p, t, chase) ==
  IF w[p].target # t THEN w
  ELSE IF t # NULL /\ chase THEN PlayerPursue(w, p, t)
  ELSE [w EXCEPT ![p].follow = NULL]

PlayerAim(w, p, t, chase) == Chases(Aim(w, p, t), p, t, chase)

SetAttacked(w, c, t) == IF c \in Players THEN PlayerAim(w, c, t, FALSE) ELSE Aim(w, c, t)
SetFollow(w, c, t) == IF c \in Players THEN PlayerPursue(w, c, t) ELSE Pursue(w, c, t)

\* internalCreatureDisappear.
LoseTarget(w, c, d) == IF w[c].target = d THEN SetAttacked(w, c, NULL) ELSE w
LoseFollow(w, c, d) == IF w[c].follow = d THEN SetFollow(w, c, NULL) ELSE w
Disappear(w, c, d) == LoseFollow(LoseTarget(w, c, d), c, d)

----------------------------------------------------------------------------
(* targetList and isIdle                                                   *)

SetIdle(w, m, idle) ==
  IF w[m].life = "removed" \/ ~w[m].alive THEN w
  ELSE [w EXCEPT ![m] = [@ EXCEPT !.idle = idle, !.targets = IF idle THEN {} ELSE w[m].targets]]

UpdateIdle(w, m) ==
  SetIdle(w, m,
    IF w[m].master = NULL THEN w[m].targets = {}
    ELSE \/ ~w[m].near /\ ~w[m].comes
         \/ w[m].master \in Monsters /\ w[w[m].master].idle)

Found(w, m, c) ==
  UpdateIdle(IF IsOpponent(w, m, c) THEN [w EXCEPT ![m].targets = @ \cup {c}] ELSE w, m)

\* updateTargetList.
UpdateTargets(w, m) ==
  LET seen == {c \in Spectators(w, w[m].at) \ {m} : Sees(w, m, w[c].at)}
      kept == {c \in w[m].targets : w[c].alive /\ Sees(w, m, w[c].at)}
      v == [w EXCEPT ![m].targets = kept \cup {c \in seen : IsOpponent(w, m, c)}]
  IN  IF seen = {} THEN v ELSE UpdateIdle(v, m)

\* Upon its own appearing and moving, a monster looks around.
LookAround(w, m) ==
  LET v == IF w[m].master = NULL THEN w
           ELSE [w EXCEPT ![m].near = Sees(w, m, w[w[m].master].at)]
  IN  UpdateIdle(UpdateTargets(v, m), m)

\* selectTarget, of a hostile monster.
Select(w, m, c) ==
  IF IsTarget(w, m, c) /\ c \in w[m].targets THEN SetFollow(SetAttacked(w, m, c), m, c) ELSE w

\* onCreatureEnter.  Mutant: the one who is asleep does not look up.
EnterAsleep(w, m, c) ==
  IF w[m].idle THEN w ELSE Found(w, m, c)
Enter(w, m, c) ==
  Found(IF w[m].master = c THEN UpdateIdle([w EXCEPT ![m].near = TRUE], m) ELSE w, m, c)

\* onCreatureLeave, when it is not the master who leaves.
Leave(w, m, c) ==
  LET v == [w EXCEPT ![m].targets = @ \ {c}]
  IN  IF ~IsOpponent(w, m, c) \/ c \notin w[m].targets THEN w
      ELSE IF v[m].targets = {} THEN UpdateIdle(v, m) ELSE v

----------------------------------------------------------------------------
(* The notices of a move of d from p to q                                  *)

\* onChangeZone, onTargetChangeZone.
IntoProtection(w, c, zoneOf) ==
  IF w[c].target = NULL \/ w[zoneOf].at \notin Protected THEN w
  ELSE IF c \in Players THEN SetAttacked(w, c, NULL) ELSE Disappear(w, c, w[c].target)

OtherZone(p, q) == (p \in Protected) # (q \in Protected)

\* Mutant: who still sees it goes on, on whatever floor.
InSightAnywhere(w, c, d, p, q) == Sees(w, c, w[d].at)
InSight(w, c, d, p, q) == SameFloor(p, q) /\ Sees(w, c, w[d].at)

\* Creature::onCreatureMove, without the summons.
Concerns(t, c, d) == t # NULL /\ d \in {c, t}

ChangesZone(w, c, d, p, q) ==
  IF c = d /\ OtherZone(p, q) THEN IntoProtection(w, c, c) ELSE w

LosesFollow(w, c, d, p, q) ==
  IF Concerns(w[c].follow, c, d) /\ ~InSight(w, c, w[c].follow, p, q)
  THEN Disappear(w, c, w[c].follow) ELSE w

LosesTarget(w, c, d, p, q) ==
  IF ~Concerns(w[c].target, c, d) THEN w
  ELSE IF ~InSight(w, c, w[c].target, p, q) THEN Disappear(w, c, w[c].target)
  ELSE IF OtherZone(p, q) THEN IntoProtection(w, c, w[c].target) ELSE w

Moved(w, c, d, p, q) ==
  LosesTarget(LosesFollow(ChangesZone(w, c, d, p, q), c, d, p, q), c, d, p, q)

\* Tile::moveCreature: who sees the old or the new place is told.
\* Mutant: who sees the new one is.
ToldNew(w, p, q) == Spectators(w, q)
Told(w, p, q) == Spectators(w, p) \cup Spectators(w, q)

\* The end of Monster::onCreatureMove, upon somebody else's move.
Seen(w, m, d, seesNew) ==
  LET v == UpdateIdle(IF w[m].master = d /\ seesNew THEN [w EXCEPT ![m].near = TRUE] ELSE w, m)
  IN  IF v[m].follow = NULL /\ v[m].master = NULL /\ IsOpponent(v, m, d)
      THEN Select(v, m, d) ELSE v

----------------------------------------------------------------------------
(* The calls.  What a call does upon its way is a call that comes first: a *)
(* handler answers with the world and with the calls to make before those  *)
(* that are left to do.  A call is made to a set of creatures, one by one.  *)

Call(what, by, of, from, to) == [do |-> what, by |-> by, of |-> of, from |-> from, to |-> to]
Then(w, calls) == [world |-> w, calls |-> calls]

\* A call that x does by itself; what x does next upon the notice n.
Act(what, by, to) == Call(what, by, NULL, NULL, to)
Continued(n, x, what) == [n EXCEPT !.do = what, !.by = {x}]

\* Tile::moveCreature.
Go(w, x, q) ==
  Then([w EXCEPT ![x].at = q], <<Call("move", Told(w, w[x].at, q), x, w[x].at, q)>>)

\* Creature::onCreatureMove begins with the summons that are too far away.
LoseSummons(w, x, n) ==
  LET despawns == x = n.of /\ (~TeleportAll \/ (TeleportPlayers /\ n.of \notin Players))
      lost == {m \in Summons(w, n.of) : despawns /\ <<w[m].at, n.to>> \in Far}
  IN  Then(w, <<Act("remove", lost, NULL), Continued(n, x, "moved")>>)

\* Tile::__queryAdd: a monster is not let into a protection zone.
MayEnter(c, q) == c \in Monsters => q \notin Protected

\* Monster::onCreatureLeave: a summon teleports to its master, if there is room;
\* or it is turned off until he comes back.
Teleports(c) == TeleportAll \/ (TeleportPlayers /\ c \in Players)

LeaveFirst(w, m, c, luck, calls) ==
  IF w[m].master # c THEN Then(w, calls)
  ELSE IF ~Teleports(c) THEN Then(UpdateIdle([w EXCEPT ![m].near = FALSE], m), calls)
  ELSE IF luck.room /\ InGame(w, m) /\ MayEnter(m, w[c].at)
  THEN Then(w, <<Act("go", {m}, w[c].at)>> \o calls)
  ELSE Then([w EXCEPT ![m].comes = TRUE], calls)

\* The rest of onCreatureMove.
MonsterMoved(w, m, n, luck) ==
  LET d == n.of
      seesNew == Sees(w, m, n.to)
      seesOld == Sees(w, m, n.from)
  IN  IF m = d THEN Then(LookAround(w, m), <<>>)
      ELSE IF ~seesNew /\ seesOld
      THEN LeaveFirst(w, m, d, luck, <<Continued(n, m, "left"), Continued(n, m, "seen")>>)
      ELSE Then(Seen(IF seesNew /\ ~seesOld THEN Enter(w, m, d) ELSE w, m, d, seesNew), <<>>)

MovedOn(w, x, n, luck) ==
  IF x \in Players THEN Then(w, <<>>) ELSE MonsterMoved(w, x, n, luck)

\* The rest of onCreatureDisappear.
Vanished(w, x, n, luck) ==
  IF x \in Players THEN Then(w, <<>>)
  ELSE IF x = n.of THEN Then(SetIdle(w, x, TRUE), <<>>)
  ELSE LeaveFirst(w, x, n.of, luck, <<Continued(n, x, "left")>>)

\* removeCreature: those who see it are told, then its summons are removed too.
Withdraw(w, x) ==
  Then(w, <<Call("disappear", Spectators(w, w[x].at), x, NULL, NULL), Act("removed", {x}, NULL)>>)

\* Of the removed one only its place, its health and its list are of interest.
Removed(w, x) ==
  Then([w EXCEPT ![x] = [Nobody EXCEPT !.life = "removed", !.alive = w[x].alive,
                                       !.at = w[x].at, !.targets = w[x].targets]],
       <<Act("remove", {m \in Summons(w, x) : InGame(w, m)}, NULL)>>)

\* onCreatureAppear.
Appears(w, x, n) ==
  IF x \in Players THEN w
  ELSE IF x # n.of THEN Enter(w, x, n.of)
  ELSE LookAround(w, x)

Answer(w, x, n, luck) ==
  CASE n.do = "go" -> Go(w, x, n.to)
    [] n.do = "move" -> LoseSummons(w, x, n)
    [] n.do = "moved" -> MovedOn(Moved(w, x, n.of, n.from, n.to), x, n, luck)
    [] n.do = "left" -> Then(Leave(w, x, n.of), <<>>)
    [] n.do = "seen" -> Then(Seen(w, x, n.of, FALSE), <<>>)
    [] n.do = "remove" -> Withdraw(w, x)
    [] n.do = "disappear" -> Vanished(Disappear(w, x, n.of), x, n, luck)
    [] n.do = "removed" -> Removed(w, x)
    [] n.do = "appear" -> Then(Appears(w, x, n), <<>>)
    [] n.do = "look" -> Then(UpdateIdle(UpdateTargets(w, x), x), <<>>)

\* The first one of the set is called; the others are still to be.
First(luck, set) == CHOOSE c \in set : \A d \in set : luck.order[c] <= luck.order[d]

Made(s, luck) ==
  LET n == Head(s.calls)
      x == First(luck, n.by)
      answer == Answer(s.world, x, n, luck)
      rest == <<[n EXCEPT !.by = @ \ {x}]>> \o Tail(s.calls)
  IN  IF s.calls = <<>> THEN s
      ELSE IF n.by = {} THEN Then(s.world, Tail(s.calls))
      ELSE Then(answer.world, answer.calls \o rest)

\* The worlds that a call, with all that it calls, may leave: one, when the
\* bound is large enough.  Bound: with one summon a call and what it calls take
\* less than twenty steps for each creature.
MaxSteps == 20 * Cardinality(Creature)
Done(w, calls, luck) ==
  LET made[n \in 0 .. MaxSteps] ==
        IF n = 0 THEN Then(w, calls) ELSE Made(made[n - 1], luck)
      last == made[MaxSteps]
  IN  IF last.calls = <<>> THEN {last.world} ELSE {}

\* addSummon.
Owned(w, c, m) == [w EXCEPT ![m] = [@ EXCEPT !.master = c, !.wild = FALSE]]

\* destroySummons.
DestroySummons(w, c) ==
  [m \in Creature |->
     IF m \in Summons(w, c)
     THEN LET awake == SetIdle(w, m, FALSE)[m]
          IN  [awake EXCEPT !.target = NULL, !.alive = FALSE, !.master = NULL]
     ELSE w[m]]

----------------------------------------------------------------------------
(* The game                                                                *)

\* cleanup: an object is deleted when it is in no list any more, and with it
\* its own list.
Becomes(w) ==
  LET listed == UNION {w[m].targets : m \in Monsters}
  IN  creature' = [c \in Creature |->
                     IF w[c].life = "removed" /\ c \notin listed THEN Nobody ELSE w[c]]

\* The spectators are told in any order, which matters only between a summon and
\* its master; a teleporting summon finds room or not.
Orders(family) ==
  {[c \in Creature |-> IF c \in family THEN f[c] ELSE Cardinality(family) + 1] :
     f \in Injection(family, 1 .. Cardinality(family))}

Luck(w, c) ==
  LET summons == {m \in Monsters : w[m].master # NULL}
  IN  [order : Orders(summons \cup {w[m].master : m \in summons}),
       room : IF Teleports(c) /\ Summons(w, c) # {} THEN BOOLEAN ELSE {TRUE}]

\* A call and what becomes of it.
Calls(w, calls, luck) == \E v \in Done(w, calls, luck) : Becomes(v)

\* placeCreature.
Place(w, c, q) ==
  LET v == [w EXCEPT ![c] = [@ EXCEPT !.life = "game", !.at = q]]
  IN  \E luck \in Luck(v, NULL) :
        Calls(v, <<Call("appear", Spectators(v, q), c, NULL, NULL)>>, luck)

\* A player logs in; a monster appears.
Appear(c, q) == creature[c].life = "none" /\ MayEnter(c, q) /\ Place(creature, c, q)

\* Bound: one summon at a time.
NoOther(m) == \A n \in Monsters : creature[n].master \in {NULL, m}

\* placeSummon.
Summon(c, m) ==
  /\ InGame(creature, c) /\ NoOther(m)
  /\ creature[m].life = "none" /\ MayEnter(m, creature[c].at)
  /\ Place(Owned(creature, c, m), m, creature[c].at)

\* convinceCreature.
Convince(c, m) ==
  /\ InGame(creature, c) /\ InGame(creature, m) /\ creature[m].master # c /\ NoOther(m)
  /\ LET u == Aim([creature EXCEPT ![m].follow = NULL, ![m].master = NULL], m, NULL)
         v == UpdateIdle(UpdateTargets(Owned(DestroySummons(u, m), c, m), m), m)
         told == Spectators(v, v[m].at) \cup Spectators(v, v[c].at)
     IN  \E luck \in Luck(v, NULL) :
           Calls([v EXCEPT ![m].near = TRUE],
                 <<Call("look", told \cap Monsters, m, NULL, NULL)>>, luck)

\* internalMoveCreature and internalTeleport, from anywhere to anywhere.
Move(c, q) ==
  /\ InGame(creature, c) /\ q # creature[c].at /\ MayEnter(c, q)
  /\ \E luck \in Luck(creature, c) :
       Calls(creature, <<Act("go", {c}, q)>>, luck)

\* removeCreature by a logout, a script or a despawn.
Removal(c) ==
  /\ InGame(creature, c)
  /\ \E luck \in Luck(creature, c) :
       Calls(creature, <<Act("remove", {c}, NULL)>>, luck)

\* changeHealth: a monster wakes up to die.
Kill(c) ==
  /\ InGame(creature, c) /\ creature[c].alive
  /\ LET w == IF c \in Monsters THEN SetIdle(creature, c, FALSE) ELSE creature
     IN  Becomes([w EXCEPT ![c].alive = FALSE])

\* It is healed before it is checked.
Heal(c) ==
  /\ InGame(creature, c) /\ ~creature[c].alive
  /\ Becomes([creature EXCEPT ![c].alive = TRUE])

\* onDeath.
Die(c) ==
  /\ InGame(creature, c) /\ ~creature[c].alive
  /\ LET u == [creature EXCEPT ![c].master = NULL]
         v == IF c \in Players THEN u
              ELSE Aim([DestroySummons(u, c) EXCEPT ![c].targets = {}], c, NULL)
     IN  \E luck \in Luck(v, c) : Calls(v, <<Act("remove", {c}, NULL)>>, luck)

\* playerSetAttackedCreature, with NULL for no creature, and for one it may not
\* attack.
MayAttack(p, t) == t # p /\ {creature[p].at, creature[t].at} \cap Protected = {}

Attack(p, t) ==
  /\ InGame(creature, p)
  /\ t # NULL => InGame(creature, t) /\ MayAttack(p, t)
  /\ \E chase \in BOOLEAN : (chase => t # NULL) /\ Becomes(PlayerAim(creature, p, t, chase))

\* playerFollowCreature.
Follow(p, t) ==
  /\ InGame(creature, p)
  /\ t # NULL => InGame(creature, t)
  /\ Becomes(SetFollow(SetAttacked(creature, p, NULL), p, t))

\* setChaseMode, to follow the one under attack or to stand.
Chase(p) ==
  /\ InGame(creature, p) /\ creature[p].target # NULL
  /\ \/ Becomes(SetFollow(creature, p, NULL))
     \/ /\ creature[p].follow = NULL
        /\ Becomes(SetFollow(creature, p, creature[p].target))

\* Creature::onThink and onAttacking: one that cannot be seen is not pursued any
\* more, a script denies an attack.
Lose(c) ==
  /\ InGame(creature, c)
  /\ \/ /\ creature[c].follow \notin {NULL, creature[c].master}
        /\ Becomes(Disappear(creature, c, creature[c].follow))
     \/ /\ creature[c].target # NULL
        /\ Becomes(SetAttacked(creature, c, NULL))

\* onFollowCreatureComplete: a summon finds no way.
NoWay(m) ==
  /\ InGame(creature, m) /\ creature[m].master # NULL
  /\ creature[m].follow \in creature[m].targets
  /\ Becomes([creature EXCEPT ![m].targets = @ \ {creature[m].follow}])

\* Monster::onThink, of one that stays awake.
ThinkAgain(w, m) ==
  LET master == w[m].master
      target == w[m].target
  IN  IF master = NULL
      THEN {w} \cup {Select(w, m, t) : t \in {d \in w[m].targets : d # w[m].follow}}
      ELSE {IF target = NULL
            THEN IF w[master].target # NULL THEN Select(w, m, w[master].target)
                 ELSE SetFollow(w, m, master)
            ELSE SetFollow(w, m, IF target = m THEN NULL ELSE target)}

Think(m) ==
  /\ InGame(creature, m) /\ ~creature[m].idle
  /\ LET w == UpdateIdle(creature, m)
     IN  IF w[m].idle THEN Becomes(w)
         ELSE \/ \E u \in ThinkAgain(w, m) : Becomes(u)
              \/ /\ w[m].comes /\ w[m].master # NULL /\ MayEnter(m, w[w[m].master].at)
                 /\ \E luck \in Luck(w, NULL) :
                      \E v \in Done(w, <<Act("go", {m}, w[w[m].master].at)>>, luck) :
                        \E u \in ThinkAgain([v EXCEPT ![m].comes = FALSE], m) : Becomes(u)

----------------------------------------------------------------------------
Game ==
  \E c \in Creature :
    \/ Removal(c) \/ Lose(c)
    \/ \E q \in Spots : Appear(c, q) \/ Move(c, q)
    \/ \E m \in Monsters : Summon(c, m)

MonstersTurn ==
  \E m \in Monsters : Kill(m) \/ Heal(m) \/ Die(m) \/ NoWay(m) \/ Think(m)

PlayerOrders ==
  \E p \in Players :
    \/ Chase(p)
    \/ \E t \in Creature \cup {NULL} : Attack(p, t) \/ Follow(p, t)
    \/ \E m \in Monsters : Convince(p, m)

Next == Game \/ PlayerOrders \/ MonstersTurn

Spec == Init /\ [][Next]_vars

----------------------------------------------------------------------------
(* Properties                                                              *)

\* attackedCreature and followCreature are never left pointing to one who is
\* removed or deleted, out of sight or on another floor; and nobody who went
\* into a protection zone stays under attack.  No reference keeps them alive:
\* only the notices do it, however they are nested.
TargetsAreInSight ==
  \A c \in Creature : InGame(creature, c) =>
    /\ \A t \in {creature[c].target, creature[c].follow} \ {NULL} :
         InGame(creature, t) /\ CanAim(creature, c, t)
    /\ creature[c].target # NULL => creature[creature[c].target].at \notin Protected

\* A monster does not sleep beside a player: it has in its list every player it
\* sees, and is awake, if it was never a summon; and a summon of a player is
\* awake while it sees him.
AwakeWhenNeeded ==
  \A m \in Monsters : InGame(creature, m) /\ creature[m].alive =>
    /\ creature[m].wild =>
         \A p \in Players : InGame(creature, p) /\ Sees(creature, m, creature[p].at) =>
           p \in creature[m].targets /\ ~creature[m].idle
    /\ creature[m].master \in Players /\ Sees(creature, m, creature[creature[m].master].at) =>
         ~creature[m].idle
=============================================================================
