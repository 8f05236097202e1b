---------------------------- MODULE TargetsProofs ----------------------------
(***************************************************************************)
(* Proofs about Targets, for any monsters, players and places: nobody      *)
(* attacks or follows one who is gone or out of sight, and no monster      *)
(* sleeps beside a player.                                                 *)
(*                                                                         *)
(* Both are broken while the spectators of a move or of a removal are told *)
(* one by one.  The invariant is therefore about a world and the calls     *)
(* that are left to be made, Sound(w, k): what is broken in w is what one  *)
(* of the calls in k repairs.  One lemma per kind of call shows that it    *)
(* keeps Sound, with the calls it makes itself.  With no call left Sound   *)
(* is Quiet, which every action keeps.                                     *)
(***************************************************************************)
EXTENDS Targets, FiniteSetTheorems, SequenceTheorems, WellFoundedInduction, TLAPS

-----------------------------------------------------------------------------
(* What a method may change                                                  *)

Here(w, c) == w[c].life # "none"

\* Everybody has a place, and who is not there yet has nothing.
Well(w) ==
  /\ w \in Worlds
  /\ \A c \in Creature : IF w[c].life = "none" THEN w[c] = Nobody ELSE w[c].at \in Spots
  /\ \A m \in Creature : w[m].master # NULL => InGame(w, m)

\* Nobody comes, goes, moves, dies or changes his master.
Same(w, v) ==
  /\ v \in Worlds
  /\ \A c \in Creature :
       /\ v[c].life = w[c].life /\ v[c].at = w[c].at /\ v[c].alive = w[c].alive
       /\ v[c].master = w[c].master /\ v[c].wild = w[c].wild
       /\ w[c].life = "none" => v[c] = w[c]

\* Whom c aims at: as before, at nobody, or at t.
Keeps(w, c, old, new, t) == new \in {old, NULL} \/ (new = t /\ CanAim(w, c, t))
Aimed(w, v, t) ==
  \A c \in Creature : /\ Keeps(w, c, w[c].target, v[c].target, t)
                      /\ Keeps(w, c, w[c].follow, v[c].follow, t)

\* Only who is attacked and followed changes.
Turned(w, v, t) ==
  /\ Same(w, v) /\ Aimed(w, v, t)
  /\ \A c \in Creature : /\ v[c].targets = w[c].targets /\ v[c].idle = w[c].idle
                         /\ v[c].near = w[c].near

\* Only what m knows and whether he sleeps changes.
Minded(w, v, m) ==
  /\ Same(w, v)
  /\ \A c \in Creature : v[c].target = w[c].target /\ v[c].follow = w[c].follow
  /\ \A c \in Creature : c # m => v[c] = w[c]

\* NULL is nobody.
LEMMA Apart == NULL \notin Creature /\ \A c \in Creature : c # NULL
BY TargetsAssumption DEF Creature

\* An object that is not there is an object.
LEMMA NobodyTyped == Nobody \in Objects
BY DEF Nobody, Objects

\* Who stays where he is sees what he saw.
LEMMA SameSees ==
  ASSUME NEW w, NEW v, Same(w, v), NEW c \in Creature
  PROVE  /\ InGame(v, c) = InGame(w, c)
         /\ \A q : Sees(v, c, q) = Sees(w, c, q)
         /\ \A t \in Creature : CanAim(v, c, t) = CanAim(w, c, t)
BY DEF Same, InGame, Sees, CanAim

\* What only changes minds leaves the world in order.
LEMMA SameWell ==
  ASSUME NEW w, NEW v, Well(w), Same(w, v)
  PROVE  Well(v) /\ \A c \in Creature : Summons(v, c) = Summons(w, c)
<1>1. Monsters \subseteq Creature
  BY DEF Creature
<1> QED BY <1>1 DEF Well, Same, InGame, Summons

\* One such change may follow another.
LEMMA SameSame ==
  ASSUME NEW w, NEW v, NEW u, Same(w, v), Same(v, u)
  PROVE  Same(w, u)
BY DEF Same

\* Turning to t twice is turning to t.
LEMMA TurnedTurned ==
  ASSUME NEW w, NEW v, NEW u, NEW t \in Creature \cup {NULL}, Turned(w, v, t), Turned(v, u, t)
  PROVE  Turned(w, u, t)
<1>1. Same(w, u)
  BY SameSame DEF Turned
<1>2. ASSUME NEW c \in Creature, t # NULL PROVE CanAim(v, c, t) = CanAim(w, c, t)
  BY <1>2, SameSees DEF Turned
<1>3. Aimed(w, u, t)
  BY <1>2 DEF Turned, Aimed, Keeps
<1> QED BY <1>1, <1>3 DEF Turned

\* Nobody has to turn.
LEMMA TurnedSame ==
  ASSUME NEW w \in Worlds, NEW t PROVE Turned(w, w, t)
BY DEF Turned, Same, Aimed, Keeps

\* Who aims at nobody new aims at nobody but t.
LEMMA TurnedAway ==
  ASSUME NEW w, NEW v, NEW t, Turned(w, v, NULL) PROVE Turned(w, v, t)
BY DEF Turned, Aimed, Keeps

-----------------------------------------------------------------------------
(* attackedCreature and followCreature                                       *)

\* An object with another target, or another one to follow.
LEMMA EditAim ==
  ASSUME NEW o \in Objects, NEW t \in Creature \cup {NULL},
         NEW a, a = [o EXCEPT !.target = t] \/ a = [o EXCEPT !.follow = t]
  PROVE  /\ a \in Objects
         /\ a.life = o.life /\ a.at = o.at /\ a.alive = o.alive /\ a.master = o.master
         /\ a.wild = o.wild /\ a.targets = o.targets /\ a.idle = o.idle /\ a.near = o.near
         /\ a = [o EXCEPT !.target = t] => a.target = t /\ a.follow = o.follow
         /\ a = [o EXCEPT !.follow = t] => a.follow = t /\ a.target = o.target
BY DEF Objects

\* setAttackedCreature turns one and his summons to t, if they see it.
LEMMA AimTurns ==
  ASSUME NEW w, Well(w), NEW c \in Creature, Here(w, c), NEW t \in Creature \cup {NULL}
  PROVE  /\ Turned(w, Aim(w, c, t), t)
         /\ Aim(w, c, t)[c].target = AimOf(w, c, t)
         /\ t = NULL => AimOf(w, c, t) = NULL
         /\ \A d \in Creature : Aim(w, c, t)[d].follow = w[d].follow
<1> DEFINE v == Aim(w, c, t)
           A == {c} \cup (IF AimOf(w, c, t) = t THEN Summons(w, c) ELSE {})
           g(d) == [w[d] EXCEPT !.target = AimOf(w, d, t)]
<1>0. w \in Worlds /\ \A d \in Creature : w[d] \in Objects
  BY DEF Well, Worlds
<1>1. v = [d \in Creature |-> IF d \in A THEN g(d) ELSE w[d]]
  BY DEF Aim
<1>2. \A d \in Creature : AimOf(w, d, t) \in {t, NULL} /\ (AimOf(w, d, t) = NULL \/ CanAim(w, d, t))
  BY DEF AimOf
<1>3. \A d \in A : Here(w, d)
  <2>1. \A d \in Summons(w, c) : Here(w, d)
    BY Apart DEF Well, Summons, InGame, Here, Creature
  <2> QED BY <2>1
<1>4. \A d \in Creature :
        /\ g(d) \in Objects /\ g(d).target = AimOf(w, d, t) /\ g(d).follow = w[d].follow
        /\ g(d).life = w[d].life /\ g(d).at = w[d].at /\ g(d).alive = w[d].alive
        /\ g(d).master = w[d].master /\ g(d).wild = w[d].wild /\ g(d).targets = w[d].targets
        /\ g(d).idle = w[d].idle /\ g(d).near = w[d].near
  <2> TAKE d \in Creature
  <2>1. AimOf(w, d, t) \in Creature \cup {NULL}
    BY <1>2
  <2>2. w[d] \in Objects /\ g(d) = [w[d] EXCEPT !.target = AimOf(w, d, t)]
    BY <1>0
  <2> HIDE DEF g, A, v
  <2> QED BY <2>1, <2>2, EditAim
<1> HIDE DEF g, v, A
<1>5. v \in Worlds
  BY <1>0, <1>1, <1>4 DEF Worlds
<1>6. \A d \in Creature : v[d] = IF d \in A THEN g(d) ELSE w[d]
  BY <1>1
<1>7. Same(w, v)
  BY <1>3, <1>4, <1>5, <1>6 DEF Same, Here
<1>8. Aimed(w, v, t)
  BY <1>2, <1>4, <1>6 DEF Aimed, Keeps
<1>9. Turned(w, v, t)
  BY <1>4, <1>6, <1>7, <1>8 DEF Turned
<1>10. v[c].target = AimOf(w, c, t)
  BY <1>4, <1>6 DEF A
<1>11. t = NULL => AimOf(w, c, t) = NULL
  BY DEF AimOf
<1> QED BY <1>4, <1>6, <1>9, <1>10, <1>11 DEF v

\* So does a change of followCreature,
LEMMA FollowTurns ==
  ASSUME NEW w, Well(w), NEW c \in Creature, Here(w, c), NEW t \in Creature \cup {NULL},
         NEW f \in {NULL, w[c].follow, t}, f \in {NULL, w[c].follow} \/ CanAim(w, c, t)
  PROVE  /\ Turned(w, [w EXCEPT ![c].follow = f], t)
         /\ [w EXCEPT ![c].follow = f][c].follow = f
         /\ \A d \in Creature : [w EXCEPT ![c].follow = f][d].target = w[d].target
<1> DEFINE o == [w[c] EXCEPT !.follow = f]
           v == [w EXCEPT ![c].follow = f]
<1>0. w \in Worlds /\ w[c] \in Objects /\ f \in Creature \cup {NULL}
  BY DEF Well, Worlds, Objects
<1>1. v = [w EXCEPT ![c] = o]
  OBVIOUS
<1>2. /\ o \in Objects /\ o.follow = f /\ o.target = w[c].target
      /\ o.life = w[c].life /\ o.at = w[c].at /\ o.alive = w[c].alive /\ o.master = w[c].master
      /\ o.wild = w[c].wild /\ o.targets = w[c].targets /\ o.idle = w[c].idle /\ o.near = w[c].near
  BY <1>0, EditAim
<1> HIDE DEF o, v
<1>3. v \in Worlds /\ v[c] = o /\ \A d \in Creature : d # c => v[d] = w[d]
  BY <1>0, <1>1, <1>2 DEF Worlds
<1>4. Same(w, v)
  BY <1>2, <1>3 DEF Same, Here
<1>5. Aimed(w, v, t)
  BY <1>2, <1>3 DEF Aimed, Keeps
<1>6. Turned(w, v, t)
  BY <1>2, <1>3, <1>4, <1>5 DEF Turned
<1>7. v[c].follow = f /\ \A d \in Creature : v[d].target = w[d].target
  BY <1>2, <1>3
<1> QED BY <1>6, <1>7 DEF v

\* which is what Creature::setFollowCreature does,
LEMMA PursueTurns ==
  ASSUME NEW w, Well(w), NEW c \in Creature, Here(w, c), NEW t \in Creature \cup {NULL}
  PROVE  /\ Turned(w, Pursue(w, c, t), t)
         /\ t = NULL => Pursue(w, c, t)[c].follow = NULL
<1>1. AimOf(w, c, t) \in {NULL, t} /\ (AimOf(w, c, t) = NULL \/ CanAim(w, c, t))
  BY DEF AimOf
<1>2. FollowOf(w, c, t) \in {NULL, w[c].follow, t}
  BY <1>1 DEF FollowOf
<1>3. FollowOf(w, c, t) \in {NULL, w[c].follow} \/ CanAim(w, c, t)
  BY <1>1 DEF FollowOf
<1>4. t = NULL => FollowOf(w, c, t) = NULL
  BY <1>1 DEF FollowOf
<1> DEFINE f == FollowOf(w, c, t)
<1>5. Pursue(w, c, t) = [w EXCEPT ![c].follow = f]
  BY DEF Pursue
<1> HIDE DEF f
<1>6. f \in {NULL, w[c].follow, t} /\ (f \in {NULL, w[c].follow} \/ CanAim(w, c, t)) /\ (t = NULL => f = NULL)
  BY <1>2, <1>3, <1>4 DEF f
<1>7. f \in {NULL, w[c].follow, t} /\ (f \in {NULL, w[c].follow} \/ CanAim(w, c, t))
  BY <1>6
<1> DEFINE v == [w EXCEPT ![c].follow = f]
<1>8. Turned(w, v, t)
  BY <1>7, FollowTurns
<1>9. v[c].follow = f
  <2>1. w[c] \in Objects /\ v[c] = [w[c] EXCEPT !.follow = f]
    BY DEF Well, Worlds
  <2> HIDE DEF v
  <2> QED BY <2>1 DEF Objects
<1> HIDE DEF v
<1> QED BY <1>5, <1>6, <1>8, <1>9 DEF v

\* Turning again: the world that is left is as good.
LEMMA TurnOn ==
  ASSUME NEW w, Well(w), NEW v, NEW t, Turned(w, v, t)
  PROVE  Well(v) /\ \A c \in Creature : Here(w, c) => Here(v, c)
BY SameWell DEF Turned, Same, Here

\* and that of a player, who also stops to attack if it fails.
LEMMA PlayerPursueTurns ==
  ASSUME NEW w, Well(w), NEW c \in Creature, Here(w, c), NEW t \in Creature \cup {NULL}
  PROVE  /\ Turned(w, PlayerPursue(w, c, t), t)
         /\ t = NULL => PlayerPursue(w, c, t)[c].follow = NULL
<1> DEFINE v == [w EXCEPT ![c].follow = NULL]
           u == Aim(v, c, NULL)
<1>1. Turned(w, v, NULL) /\ v[c].follow = NULL
  BY FollowTurns
<1>2. Well(v) /\ Here(v, c)
  BY <1>1, TurnOn
<1>3. Turned(v, u, NULL)
  BY <1>2, AimTurns
<1>4. Turned(w, u, t)
  BY <1>1, <1>3, TurnedTurned, TurnedAway
<1>5. FollowOf(w, c, t) = t =>
        PlayerPursue(w, c, t) = Pursue(w, c, t) /\ Turned(w, Pursue(w, c, t), t)
  BY PursueTurns DEF PlayerPursue
<1>6. FollowOf(w, c, t) # t => PlayerPursue(w, c, t) = u
  BY DEF PlayerPursue
<1>7. t = NULL => FollowOf(w, c, t) = t
  BY DEF FollowOf, AimOf
<1> QED BY <1>4, <1>5, <1>6, <1>7, PursueTurns

\* A player may go after the one he attacks,
LEMMA ChasesTurns ==
  ASSUME NEW w, Well(w), NEW c \in Creature, Here(w, c), NEW t \in Creature \cup {NULL},
         NEW chase \in BOOLEAN
  PROVE  /\ Turned(w, Chases(w, c, t, chase), t)
         /\ t = NULL => Chases(w, c, t, chase)[c].target = w[c].target
<1>0. w \in Worlds
  BY DEF Well
<1>1. CASE w[c].target # t
  <2>1. Chases(w, c, t, chase) = w
    BY <1>1 DEF Chases
  <2> QED BY <1>0, <2>1, TurnedSame
<1>2. CASE w[c].target = t /\ t # NULL /\ chase
  <2>1. Chases(w, c, t, chase) = PlayerPursue(w, c, t)
    BY <1>2 DEF Chases
  <2> QED BY <1>2, <2>1, PlayerPursueTurns
<1>3. CASE w[c].target = t /\ ~(t # NULL /\ chase)
  <2>1. Chases(w, c, t, chase) = [w EXCEPT ![c].follow = NULL]
    BY <1>3 DEF Chases
  <2>2. Turned(w, [w EXCEPT ![c].follow = NULL], t)
    BY FollowTurns
  <2>3. [w EXCEPT ![c].follow = NULL][c].target = w[c].target
    BY FollowTurns
  <2> QED BY <2>1, <2>2, <2>3
<1> QED BY <1>1, <1>2, <1>3

\* as Player::setAttackedCreature does.
LEMMA PlayerAimTurns ==
  ASSUME NEW w, Well(w), NEW c \in Creature, Here(w, c), NEW t \in Creature \cup {NULL},
         NEW chase \in BOOLEAN
  PROVE  /\ Turned(w, PlayerAim(w, c, t, chase), t)
         /\ t = NULL => PlayerAim(w, c, t, chase)[c].target = NULL
<1> DEFINE v == Aim(w, c, t)
<1>1. Turned(w, v, t) /\ (t = NULL => v[c].target = NULL)
  BY AimTurns
<1> HIDE DEF v
<1>2. Well(v) /\ Here(v, c)
  BY <1>1, TurnOn
<1>3. Turned(v, Chases(v, c, t, chase), t) /\ (t = NULL => Chases(v, c, t, chase)[c].target = v[c].target)
  BY <1>2, ChasesTurns
<1>4. PlayerAim(w, c, t, chase) = Chases(v, c, t, chase)
  BY DEF PlayerAim, v
<1> QED BY <1>1, <1>3, <1>4, TurnedTurned

\* Both, as they are called on a creature of either kind.
LEMMA SetAttackedTurns ==
  ASSUME NEW w, Well(w), NEW c \in Creature, Here(w, c), NEW t \in Creature \cup {NULL}
  PROVE  /\ Turned(w, SetAttacked(w, c, t), t)
         /\ t = NULL => SetAttacked(w, c, t)[c].target = NULL
<1>1. CASE c \in Players
  <2>1. SetAttacked(w, c, t) = PlayerAim(w, c, t, FALSE)
    BY <1>1 DEF SetAttacked
  <2> QED BY <2>1, PlayerAimTurns
<1>2. CASE c \notin Players
  <2>1. SetAttacked(w, c, t) = Aim(w, c, t)
    BY <1>2 DEF SetAttacked
  <2> QED BY <2>1, AimTurns
<1> QED BY <1>1, <1>2

\* Both, for the one who is followed.
LEMMA SetFollowTurns ==
  ASSUME NEW w, Well(w), NEW c \in Creature, Here(w, c), NEW t \in Creature \cup {NULL}
  PROVE  /\ Turned(w, SetFollow(w, c, t), t)
         /\ t = NULL => SetFollow(w, c, t)[c].follow = NULL
BY PursueTurns, PlayerPursueTurns DEF SetFollow

\* Nobody is aimed at who was not before.
LEMMA TurnedLess ==
  ASSUME NEW w, NEW v, Turned(w, v, NULL), NEW c \in Creature
  PROVE  v[c].target \in {w[c].target, NULL} /\ v[c].follow \in {w[c].follow, NULL}
BY DEF Turned, Aimed, Keeps

\* Who is told that d disappears does not aim at d any more.
LEMMA DisappearTurns ==
  ASSUME NEW w, Well(w), NEW c \in Creature, Here(w, c), NEW d \in Creature
  PROVE  /\ Turned(w, Disappear(w, c, d), NULL)
         /\ Disappear(w, c, d)[c].target # d /\ Disappear(w, c, d)[c].follow # d
<1> DEFINE v == LoseTarget(w, c, d)
           u == LoseFollow(v, c, d)
<1>0. w \in Worlds /\ d # NULL
  BY Apart DEF Well
<1>1. Turned(w, v, NULL) /\ v[c].target # d
  BY <1>0, SetAttackedTurns, TurnedSame DEF LoseTarget
<1> HIDE DEF v
<1>2. Well(v) /\ Here(v, c) /\ v \in Worlds
  BY <1>1, TurnOn DEF Well
<1>3. Turned(v, u, NULL) /\ u[c].follow # d
  BY <1>0, <1>2, SetFollowTurns, TurnedSame DEF LoseFollow
<1> HIDE DEF u
<1>4. u[c].target \in {v[c].target, NULL}
  BY <1>3, TurnedLess
<1>5. Turned(w, u, NULL)
  BY <1>1, <1>3, TurnedTurned
<1>6. Disappear(w, c, d) = u
  BY DEF Disappear, v, u
<1> QED BY <1>0, <1>1, <1>3, <1>4, <1>5, <1>6

\* A monster turns to one that may be attacked, or not at all.
LEMMA SelectTurns ==
  ASSUME NEW w, Well(w), NEW c \in Creature, Here(w, c), NEW t \in Creature
  PROVE  Turned(w, Select(w, c, t), IF IsTarget(w, c, t) THEN t ELSE NULL)
<1> DEFINE v == SetAttacked(w, c, t)
           u == SetFollow(v, c, t)
<1>1. CASE IsTarget(w, c, t) /\ t \in w[c].targets
  <2>1. Turned(w, v, t)
    BY SetAttackedTurns
  <2> HIDE DEF v
  <2>2. Well(v) /\ Here(v, c)
    BY <2>1, TurnOn
  <2>3. Turned(v, u, t)
    BY <2>2, SetFollowTurns
  <2>4. Select(w, c, t) = u
    BY <1>1 DEF Select, v
  <2> HIDE DEF u
  <2> QED BY <1>1, <2>1, <2>3, <2>4, TurnedTurned
<1>2. CASE ~(IsTarget(w, c, t) /\ t \in w[c].targets)
  <2>1. Select(w, c, t) = w /\ w \in Worlds
    BY <1>2 DEF Select, Well
  <2> QED BY <2>1, TurnedSame
<1> QED BY <1>1, <1>2

-----------------------------------------------------------------------------
(* targetList and isIdle                                                     *)

\* An object with another mind.
LEMMA EditMind ==
  ASSUME NEW o \in Objects, NEW T \in SUBSET Creature, NEW b \in BOOLEAN, NEW a,
         \/ a = [o EXCEPT !.idle = b, !.targets = T]
         \/ a = [o EXCEPT !.targets = T]
         \/ a = [o EXCEPT !.near = b]
         \/ a = [o EXCEPT !.comes = b]
  PROVE  /\ a \in Objects
         /\ a.life = o.life /\ a.at = o.at /\ a.alive = o.alive /\ a.master = o.master
         /\ a.wild = o.wild /\ a.target = o.target /\ a.follow = o.follow
         /\ a = [o EXCEPT !.idle = b, !.targets = T] =>
              a.idle = b /\ a.targets = T /\ a.near = o.near /\ a.comes = o.comes
         /\ a = [o EXCEPT !.targets = T] =>
              a.targets = T /\ a.idle = o.idle /\ a.near = o.near /\ a.comes = o.comes
         /\ a = [o EXCEPT !.near = b] =>
              a.near = b /\ a.idle = o.idle /\ a.targets = o.targets /\ a.comes = o.comes
         /\ a = [o EXCEPT !.comes = b] =>
              a.comes = b /\ a.idle = o.idle /\ a.targets = o.targets /\ a.near = o.near
BY DEF Objects

\* What m knows may change without anything else.
LEMMA Minding ==
  ASSUME NEW w, Well(w), NEW m \in Creature, Here(w, m), NEW a \in Objects,
         a.life = w[m].life, a.at = w[m].at, a.alive = w[m].alive, a.master = w[m].master,
         a.wild = w[m].wild, a.target = w[m].target, a.follow = w[m].follow
  PROVE  Minded(w, [w EXCEPT ![m] = a], m) /\ [w EXCEPT ![m] = a][m] = a
<1> DEFINE v == [w EXCEPT ![m] = a]
<1>1. w \in Worlds
  BY DEF Well
<1>2. v \in Worlds /\ v[m] = a /\ \A c \in Creature : c # m => v[c] = w[c]
  BY <1>1 DEF Worlds
<1> HIDE DEF v
<1>3. Minded(w, v, m)
  BY <1>2 DEF Minded, Same, Here
<1> QED BY <1>2, <1>3 DEF v

\* Nothing has to change.
LEMMA MindedSame ==
  ASSUME NEW w \in Worlds, NEW m PROVE Minded(w, w, m)
BY DEF Minded, Same

\* One such change may follow another.
LEMMA MindedMinded ==
  ASSUME NEW w, NEW v, NEW u, NEW m \in Creature, Minded(w, v, m), Minded(v, u, m)
  PROVE  Minded(w, u, m)
<1>1. Same(w, u)
  BY SameSame DEF Minded
<1> QED BY <1>1 DEF Minded

\* The world stays in order, and m alive or dead, where and whose it is.
LEMMA MindOn ==
  ASSUME NEW w, Well(w), NEW v, NEW m \in Creature, Minded(w, v, m)
  PROVE  /\ Well(v) /\ \A c \in Creature : Here(w, c) => Here(v, c)
         /\ v[m].life = w[m].life /\ v[m].at = w[m].at /\ v[m].alive = w[m].alive
         /\ v[m].master = w[m].master /\ v[m].wild = w[m].wild
BY SameWell DEF Minded, Same, Here

\* setIdle does nothing to one that is dead or removed.
LEMMA SetIdleMinds ==
  ASSUME NEW w, Well(w), NEW m \in Creature, Here(w, m), NEW b \in BOOLEAN
  PROVE  LET v == SetIdle(w, m, b) IN
         /\ Minded(w, v, m) /\ v[m].near = w[m].near
         /\ IF InGame(w, m) /\ w[m].alive
            THEN v[m].idle = b /\ v[m].targets = IF b THEN {} ELSE w[m].targets
            ELSE v = w
<1> DEFINE T == IF b THEN {} ELSE w[m].targets
           a == [w[m] EXCEPT !.idle = b, !.targets = T]
           v == SetIdle(w, m, b)
<1>1. w \in Worlds /\ w[m] \in Objects
  BY DEF Well, Worlds
<1>2. T \in SUBSET Creature
  BY <1>1 DEF Objects
<1>3. InGame(w, m) <=> w[m].life # "removed"
  BY <1>1 DEF Here, InGame, Objects
<1>4. CASE InGame(w, m) /\ w[m].alive
  <2>1. v = [w EXCEPT ![m] = a]
    BY <1>3, <1>4 DEF SetIdle
  <2> HIDE DEF T, v
  <2>2. /\ a \in Objects
        /\ a.life = w[m].life /\ a.at = w[m].at /\ a.alive = w[m].alive /\ a.master = w[m].master
        /\ a.wild = w[m].wild /\ a.target = w[m].target /\ a.follow = w[m].follow
        /\ a.idle = b /\ a.targets = T /\ a.near = w[m].near
    <3>1. a = [w[m] EXCEPT !.idle = b, !.targets = T]
      OBVIOUS
    <3> HIDE DEF a
    <3>2. b \in BOOLEAN /\ T \in SUBSET Creature /\ w[m] \in Objects
      BY <1>1, <1>2
    <3> QED BY <3>1, <3>2 DEF Objects
  <2> HIDE DEF a
  <2>3. Minded(w, v, m) /\ v[m] = a
    BY <2>1, <2>2, Minding
  <2> QED BY <1>4, <2>2, <2>3 DEF T, v
<1>5. CASE ~(InGame(w, m) /\ w[m].alive)
  <2>1. v = w
    BY <1>3, <1>5 DEF SetIdle
  <2> QED BY <1>1, <1>5, <2>1, MindedSame
<1> QED BY <1>4, <1>5

\* A dead monster is awake; one that sleeps has nobody in its list.
Alert(w, m) == ~w[m].alive => ~w[m].idle
Rests(w, m) == w[m].idle => w[m].targets = {}

\* What updateIdleStatus sees to.
Decided(w, m) ==
  /\ Alert(w, m)
  /\ w[m].master = NULL => Rests(w, m)
  /\ w[m].master \in Players /\ w[m].near => ~w[m].idle

\* updateIdleStatus decides whether m sleeps.
LEMMA UpdateIdleMinds ==
  ASSUME NEW w, Well(w), NEW m \in Monsters, Here(w, m)
  PROVE  LET v == UpdateIdle(w, m) IN
         /\ Minded(w, v, m) /\ v[m].near = w[m].near
         /\ w[m].master = NULL => v[m].targets = w[m].targets
         /\ Alert(w, m) => Alert(v, m)
         /\ Alert(w, m) /\ InGame(w, m) => Decided(v, m)
<1> DEFINE b == IF w[m].master = NULL THEN w[m].targets = {}
                ELSE \/ ~w[m].near /\ ~w[m].comes
                     \/ w[m].master \in Monsters /\ w[w[m].master].idle
           v == UpdateIdle(w, m)
<1>1. m \in Creature /\ w[m] \in Objects
  BY DEF Creature, Well, Worlds
<1>2. b \in BOOLEAN
  <2>1. ASSUME w[m].master \in Monsters PROVE w[w[m].master].idle \in BOOLEAN
    BY <2>1 DEF Well, Worlds, Objects, Creature
  <2>2. w[m].near \in BOOLEAN /\ w[m].comes \in BOOLEAN
    BY <1>1 DEF Objects
  <2> QED BY <2>1, <2>2
<1>3. v = SetIdle(w, m, b)
  BY DEF UpdateIdle
<1>4. w[m].master = NULL => b = (w[m].targets = {})
  OBVIOUS
<1>5. w[m].master \in Players /\ w[m].near => b = FALSE
  <2>1. Players \cap Monsters = {} /\ NULL \notin Players
    BY TargetsAssumption
  <2> QED BY <2>1
<1> HIDE DEF b, v
<1>6. /\ Minded(w, v, m) /\ v[m].near = w[m].near
      /\ IF InGame(w, m) /\ w[m].alive
         THEN v[m].idle = b /\ v[m].targets = IF b THEN {} ELSE w[m].targets
         ELSE v = w
  BY <1>1, <1>2, <1>3, SetIdleMinds
<1>7. v[m].alive = w[m].alive /\ v[m].master = w[m].master
  BY <1>1, <1>6, MindOn
<1>8. w[m].master = NULL => v[m].targets = w[m].targets
  BY <1>4, <1>6
<1>9. Alert(w, m) => Alert(v, m)
  BY <1>6, <1>7 DEF Alert
<1>10. Alert(w, m) /\ InGame(w, m) => Decided(v, m)
  BY <1>4, <1>5, <1>6, <1>7, <1>9 DEF Decided, Alert, Rests
<1> QED BY <1>6, <1>8, <1>9, <1>10 DEF v

\* What m knows and whether it is awake goes on being right, but for out.
Calm(w, v, m, out) ==
  /\ Alert(w, m) => Alert(v, m)
  /\ w[m].master = NULL => /\ Alert(w, m) /\ Rests(w, m) => Rests(v, m)
                           /\ w[m].targets \ out \subseteq v[m].targets

\* A summon that is with its player goes on being awake.
Stays(w, v, m) ==
  w[m].master \in Players /\ w[m].near =>
    v[m].near /\ (Alert(w, m) /\ ~w[m].idle => ~v[m].idle)

\* What is kept by two calls is kept by both together,
LEMMA CalmCalm ==
  ASSUME NEW w, NEW v, NEW u, NEW m \in Creature, v[m].master = w[m].master,
         NEW out, Calm(w, v, m, {}), Calm(v, u, m, out)
  PROVE  Calm(w, u, m, out)
BY DEF Calm

\* also for a summon that is with its player.
LEMMA StaysStays ==
  ASSUME NEW w, NEW v, NEW u, NEW m \in Creature, v[m].master = w[m].master,
         Alert(w, m) => Alert(v, m), Stays(w, v, m), Stays(v, u, m)
  PROVE  Stays(w, u, m)
BY DEF Stays

\* Whom updateIdleStatus wakes up or puts to sleep keeps its list if it has
\* no master.
LEMMA UpdateIdleIsCalm ==
  ASSUME NEW w, Well(w), NEW m \in Monsters, InGame(w, m)
  PROVE  LET v == UpdateIdle(w, m) IN
         /\ Calm(w, v, m, {}) /\ Stays(w, v, m)
         /\ v[m].master = w[m].master
<1> DEFINE v == UpdateIdle(w, m)
<1>1. m \in Creature /\ Here(w, m)
  BY DEF Creature, InGame, Here
<1>2. /\ Minded(w, v, m) /\ v[m].near = w[m].near
      /\ w[m].master = NULL => v[m].targets = w[m].targets
      /\ Alert(w, m) => Alert(v, m) /\ Decided(v, m)
  BY <1>1, UpdateIdleMinds
<1> HIDE DEF v
<1>3. v[m].master = w[m].master
  BY <1>1, <1>2, MindOn
<1>4. Calm(w, v, m, {})
  BY <1>2, <1>3 DEF Calm, Decided
<1>5. Stays(w, v, m)
  BY <1>2, <1>3 DEF Stays, Decided
<1> QED BY <1>3, <1>4, <1>5 DEF v

\* m gets another list.
LEMMA ListMinds ==
  ASSUME NEW w, Well(w), NEW m \in Creature, Here(w, m), NEW T \in SUBSET Creature
  PROVE  LET v == [w EXCEPT ![m].targets = T] IN
         /\ Minded(w, v, m) /\ v[m].targets = T
         /\ v[m].near = w[m].near /\ v[m].idle = w[m].idle
<1> DEFINE a == [w[m] EXCEPT !.targets = T]
           v == [w EXCEPT ![m].targets = T]
<1>1. w[m] \in Objects
  BY DEF Well, Worlds
<1>2. /\ a \in Objects
      /\ a.life = w[m].life /\ a.at = w[m].at /\ a.alive = w[m].alive /\ a.master = w[m].master
      /\ a.wild = w[m].wild /\ a.target = w[m].target /\ a.follow = w[m].follow
      /\ a.idle = w[m].idle /\ a.targets = T /\ a.near = w[m].near
  BY <1>1 DEF Objects
<1>3. v = [w EXCEPT ![m] = a]
  OBVIOUS
<1> HIDE DEF a, v
<1>4. Minded(w, v, m) /\ v[m] = a
  BY <1>2, <1>3, Minding
<1> QED BY <1>2, <1>4 DEF v

\* Nothing but isMasterInRange,
LEMMA NearMinds ==
  ASSUME NEW w, Well(w), NEW m \in Creature, Here(w, m), NEW b \in BOOLEAN
  PROVE  LET v == [w EXCEPT ![m].near = b] IN
         /\ Minded(w, v, m) /\ v[m].near = b
         /\ v[m].targets = w[m].targets /\ v[m].idle = w[m].idle
<1> DEFINE a == [w[m] EXCEPT !.near = b]
           v == [w EXCEPT ![m].near = b]
<1>1. w[m] \in Objects
  BY DEF Well, Worlds
<1>2. /\ a \in Objects
      /\ a.life = w[m].life /\ a.at = w[m].at /\ a.alive = w[m].alive /\ a.master = w[m].master
      /\ a.wild = w[m].wild /\ a.target = w[m].target /\ a.follow = w[m].follow
      /\ a.idle = w[m].idle /\ a.targets = w[m].targets /\ a.near = b
  BY <1>1 DEF Objects
<1>3. v = [w EXCEPT ![m] = a]
  OBVIOUS
<1> HIDE DEF a, v
<1>4. Minded(w, v, m) /\ v[m] = a
  BY <1>2, <1>3, Minding
<1> QED BY <1>2, <1>4 DEF v

\* or teleportToMaster, is changed.
LEMMA ComesMinds ==
  ASSUME NEW w, Well(w), NEW m \in Creature, Here(w, m), NEW b \in BOOLEAN
  PROVE  LET v == [w EXCEPT ![m].comes = b] IN
         /\ Minded(w, v, m) /\ v[m].near = w[m].near
         /\ v[m].targets = w[m].targets /\ v[m].idle = w[m].idle
<1> DEFINE a == [w[m] EXCEPT !.comes = b]
           v == [w EXCEPT ![m].comes = b]
<1>1. w[m] \in Objects
  BY DEF Well, Worlds
<1>2. /\ a \in Objects
      /\ a.life = w[m].life /\ a.at = w[m].at /\ a.alive = w[m].alive /\ a.master = w[m].master
      /\ a.wild = w[m].wild /\ a.target = w[m].target /\ a.follow = w[m].follow
      /\ a.idle = w[m].idle /\ a.targets = w[m].targets /\ a.near = w[m].near
  BY <1>1 DEF Objects
<1>3. v = [w EXCEPT ![m] = a]
  OBVIOUS
<1> HIDE DEF a, v
<1>4. Minded(w, v, m) /\ v[m] = a
  BY <1>2, <1>3, Minding
<1> QED BY <1>2, <1>4 DEF v

\* onCreatureFound of an opponent: it is in the list, and m is awake.
LEMMA FoundMinds ==
  ASSUME NEW w, Well(w), NEW m \in Monsters, InGame(w, m), NEW c \in Creature
  PROVE  LET v == Found(w, m, c) IN
         /\ Minded(w, v, m) /\ v[m].near = w[m].near
         /\ Calm(w, v, m, {}) /\ Stays(w, v, m) /\ v[m].master = w[m].master
         /\ Alert(w, m) => Decided(v, m)
         /\ w[m].master = NULL /\ c \in Players => c \in v[m].targets
<1> DEFINE T == w[m].targets \cup {c}
           u == IF IsOpponent(w, m, c) THEN [w EXCEPT ![m].targets = T] ELSE w
           v == UpdateIdle(u, m)
<1>0. m \in Creature /\ Here(w, m) /\ w \in Worlds /\ T \in SUBSET Creature
  BY DEF Creature, InGame, Here, Well, Worlds, Objects
<1>1. /\ Minded(w, u, m) /\ u[m].near = w[m].near /\ u[m].idle = w[m].idle
      /\ w[m].targets \subseteq u[m].targets
      /\ c \in Players => c \in u[m].targets
  <2>1. CASE IsOpponent(w, m, c)
    <3> DEFINE x == [w EXCEPT ![m].targets = T]
    <3>1. Minded(w, x, m) /\ x[m].targets = T /\ x[m].near = w[m].near /\ x[m].idle = w[m].idle
      <4> HIDE DEF T
      <4> QED BY <1>0, ListMinds
    <3>2. u = x
      BY <2>1
    <3> HIDE DEF u, x
    <3> QED BY <3>1, <3>2
  <2>2. CASE ~IsOpponent(w, m, c)
    BY <1>0, <2>2, MindedSame DEF IsOpponent
  <2> QED BY <2>1, <2>2
<1>2. Found(w, m, c) = v
  BY DEF Found
<1> HIDE DEF T, u
<1>3. /\ Well(u) /\ Here(u, m) /\ InGame(u, m) /\ u[m].master = w[m].master /\ u[m].alive = w[m].alive
  BY <1>0, <1>1, MindOn DEF InGame
<1>4. /\ Minded(u, v, m) /\ v[m].near = u[m].near
      /\ u[m].master = NULL => v[m].targets = u[m].targets
      /\ Alert(u, m) => Alert(v, m) /\ Decided(v, m)
  BY <1>3, UpdateIdleMinds
<1> HIDE DEF v
<1>5. Minded(w, v, m) /\ v[m].master = w[m].master
  BY <1>0, <1>1, <1>3, <1>4, MindedMinded, MindOn
<1>6. Alert(w, m) => Alert(u, m) /\ Decided(v, m)
  BY <1>1, <1>3, <1>4 DEF Alert
<1>7. Calm(w, v, m, {})
  BY <1>1, <1>3, <1>4, <1>5, <1>6 DEF Calm, Decided
<1>8. Stays(w, v, m)
  BY <1>1, <1>3, <1>4, <1>5, <1>6 DEF Stays, Decided
<1> QED BY <1>1, <1>2, <1>3, <1>4, <1>5, <1>6, <1>7, <1>8

\* onCreatureEnter.
LEMMA EnterMinds ==
  ASSUME NEW w, Well(w), NEW m \in Monsters, InGame(w, m), NEW c \in Creature
  PROVE  LET v == Enter(w, m, c) IN
         /\ Minded(w, v, m)
         /\ Calm(w, v, m, {}) /\ Stays(w, v, m) /\ v[m].master = w[m].master
         /\ Alert(w, m) => Decided(v, m)
         /\ w[m].master = NULL /\ c \in Players => c \in v[m].targets
         /\ IF w[m].master = c THEN v[m].near = TRUE ELSE v[m].near = w[m].near
<1> DEFINE x == [w EXCEPT ![m].near = TRUE]
           u == IF w[m].master = c THEN UpdateIdle(x, m) ELSE w
           v == Found(u, m, c)
<1>0. m \in Creature /\ Here(w, m) /\ w \in Worlds
  BY DEF Creature, InGame, Here, Well
<1>1. /\ Minded(w, u, m) /\ Calm(w, u, m, {}) /\ Stays(w, u, m)
      /\ IF w[m].master = c THEN u[m].near = TRUE ELSE u[m].near = w[m].near
  <2>1. CASE w[m].master = c
    <3>1. /\ Minded(w, x, m) /\ x[m].near = TRUE
          /\ x[m].targets = w[m].targets /\ x[m].idle = w[m].idle
      BY <1>0, NearMinds
    <3> HIDE DEF x
    <3>2. Well(x) /\ Here(x, m) /\ InGame(x, m) /\ x[m].master = w[m].master /\ x[m].alive = w[m].alive
      BY <1>0, <3>1, MindOn DEF InGame
    <3>3. u = UpdateIdle(x, m)
      BY <2>1
    <3> HIDE DEF u
    <3>4. Minded(x, u, m) /\ u[m].near = x[m].near
      BY <3>2, <3>3, UpdateIdleMinds
    <3>5. Calm(x, u, m, {}) /\ Stays(x, u, m)
      BY <3>2, <3>3, UpdateIdleIsCalm
    <3>6. Calm(w, x, m, {}) /\ Stays(w, x, m) /\ (Alert(w, m) => Alert(x, m))
      BY <3>1, <3>2 DEF Calm, Stays, Alert, Rests
    <3>7. Minded(w, u, m)
      BY <1>0, <3>1, <3>4, MindedMinded
    <3>8. Calm(w, u, m, {})
      BY <1>0, <3>2, <3>5, <3>6, CalmCalm
    <3>9. Stays(w, u, m)
      BY <1>0, <3>2, <3>5, <3>6, StaysStays
    <3> QED BY <2>1, <3>1, <3>4, <3>7, <3>8, <3>9
  <2>2. CASE w[m].master # c
    <3>1. u = w
      BY <2>2
    <3> HIDE DEF u
    <3> QED BY <1>0, <2>2, <3>1, MindedSame DEF Calm, Stays
  <2> QED BY <2>1, <2>2
<1>2. Enter(w, m, c) = v
  BY DEF Enter
<1> HIDE DEF u
<1>3. /\ Well(u) /\ InGame(u, m) /\ u[m].master = w[m].master /\ u[m].alive = w[m].alive
  BY <1>0, <1>1, MindOn DEF InGame
<1>4. /\ Minded(u, v, m) /\ v[m].near = u[m].near
      /\ Calm(u, v, m, {}) /\ Stays(u, v, m) /\ v[m].master = u[m].master
      /\ Alert(u, m) => Decided(v, m)
      /\ u[m].master = NULL /\ c \in Players => c \in v[m].targets
  BY <1>3, FoundMinds
<1> HIDE DEF v
<1>5. Alert(w, m) => Alert(u, m)
  BY <1>1 DEF Calm
<1>6. Minded(w, v, m)
  BY <1>0, <1>1, <1>4, MindedMinded
<1>7. Calm(w, v, m, {})
  BY <1>0, <1>1, <1>3, <1>4, CalmCalm
<1>8. Stays(w, v, m)
  BY <1>0, <1>1, <1>3, <1>4, <1>5, StaysStays
<1> QED BY <1>1, <1>2, <1>3, <1>4, <1>5, <1>6, <1>7, <1>8

\* onCreatureLeave: nobody but c is forgotten.
LEMMA LeaveMinds ==
  ASSUME NEW w, Well(w), NEW m \in Monsters, InGame(w, m), NEW c \in Creature
  PROVE  LET v == Leave(w, m, c) IN
         /\ Minded(w, v, m) /\ Calm(w, v, m, {c}) /\ Stays(w, v, m)
<1> DEFINE T == w[m].targets \ {c}
           u == [w EXCEPT ![m].targets = T]
           v == Leave(w, m, c)
<1>0. m \in Creature /\ Here(w, m) /\ w \in Worlds /\ T \in SUBSET Creature
  BY DEF Creature, InGame, Here, Well, Worlds, Objects
<1>1. /\ Minded(w, u, m) /\ u[m].targets = T /\ u[m].near = w[m].near /\ u[m].idle = w[m].idle
  <2> HIDE DEF T
  <2> QED BY <1>0, ListMinds
<1>2. /\ Well(u) /\ InGame(u, m) /\ u[m].master = w[m].master /\ u[m].alive = w[m].alive
  <2> HIDE DEF u
  <2> QED BY <1>0, <1>1, MindOn DEF InGame
<1>3. CASE ~IsOpponent(w, m, c) \/ c \notin w[m].targets
  <2>1. v = w
    BY <1>3 DEF Leave
  <2> HIDE DEF v
  <2>2. Minded(w, v, m)
    BY <1>0, <2>1, MindedSame
  <2> QED BY <2>1, <2>2 DEF Calm, Stays, v
<1>4. CASE IsOpponent(w, m, c) /\ c \in w[m].targets /\ u[m].targets = {}
  <2>1. v = UpdateIdle(u, m)
    BY <1>4 DEF Leave
  <2> HIDE DEF u, v
  <2>2. /\ Minded(u, v, m) /\ v[m].near = u[m].near
        /\ u[m].master = NULL => v[m].targets = u[m].targets
        /\ Alert(u, m) => Alert(v, m) /\ Decided(v, m)
    <3>1. Here(u, m)
      BY <1>2 DEF InGame, Here
    <3> QED BY <1>2, <2>1, <3>1, UpdateIdleMinds
  <2>3. Minded(w, v, m) /\ v[m].master = w[m].master
    BY <1>0, <1>1, <1>2, <2>2, MindedMinded, MindOn
  <2>4. Alert(w, m) => Alert(u, m) /\ Decided(v, m)
    BY <1>1, <1>2, <2>2 DEF Alert
  <2>5. Calm(w, v, m, {c})
    BY <1>1, <1>2, <2>2, <2>3, <2>4 DEF Calm, Decided
  <2>6. Stays(w, v, m)
    BY <1>1, <1>2, <2>2, <2>3, <2>4 DEF Stays, Decided
  <2> QED BY <2>3, <2>5, <2>6 DEF v
<1>5. CASE IsOpponent(w, m, c) /\ c \in w[m].targets /\ u[m].targets # {}
  <2>1. v = u
    BY <1>5 DEF Leave
  <2> HIDE DEF u, v
  <2>2. Calm(w, v, m, {c})
    BY <1>1, <1>2, <1>5, <2>1 DEF Calm, Alert, Rests
  <2>3. Stays(w, v, m)
    BY <1>1, <2>1 DEF Stays
  <2> QED BY <1>1, <2>1, <2>2, <2>3 DEF v
<1> QED BY <1>3, <1>4, <1>5

\* updateTargetList and updateIdleStatus: m knows every player it sees.
LEMMA LooksMinds ==
  ASSUME NEW w, Well(w), NEW m \in Monsters, InGame(w, m)
  PROVE  LET v == UpdateIdle(UpdateTargets(w, m), m) IN
         /\ Minded(w, v, m) /\ v[m].near = w[m].near
         /\ Alert(w, m) => Decided(v, m)
         /\ w[m].master = NULL =>
              \A p \in Players : InGame(w, p) /\ Sees(w, m, w[p].at) => p \in v[m].targets
<1> DEFINE seen == {c \in Spectators(w, w[m].at) \ {m} : Sees(w, m, w[c].at)}
           kept == {c \in w[m].targets : w[c].alive /\ Sees(w, m, w[c].at)}
           T == kept \cup {c \in seen : IsOpponent(w, m, c)}
           x == [w EXCEPT ![m].targets = T]
           u == UpdateTargets(w, m)
           v == UpdateIdle(u, m)
<1>0. m \in Creature /\ Here(w, m) /\ w \in Worlds /\ T \in SUBSET Creature
  BY DEF Creature, InGame, Here, Well, Worlds, Objects, Spectators
<1>1. /\ Minded(w, x, m) /\ x[m].targets = T /\ x[m].near = w[m].near /\ x[m].idle = w[m].idle
  <2> HIDE DEF T
  <2> QED BY <1>0, ListMinds
<1>2. \A p \in Players : InGame(w, p) /\ Sees(w, m, w[p].at) => p \in T
  <2> SUFFICES ASSUME NEW p \in Players, InGame(w, p), Sees(w, m, w[p].at) PROVE p \in T
    OBVIOUS
  <2>1. p \in Creature /\ p # m /\ m \notin Players
    BY TargetsAssumption DEF Creature
  <2>2. <<w[m].at, w[p].at>> \in Viewport
    BY <2>1 DEF Sees
  <2>3. <<w[p].at, w[m].at>> \in Viewport
    BY <2>2, TargetsAssumption
  <2>4. p \in seen
    BY <2>1, <2>3 DEF Spectators
  <2>5. IsOpponent(w, m, p)
    BY DEF IsOpponent
  <2> QED BY <2>4, <2>5
<1>3. u = IF seen = {} THEN x ELSE UpdateIdle(x, m)
  BY DEF UpdateTargets
<1> HIDE DEF x, T, seen
<1>4. Well(x) /\ Here(x, m) /\ InGame(x, m) /\ x[m].master = w[m].master /\ x[m].alive = w[m].alive
  BY <1>0, <1>1, MindOn DEF InGame
<1>5. LET y == UpdateIdle(x, m) IN
      /\ Minded(x, y, m) /\ y[m].near = x[m].near
      /\ x[m].master = NULL => y[m].targets = x[m].targets
      /\ Alert(x, m) => Alert(y, m)
  BY <1>4, UpdateIdleMinds
<1>6. x \in Worlds
  BY <1>4 DEF Well
<1>7. /\ Minded(x, u, m) /\ u[m].near = x[m].near
      /\ x[m].master = NULL => u[m].targets = x[m].targets
      /\ Alert(x, m) => Alert(u, m)
  BY <1>3, <1>5, <1>6, MindedSame
<1> HIDE DEF u
<1>8. Well(u) /\ Here(u, m) /\ InGame(u, m) /\ u[m].master = w[m].master
  BY <1>0, <1>4, <1>7, MindOn DEF InGame
<1>9. /\ Minded(u, v, m) /\ v[m].near = u[m].near
      /\ u[m].master = NULL => v[m].targets = u[m].targets
      /\ Alert(u, m) => Decided(v, m)
  BY <1>8, UpdateIdleMinds
<1> HIDE DEF v
<1>10. Alert(w, m) => Alert(u, m)
  BY <1>1, <1>4, <1>7 DEF Alert
<1>11. Minded(w, v, m)
  BY <1>0, <1>1, <1>7, <1>9, MindedMinded
<1> QED BY <1>1, <1>2, <1>4, <1>7, <1>8, <1>9, <1>10, <1>11 DEF u, v

\* Upon its own appearing or moving m knows all it sees, and whether its
\* master is near.
LEMMA LookAroundMinds ==
  ASSUME NEW w, Well(w), NEW m \in Monsters, InGame(w, m)
  PROVE  LET v == LookAround(w, m) IN
         /\ Minded(w, v, m)
         /\ Alert(w, m) => Decided(v, m)
         /\ w[m].master # NULL /\ Sees(w, m, w[w[m].master].at) => v[m].near
         /\ w[m].master = NULL =>
              \A p \in Players : InGame(w, p) /\ Sees(w, m, w[p].at) => p \in v[m].targets
<1> DEFINE b == Sees(w, m, w[w[m].master].at)
           x == [w EXCEPT ![m].near = b]
           u == IF w[m].master = NULL THEN w ELSE x
           v == UpdateIdle(UpdateTargets(u, m), m)
<1>0. m \in Creature /\ Here(w, m) /\ w \in Worlds /\ b \in BOOLEAN
  BY DEF Creature, InGame, Here, Well, Sees
<1>1. /\ Minded(w, x, m) /\ x[m].near = b
      /\ x[m].targets = w[m].targets /\ x[m].idle = w[m].idle
  <2> HIDE DEF b
  <2> QED BY <1>0, NearMinds
<1> HIDE DEF x
<1>2. /\ Minded(w, u, m) /\ u[m].targets = w[m].targets /\ u[m].idle = w[m].idle
      /\ w[m].master # NULL => u[m].near = b
      /\ w[m].master = NULL => u = w
  BY <1>0, <1>1, MindedSame
<1>3. LookAround(w, m) = v
  BY DEF LookAround, x
<1> HIDE DEF u, b
<1>4. Well(u) /\ Here(u, m) /\ InGame(u, m) /\ u[m].master = w[m].master /\ u[m].alive = w[m].alive
  BY <1>0, <1>2, MindOn DEF InGame
<1>5. /\ Minded(u, v, m) /\ v[m].near = u[m].near
      /\ Alert(u, m) => Decided(v, m)
      /\ u[m].master = NULL =>
           \A p \in Players : InGame(u, p) /\ Sees(u, m, u[p].at) => p \in v[m].targets
  BY <1>4, LooksMinds
<1> HIDE DEF v
<1>6. Minded(w, v, m)
  BY <1>0, <1>2, <1>5, MindedMinded
<1>7. Alert(w, m) => Alert(u, m)
  BY <1>2, <1>4 DEF Alert
<1> QED BY <1>2, <1>3, <1>4, <1>5, <1>6, <1>7 DEF b

-----------------------------------------------------------------------------
(* What one who is told of something may change                              *)

\* Others than m go on knowing what they know.
Step(w, v, m, t) ==
  /\ Same(w, v) /\ Aimed(w, v, t)
  /\ \A c \in Creature : c # m =>
       v[c].targets = w[c].targets /\ v[c].idle = w[c].idle /\ v[c].near = w[c].near

\* Nothing has to happen in a step of one creature,
LEMMA StepSame ==
  ASSUME NEW w \in Worlds, NEW m, NEW t PROVE Step(w, w, m, t)
BY DEF Step, Same, Aimed, Keeps

\* it may turn,
LEMMA TurnedIsStep ==
  ASSUME NEW w, NEW v, NEW m, NEW t, Turned(w, v, t) PROVE Step(w, v, m, t)
BY DEF Turned, Step

\* it may change its mind,
LEMMA MindedIsStep ==
  ASSUME NEW w, NEW v, NEW m, NEW t, Minded(w, v, m) PROVE Step(w, v, m, t)
BY DEF Minded, Step, Aimed, Keeps

\* or do both.
LEMMA StepStep ==
  ASSUME NEW w, NEW v, NEW u, NEW m, NEW t \in Creature \cup {NULL}, Step(w, v, m, t), Step(v, u, m, t)
  PROVE  Step(w, u, m, t)
<1>1. Same(w, u)
  BY SameSame DEF Step
<1>2. ASSUME NEW c \in Creature, t # NULL PROVE CanAim(v, c, t) = CanAim(w, c, t)
  BY <1>2, SameSees DEF Step
<1>3. Aimed(w, u, t)
  BY <1>2 DEF Step, Aimed, Keeps
<1> QED BY <1>1, <1>3 DEF Step

\* The world stays in order.
LEMMA StepOn ==
  ASSUME NEW w, Well(w), NEW v, NEW m, NEW t, Step(w, v, m, t)
  PROVE  /\ Well(v)
         /\ \A c \in Creature :
              /\ Here(w, c) => Here(v, c)
              /\ InGame(v, c) = InGame(w, c) /\ v[c].master = w[c].master /\ v[c].at = w[c].at
              /\ v[c].wild = w[c].wild /\ v[c].alive = w[c].alive
BY SameWell DEF Step, Same, Here, InGame

\* Turning changes nothing that a monster knows.
LEMMA TurnedIsCalm ==
  ASSUME NEW w, NEW v, NEW t, Turned(w, v, t), NEW m \in Creature
  PROVE  /\ Calm(w, v, m, {}) /\ Stays(w, v, m) /\ v[m].master = w[m].master
         /\ Alert(w, m) => Alert(v, m)
         /\ Decided(w, m) => Decided(v, m)
BY DEF Turned, Same, Calm, Stays, Alert, Rests, Decided

\* The end of onCreatureMove, upon somebody else's move.
LEMMA SeenSteps ==
  ASSUME NEW w, Well(w), NEW m \in Monsters, Here(w, m), NEW d \in Creature, NEW b \in BOOLEAN
  PROVE  LET v == Seen(w, m, d, b) IN
         /\ Step(w, v, m, IF IsTarget(w, m, d) THEN d ELSE NULL)
         /\ InGame(w, m) =>
              /\ Calm(w, v, m, {}) /\ Stays(w, v, m)
              /\ Alert(w, m) => Decided(v, m)
              /\ w[m].master = d /\ b => v[m].near
<1> DEFINE x == [w EXCEPT ![m].near = TRUE]
           u == IF w[m].master = d /\ b THEN x ELSE w
           y == UpdateIdle(u, m)
           z == IF y[m].follow = NULL /\ y[m].master = NULL /\ IsOpponent(y, m, d)
                THEN Select(y, m, d) ELSE y
           t == IF IsTarget(w, m, d) THEN d ELSE NULL
<1>0. m \in Creature /\ w \in Worlds /\ t \in Creature \cup {NULL}
  BY DEF Creature, Well
<1>1. /\ Minded(w, x, m) /\ x[m].near = TRUE
      /\ x[m].targets = w[m].targets /\ x[m].idle = w[m].idle
  BY <1>0, NearMinds
<1> HIDE DEF x
<1>2. /\ Minded(w, u, m) /\ u[m].targets = w[m].targets /\ u[m].idle = w[m].idle
      /\ IF w[m].master = d /\ b THEN u[m].near = TRUE ELSE u[m].near = w[m].near
  BY <1>0, <1>1, MindedSame
<1>3. Seen(w, m, d, b) = z
  BY DEF Seen, x
<1> HIDE DEF u
<1>4. /\ Well(u) /\ Here(u, m) /\ InGame(u, m) = InGame(w, m)
      /\ u[m].master = w[m].master /\ u[m].alive = w[m].alive
  BY <1>0, <1>2, MindOn DEF InGame
<1>5. /\ Minded(u, y, m) /\ y[m].near = u[m].near
      /\ Alert(u, m) /\ InGame(u, m) => Decided(y, m)
  BY <1>4, UpdateIdleMinds
<1>6. InGame(w, m) => Calm(u, y, m, {}) /\ Stays(u, y, m)
  BY <1>4, UpdateIdleIsCalm
<1> HIDE DEF y
<1>7. Well(y) /\ Here(y, m) /\ y \in Worlds /\ Minded(w, y, m) /\ y[m].master = w[m].master
  BY <1>0, <1>2, <1>4, <1>5, MindOn, MindedMinded DEF Well
<1>8. Turned(y, z, t)
  <2>1. IsTarget(y, m, d) = IsTarget(w, m, d)
    BY <1>0, <1>7 DEF Minded, Same, IsTarget, InGame
  <2>2. Turned(y, Select(y, m, d), t)
    BY <1>0, <1>7, <2>1, SelectTurns
  <2>3. Turned(y, y, t)
    BY <1>7, TurnedSame
  <2> QED BY <2>2, <2>3
<1> HIDE DEF z
<1>9. Step(w, z, m, t)
  <2>1. Step(w, y, m, t) /\ Step(y, z, m, t)
    BY <1>7, <1>8, MindedIsStep, TurnedIsStep
  <2> HIDE DEF t
  <2> QED BY <1>0, <2>1, StepStep
<1>10. ASSUME InGame(w, m)
       PROVE  /\ Calm(w, z, m, {}) /\ Stays(w, z, m)
              /\ Alert(w, m) => Decided(z, m)
              /\ w[m].master = d /\ b => z[m].near
  <2>1. Alert(w, m) => Alert(u, m) /\ Decided(y, m)
    BY <1>2, <1>4, <1>5, <1>10 DEF Alert
  <2>2. Calm(w, u, m, {}) /\ Stays(w, u, m)
    BY <1>2, <1>4 DEF Calm, Stays, Alert, Rests
  <2>3. Calm(w, y, m, {}) /\ Stays(w, y, m) /\ (Alert(w, m) => Alert(y, m))
    BY <1>0, <1>4, <1>6, <1>10, <2>1, <2>2, CalmCalm, StaysStays DEF Decided
  <2>4. Calm(y, z, m, {}) /\ Stays(y, z, m) /\ (Decided(y, m) => Decided(z, m))
    BY <1>0, <1>8, TurnedIsCalm
  <2>5. z[m].near = y[m].near
    BY <1>0, <1>8 DEF Turned
  <2>6. Calm(w, z, m, {}) /\ Stays(w, z, m)
    BY <1>0, <1>7, <2>3, <2>4, CalmCalm, StaysStays
  <2> QED BY <1>2, <1>5, <2>1, <2>4, <2>5, <2>6
<1> QED BY <1>3, <1>9, <1>10

-----------------------------------------------------------------------------
(* The notices                                                               *)

\* One who is removed is not woken up.
LEMMA RemovedSleeps ==
  ASSUME NEW w, Well(w), NEW m \in Creature, Here(w, m), ~InGame(w, m)
  PROVE  UpdateIdle(w, m) = w /\ w[m].master = NULL
<1>1. w[m].life = "removed"
  BY DEF Well, Worlds, Objects, Here, InGame
<1> QED BY <1>1 DEF UpdateIdle, SetIdle, Well

\* The same of a monster that may be removed already: onCreatureEnter,
LEMMA EnterHere ==
  ASSUME NEW w, Well(w), NEW m \in Monsters, Here(w, m), NEW c \in Creature
  PROVE  Minded(w, Enter(w, m, c), m)
<1> DEFINE T == w[m].targets \cup {c}
           u == [w EXCEPT ![m].targets = T]
<1>1. m \in Creature /\ w \in Worlds
  BY DEF Creature, Well
<1>2. CASE InGame(w, m)
  BY <1>2, EnterMinds
<1>3. CASE ~InGame(w, m)
  <2>1. T \in SUBSET Creature
    BY <1>1 DEF Worlds, Objects
  <2>2. Minded(w, u, m) /\ Minded(w, w, m)
    BY <1>1, <2>1, ListMinds, MindedSame
  <2>3. Well(u) /\ Here(u, m) /\ ~InGame(u, m)
    BY <2>2, <1>1, <1>3, MindOn DEF InGame
  <2>4. UpdateIdle(u, m) = u /\ UpdateIdle(w, m) = w /\ w[m].master # c
    BY <1>1, <1>3, <2>3, RemovedSleeps, Apart
  <2>5. Enter(w, m, c) \in {u, w}
    BY <2>4 DEF Enter, Found
  <2> QED BY <2>2, <2>5
<1> QED BY <1>2, <1>3

\* looking around,
LEMMA LooksHere ==
  ASSUME NEW w, Well(w), NEW m \in Monsters, Here(w, m)
  PROVE  /\ Minded(w, UpdateIdle(UpdateTargets(w, m), m), m)
         /\ Minded(w, LookAround(w, m), m)
<1>1. m \in Creature /\ w \in Worlds
  BY DEF Creature, Well
<1>2. CASE InGame(w, m)
  BY <1>2, LooksMinds, LookAroundMinds
<1>3. CASE ~InGame(w, m)
  <2> DEFINE seen == {c \in Spectators(w, w[m].at) \ {m} : Sees(w, m, w[c].at)}
             kept == {c \in w[m].targets : w[c].alive /\ Sees(w, m, w[c].at)}
             T == kept \cup {c \in seen : IsOpponent(w, m, c)}
             v == [w EXCEPT ![m].targets = T]
  <2>1. T \in SUBSET Creature
    BY <1>1 DEF Spectators, Worlds, Objects
  <2>2. Minded(w, v, m)
    <3> HIDE DEF T
    <3> QED BY <1>1, <2>1, ListMinds
  <2>3. Well(v) /\ Here(v, m) /\ ~InGame(v, m)
    BY <2>2, <1>1, <1>3, MindOn DEF InGame
  <2>4. UpdateIdle(v, m) = v
    BY <1>1, <2>3, RemovedSleeps
  <2>5. UpdateTargets(w, m) = v
    BY <2>4 DEF UpdateTargets
  <2>6. LookAround(w, m) = v
    <3>1. w[m].master = NULL
      BY <1>1, <1>3, RemovedSleeps
    <3> HIDE DEF v
    <3> QED BY <2>4, <2>5, <3>1 DEF LookAround
  <2> HIDE DEF v
  <2> QED BY <2>2, <2>4, <2>5, <2>6
<1> QED BY <1>2, <1>3

\* onCreatureLeave.
LEMMA LeaveHere ==
  ASSUME NEW w, Well(w), NEW m \in Monsters, Here(w, m), NEW c \in Creature
  PROVE  Minded(w, Leave(w, m, c), m)
<1> DEFINE T == w[m].targets \ {c}
           u == [w EXCEPT ![m].targets = T]
<1>1. m \in Creature /\ w \in Worlds
  BY DEF Creature, Well
<1>2. CASE InGame(w, m)
  BY <1>2, LeaveMinds
<1>3. CASE ~InGame(w, m)
  <2>1. T \in SUBSET Creature
    BY <1>1 DEF Worlds, Objects
  <2>2. Minded(w, u, m) /\ Minded(w, w, m)
    BY <1>1, <2>1, ListMinds, MindedSame
  <2>3. Well(u) /\ Here(u, m) /\ ~InGame(u, m)
    BY <2>2, <1>1, <1>3, MindOn DEF InGame
  <2>4. UpdateIdle(u, m) = u
    BY <1>1, <2>3, RemovedSleeps
  <2>5. Leave(w, m, c) \in {u, w}
    BY <2>4 DEF Leave
  <2> QED BY <2>2, <2>5
<1> QED BY <1>2, <1>3

\* In a protection zone nobody stays under attack.
LEMMA IntoProtectionTurns ==
  ASSUME NEW w, Well(w), NEW c \in Creature, Here(w, c), NEW z \in Creature
  PROVE  LET v == IntoProtection(w, c, z) IN
         /\ Turned(w, v, NULL)
         /\ w[z].at \in Protected => v[c].target = NULL
<1> DEFINE t == w[c].target
           v == IntoProtection(w, c, z)
<1>1. w \in Worlds /\ t \in Creature \cup {NULL}
  BY DEF Well, Worlds, Objects
<1>2. CASE t = NULL \/ w[z].at \notin Protected
  <2>1. v = w
    BY <1>2 DEF IntoProtection
  <2> QED BY <2>1, <1>1, <1>2, TurnedSame
<1>3. CASE t # NULL /\ w[z].at \in Protected /\ c \in Players
  <2>1. v = SetAttacked(w, c, NULL)
    BY <1>3 DEF IntoProtection
  <2> QED BY <2>1, SetAttackedTurns
<1>4. CASE t # NULL /\ w[z].at \in Protected /\ c \notin Players
  <2>1. v = Disappear(w, c, t)
    BY <1>4 DEF IntoProtection
  <2>2. Turned(w, v, NULL) /\ v[c].target # t
    BY <1>1, <1>4, <2>1, DisappearTurns
  <2> QED BY <2>2, TurnedLess
<1> QED BY <1>2, <1>3, <1>4

\* Whom c goes on to aim at after the notice of a move that concerns them is in
\* its sight, on its floor, and is spared if it went into a protection zone.
LEMMA MovedTurns ==
  ASSUME NEW w, Well(w), NEW c \in Creature, Here(w, c), NEW d \in Creature, NEW p, NEW q
  PROVE  LET v == Moved(w, c, d, p, q) IN
         /\ Turned(w, v, NULL)
         /\ \A u \in {v[c].target, v[c].follow} \ {NULL} : d \in {c, u} =>
              SameFloor(p, q) /\ Sees(w, c, w[u].at)
         /\ v[c].target # NULL /\ d = v[c].target /\ OtherZone(p, q) =>
              w[v[c].target].at \notin Protected
<1> DEFINE a == ChangesZone(w, c, d, p, q)
           b == LosesFollow(a, c, d, p, q)
           v == LosesTarget(b, c, d, p, q)
<1>1. v = Moved(w, c, d, p, q)
  BY DEF Moved
<1> HIDE DEF a, b, v
<1>2. Turned(w, a, NULL) /\ Well(a) /\ Here(a, c)
  <2>1. Turned(w, IntoProtection(w, c, c), NULL) /\ Turned(w, w, NULL)
    BY IntoProtectionTurns, TurnedSame DEF Well
  <2>2. Turned(w, a, NULL)
    BY <2>1 DEF a, ChangesZone
  <2> QED BY <2>2, TurnOn
<1>3. a \in Worlds /\ a[c].follow \in Creature \cup {NULL}
  BY <1>2 DEF Well, Worlds, Objects
<1>4. Turned(a, b, NULL) /\ (b[c].follow # NULL /\ d \in {c, b[c].follow} => InSight(a, c, b[c].follow, p, q))
  <2>1. CASE Concerns(a[c].follow, c, d) /\ ~InSight(a, c, a[c].follow, p, q)
    <3>1. b = Disappear(a, c, a[c].follow) /\ a[c].follow \in Creature
      BY <2>1, <1>3 DEF b, LosesFollow, Concerns
    <3>2. Turned(a, b, NULL) /\ b[c].follow # a[c].follow
      BY <3>1, <1>2, DisappearTurns
    <3> QED BY <3>2, TurnedLess
  <2>2. CASE ~(Concerns(a[c].follow, c, d) /\ ~InSight(a, c, a[c].follow, p, q))
    <3>1. b = a
      BY <2>2 DEF b, LosesFollow
    <3> QED BY <3>1, <1>3, <2>2, TurnedSame DEF Concerns
  <2> QED BY <2>1, <2>2
<1>5. Turned(w, b, NULL) /\ Well(b) /\ Here(b, c)
  BY <1>2, <1>4, TurnedTurned, TurnOn
<1>6. b \in Worlds /\ b[c].target \in Creature \cup {NULL}
  BY <1>5 DEF Well, Worlds, Objects
<1>7. /\ Turned(b, v, NULL)
      /\ v[c].target # NULL /\ d \in {c, v[c].target} => InSight(b, c, v[c].target, p, q)
      /\ v[c].target # NULL /\ d = v[c].target /\ OtherZone(p, q) => b[v[c].target].at \notin Protected
  <2>1. CASE ~Concerns(b[c].target, c, d)
    <3>1. v = b
      BY <2>1 DEF v, LosesTarget
    <3> QED BY <3>1, <1>6, <2>1, TurnedSame DEF Concerns
  <2>2. CASE Concerns(b[c].target, c, d) /\ ~InSight(b, c, b[c].target, p, q)
    <3>1. v = Disappear(b, c, b[c].target) /\ b[c].target \in Creature
      BY <2>2, <1>6 DEF v, LosesTarget, Concerns
    <3>2. Turned(b, v, NULL) /\ v[c].target # b[c].target
      BY <3>1, <1>5, DisappearTurns
    <3> QED BY <3>2, TurnedLess
  <2>3. CASE Concerns(b[c].target, c, d) /\ InSight(b, c, b[c].target, p, q)
    <3>1. b[c].target \in Creature
      BY <2>3, <1>6 DEF Concerns
    <3>2. Turned(b, IntoProtection(b, c, b[c].target), NULL) /\ Turned(b, b, NULL)
          /\ (b[b[c].target].at \in Protected => IntoProtection(b, c, b[c].target)[c].target = NULL)
      BY <3>1, <1>5, <1>6, IntoProtectionTurns, TurnedSame
    <3>3. IF OtherZone(p, q) THEN v = IntoProtection(b, c, b[c].target) ELSE v = b
      BY <2>3 DEF v, LosesTarget
    <3>4. Turned(b, v, NULL)
      BY <3>2, <3>3
    <3>5. v[c].target \in {b[c].target, NULL}
      BY <3>4, TurnedLess
    <3> QED BY <2>3, <3>2, <3>3, <3>4, <3>5
  <2> QED BY <2>1, <2>2, <2>3
<1>8. Turned(w, v, NULL)
  BY <1>5, <1>7, TurnedTurned
<1>9. v[c].follow \in {b[c].follow, NULL}
  BY <1>7, TurnedLess
<1>10. /\ \A u \in Creature : InSight(a, c, u, p, q) = (SameFloor(p, q) /\ Sees(w, c, w[u].at))
       /\ \A u \in Creature : InSight(b, c, u, p, q) = (SameFloor(p, q) /\ Sees(w, c, w[u].at))
       /\ \A u \in Creature : b[u].at = w[u].at
  <2>1. Same(w, a) /\ Same(w, b)
    BY <1>2, <1>5 DEF Turned
  <2>2. \A r : Sees(a, c, r) = Sees(w, c, r) /\ Sees(b, c, r) = Sees(w, c, r)
    BY <2>1, SameSees
  <2> QED BY <2>1, <2>2 DEF InSight, Same
<1>11. v[c].target \in Creature \cup {NULL} /\ v[c].follow \in Creature \cup {NULL}
  BY <1>8 DEF Turned, Same, Worlds, Objects
<1> QED BY <1>1, <1>4, <1>7, <1>8, <1>9, <1>10, <1>11

GoesAfter(m, q) == <<Act("go", {m}, q)>>

\* Upon somebody's leaving its sight a summon of his goes after him, or it is
\* turned off or comes later; another monster does nothing first.
LEMMA LeaveFirstIs ==
  ASSUME NEW w, Well(w), NEW m \in Monsters, Here(w, m), NEW c \in Creature, NEW luck, NEW calls
  PROVE  LET r == LeaveFirst(w, m, c, luck, calls) IN
         /\ Minded(w, r.world, m)
         /\ Alert(w, m) => Alert(r.world, m)
         /\ w[m].master # c => r.world = w
         /\ \/ r.calls = calls
            \/ /\ r.calls = GoesAfter(m, w[c].at) \o calls
               /\ w[m].master = c /\ InGame(w, m) /\ w[c].at \notin Protected
<1> DEFINE r == LeaveFirst(w, m, c, luck, calls)
           a == [w EXCEPT ![m].near = FALSE]
           b == [w EXCEPT ![m].comes = TRUE]
<1>0. m \in Creature /\ w \in Worlds
  BY DEF Creature, Well
<1>1. Minded(w, w, m)
  BY <1>0, MindedSame
<1>2. Minded(w, a, m) /\ a[m].targets = w[m].targets /\ a[m].idle = w[m].idle
  BY <1>0, NearMinds
<1>3. Minded(w, b, m) /\ b[m].targets = w[m].targets /\ b[m].idle = w[m].idle
  BY <1>0, ComesMinds
<1> HIDE DEF a, b
<1>4. CASE w[m].master # c
  <2>1. r.world = w /\ r.calls = calls
    BY <1>4 DEF LeaveFirst, Then
  <2> QED BY <2>1, <1>1
<1>5. CASE w[m].master = c /\ ~Teleports(c)
  <2>1. r.world = UpdateIdle(a, m) /\ r.calls = calls
    BY <1>5 DEF LeaveFirst, Then, a
  <2>2. Well(a) /\ Here(a, m)
    BY <1>0, <1>2, MindOn
  <2>3. Minded(a, r.world, m) /\ (Alert(a, m) => Alert(r.world, m))
    BY <2>1, <2>2, UpdateIdleMinds
  <2>4. Minded(w, r.world, m)
    BY <1>0, <1>2, <2>3, MindedMinded
  <2>5. Alert(w, m) => Alert(a, m)
    BY <1>0, <1>2 DEF Alert, Minded, Same
  <2> QED BY <2>1, <2>3, <2>4, <2>5, <1>5
<1>6. CASE w[m].master = c /\ Teleports(c) /\ luck.room /\ InGame(w, m) /\ MayEnter(m, w[c].at)
  <2>1. r.world = w /\ r.calls = GoesAfter(m, w[c].at) \o calls
    BY <1>6 DEF LeaveFirst, Then, GoesAfter
  <2>2. w[c].at \notin Protected
    BY <1>6 DEF MayEnter
  <2> QED BY <2>1, <2>2, <1>1, <1>6
<1>7. CASE w[m].master = c /\ Teleports(c) /\ ~(luck.room /\ InGame(w, m) /\ MayEnter(m, w[c].at))
  <2>1. r.world = b /\ r.calls = calls
    BY <1>7 DEF LeaveFirst, Then, b
  <2>2. Alert(w, m) => Alert(b, m)
    BY <1>0, <1>3 DEF Alert, Minded, Same
  <2> QED BY <2>1, <2>2, <1>3, <1>7
<1> QED BY <1>4, <1>5, <1>6, <1>7

-----------------------------------------------------------------------------
(* The invariant, of a world and of the calls that are left to be made       *)

Acts == {"go", "remove", "removed"}
Notices == {"move", "moved", "seen", "left", "disappear", "appear", "look"}
Moves == {"move", "moved"}
Moving == Moves \cup {"go", "seen"}
AllCalls == [do : Acts \cup Notices, by : SUBSET Creature, of : Creature \cup {NULL},
             from : Spots \cup {NULL}, to : Spots \cup {NULL}]

\* Those it is about.
Subject(n) == IF n.do \in Acts THEN n.by ELSE {n.of}

\* Who is being removed.
Leaving(k, c) == \E i \in DOMAIN k : k[i].do \in {"remove", "removed"} /\ c \in k[i].by

\* A master is in the game until his summon is removed, and it has no summon.
Family(w, k) ==
  \A m \in Creature : w[m].master # NULL =>
    /\ m \in Monsters /\ InGame(w, m) /\ ~w[m].wild /\ w[m].master # m
    /\ w[m].master \in Creature /\ Here(w, w[m].master)
    /\ InGame(w, w[m].master) \/ Leaving(k, m)
    /\ \A n \in Creature : w[n].master # NULL => n = m

\* A call has to do with creatures that are there.
Addressed(w, n, x) ==
  /\ Here(w, x)
  /\ n.do \in Notices => n.of \in Creature
  /\ n.do \in Acts => n.by = {x}
  /\ n.do \in {"left", "seen", "look"} => x \in Monsters

\* Who is moving is not on his way out, and is where the last notice says.
OnTheMove(w, k, n) ==
  /\ n.do \in Moving => /\ n.to \in Spots
                        /\ \A d \in Subject(n) : InGame(w, d) /\ ~Leaving(k, d)
  /\ n.do \in Moves => n.from \in Spots /\ n.to = w[n.of].at

\* A move is the next call, of somebody else than those of whose moves the
\* others still are to be told, to where they are.
GoesTo(w, k, i, x) ==
  k[i].do = "go" =>
    /\ i = 1
    /\ \A j \in DOMAIN k : k[j].by # {} /\ k[j].do \in Moves =>
         k[j].of # x /\ w[k[j].of].at = k[i].to /\ k[i].to \notin Protected

\* A wild monster forgets at once, and only who is out of its sight or leaves.
Forgets(w, k, i, x) ==
  k[i].do = "left" /\ InGame(w, x) /\ w[x].wild =>
    /\ i = 1
    /\ ~Sees(w, x, w[k[i].of].at) \/ ~InGame(w, k[i].of) \/ Leaving(k, k[i].of)

\* One who disappears is removed later.
Withdraws(k, i) ==
  k[i].do = "disappear" =>
    \E j \in DOMAIN k : j > i /\ k[j].do = "removed" /\ k[i].of \in k[j].by

\* What is about a master comes last.
MasterLast(w, k, i) ==
  \A c \in Subject(k[i]) : Summons(w, c) # {} =>
    \A j \in DOMAIN k : j > i /\ k[j].by # {} => Subject(k[j]) = {c}

Frame(w, k, i, x) ==
  /\ Addressed(w, k[i], x) /\ OnTheMove(w, k, k[i])
  /\ GoesTo(w, k, i, x) /\ Forgets(w, k, i, x) /\ Withdraws(k, i) /\ MasterLast(w, k, i)
Frames(w, k) == \A i \in DOMAIN k : \A x \in k[i].by : Frame(w, k, i, x)

\* c aims at t: it is in its sight, or a notice to c of a move of one of them is
\* still to come; and so is one of the removal of t, if t is removed.
Settles(n, c, t) == n.do \in Moves /\ c \in n.by /\ n.of \in {c, t}
WasTold(k, i, c, t) == \E j \in DOMAIN k : j < i /\ k[j].do = "disappear" /\ k[j].of = t /\ c \in k[j].by
Pair(w, k, c, t) ==
  /\ ~Sees(w, c, w[t].at) => \E i \in DOMAIN k : Settles(k[i], c, t)
  /\ ~SameFloor(w[c].at, w[t].at) =>
       \E i \in DOMAIN k : Settles(k[i], c, t) /\ ~SameFloor(k[i].from, k[i].to)
  /\ ~InGame(w, t) => ~Sees(w, c, w[t].at)
  /\ \A i \in DOMAIN k : k[i].do = "removed" /\ t \in k[i].by =>
       ~Sees(w, c, w[t].at) \/ WasTold(k, i, c, t)
Spares(n, c, t) == n.do \in Moves /\ c \in n.by /\ n.of = t /\ OtherZone(n.from, n.to)
Zone(w, k, c, t) == w[t].at \in Protected => \E i \in DOMAIN k : Spares(k[i], c, t)
AimsOf(w, k, c) ==
  /\ \A t \in {w[c].target, w[c].follow} \ {NULL} : Pair(w, k, c, t)
  /\ w[c].target # NULL => Zone(w, k, c, w[c].target)
Aims(w, k) == \A c \in Creature : InGame(w, c) => AimsOf(w, k, c)

\* m has p in its list, or it is still to look around or to be told that p came
\* into its sight.
Tells(w, n, m, p) ==
  /\ m \in n.by
  /\ \/ n.do \in Moves \cup {"appear"} /\ n.of = m
     \/ n.do = "appear" /\ n.of = p
     \/ n.do \in Moves /\ n.of = p /\ ~Sees(w, m, n.from)
Known(w, k, m, p) == p \in w[m].targets \/ \E i \in DOMAIN k : Tells(w, k[i], m, p)

\* m is awake for its master, or it is still to look.
Wakes(w, n, m) ==
  /\ m \in n.by
  /\ \/ n.do \in Moves \cup {"appear"} /\ n.of \in {m, w[m].master}
     \/ n.do = "look" /\ w[m].near
Served(w, k, m) == (w[m].near /\ ~w[m].idle) \/ \E i \in DOMAIN k : Wakes(w, k[i], m)

Watches(w, k, m) ==
  ~Leaving(k, m) /\ w[m].wild =>
    /\ Rests(w, m)
    /\ \A p \in Players : InGame(w, p) /\ ~Leaving(k, p) /\ Sees(w, m, w[p].at) => Known(w, k, m, p)
Serves(w, k, m) ==
  /\ ~Leaving(k, m) /\ w[m].master \in Players /\ ~Leaving(k, w[m].master)
  /\ Sees(w, m, w[w[m].master].at)
  => Served(w, k, m)
AwakeOf(w, k, m) == Alert(w, m) /\ Watches(w, k, m) /\ Serves(w, k, m)
Awake(w, k) == \A m \in Monsters : InGame(w, m) => AwakeOf(w, k, m)

Sound(w, k) ==
  /\ Well(w) /\ k \in Seq(AllCalls)
  /\ Family(w, k) /\ Frames(w, k) /\ Aims(w, k) /\ Awake(w, k)

-----------------------------------------------------------------------------
(* What a call leaves to be done: n calls more, and x has been called.       *)

Carried(a, b, by) == a.do = b.do /\ a.of = b.of /\ a.from = b.from /\ a.to = b.to /\ a.by = by
Others(k, x, j) == IF j = 1 THEN k[1].by \ {x} ELSE k[j].by
Pushed(k, q, n, x) ==
  /\ n \in Nat /\ k \in Seq(AllCalls) /\ q \in Seq(AllCalls) /\ k # <<>> /\ Len(q) = n + Len(k)
  /\ \A j \in DOMAIN k : n + j \in DOMAIN q /\ Carried(q[n + j], k[j], Others(k, x, j))

Rest(k, x) == <<[Head(k) EXCEPT !.by = @ \ {x}]>> \o Tail(k)

\* What is left of the calls when one is made to x.
LEMMA RestIs ==
  ASSUME NEW k \in Seq(AllCalls), k # <<>>, NEW x
  PROVE  /\ Rest(k, x) \in Seq(AllCalls) /\ Len(Rest(k, x)) = Len(k)
         /\ \A j \in DOMAIN k : j \in DOMAIN Rest(k, x) /\ Carried(Rest(k, x)[j], k[j], Others(k, x, j))
<1> DEFINE h == [Head(k) EXCEPT !.by = @ \ {x}]
           r == Rest(k, x)
<1>1. Head(k) = k[1] /\ k[1] \in AllCalls /\ Tail(k) \in Seq(AllCalls) /\ Len(k) \in Nat /\ Len(k) > 0
      /\ Len(Tail(k)) = Len(k) - 1 /\ DOMAIN k = 1 .. Len(k)
  BY HeadTailProperties, LenProperties, EmptySeq, ElementOfSeq
<1>2. h \in AllCalls /\ Carried(h, k[1], k[1].by \ {x})
  BY <1>1 DEF AllCalls, Carried
<1>3. <<h>> \in Seq(AllCalls) /\ Len(<<h>>) = 1 /\ <<h>>[1] = h
  BY <1>2
<1>4. r = <<h>> \o Tail(k)
  BY DEF Rest
<1> HIDE DEF h, r
<1>5. r \in Seq(AllCalls) /\ Len(r) = Len(k)
  BY <1>1, <1>3, <1>4, ConcatProperties
<1>6. DOMAIN r = DOMAIN k
  BY <1>1, <1>5, LenProperties
<1>7. ASSUME NEW j \in DOMAIN k PROVE Carried(r[j], k[j], Others(k, x, j))
  <2>1. j \in 1 .. Len(k)
    BY <1>1
  <2>2. CASE j = 1
    <3>1. r[j] = h
      BY <2>2, <1>1, <1>3, <1>4, ConcatProperties
    <3> QED BY <3>1, <2>2, <1>2 DEF Others
  <2>3. CASE j # 1
    <3>1. r[j] = Tail(k)[j - 1]
      BY <2>1, <2>3, <1>1, <1>3, <1>4, ConcatProperties
    <3>2. Tail(k)[j - 1] = k[j]
      BY <2>1, <2>3, <1>1, HeadTailProperties
    <3> QED BY <3>1, <3>2, <2>3 DEF Others, Carried
  <2> QED BY <2>2, <2>3
<1> QED BY <1>5, <1>6, <1>7 DEF r

\* The calls that are put in front of it.
LEMMA PushedIs ==
  ASSUME NEW k \in Seq(AllCalls), k # <<>>, NEW x, NEW new \in Seq(AllCalls)
  PROVE  /\ Pushed(k, new \o Rest(k, x), Len(new), x)
         /\ \A i \in 1 .. Len(new) : (new \o Rest(k, x))[i] = new[i]
<1> DEFINE r == Rest(k, x)
           q == new \o r
<1>1. r \in Seq(AllCalls) /\ Len(r) = Len(k)
      /\ \A j \in DOMAIN k : j \in DOMAIN r /\ Carried(r[j], k[j], Others(k, x, j))
  BY RestIs
<1>2. Len(new) \in Nat /\ Len(k) \in Nat /\ DOMAIN k = 1 .. Len(k) /\ DOMAIN r = 1 .. Len(r)
  BY <1>1, LenProperties
<1> HIDE DEF r
<1>3. q \in Seq(AllCalls) /\ Len(q) = Len(new) + Len(k)
  <2>1. r \in Seq(AllCalls) /\ Len(r) = Len(k)
    BY <1>1
  <2>2. q \in Seq(AllCalls) /\ Len(q) = Len(new) + Len(r)
    BY <2>1, ConcatProperties
  <2> QED BY <2>1, <2>2
<1>4. \A i \in 1 .. Len(new) : q[i] = new[i]
  BY <1>1, <1>2, ConcatProperties
<1>5. DOMAIN q = 1 .. Len(q)
  BY <1>3, LenProperties
<1>6. ASSUME NEW j \in DOMAIN k PROVE Len(new) + j \in DOMAIN q /\ q[Len(new) + j] = r[j]
  <2>1. j \in 1 .. Len(k)
    BY <1>2
  <2>2. Len(new) + j \in 1 .. Len(new) + Len(r) /\ Len(new) + j > Len(new) /\ (Len(new) + j) - Len(new) = j
    BY <1>1, <1>2, <2>1
  <2>3. Len(new) + j \in DOMAIN q
    BY <2>2, <1>1, <1>3, <1>5
  <2>4. q[Len(new) + j] = r[(Len(new) + j) - Len(new)]
    BY <2>2, <1>1, ConcatProperties
  <2> QED BY <2>2, <2>3, <2>4
<1>7. Pushed(k, q, Len(new), x)
  BY <1>1, <1>2, <1>3, <1>6 DEF Pushed
<1> QED BY <1>4, <1>7 DEF r

\* Every call that is left is a new one or one of those before.
LEMMA PushedFrom ==
  ASSUME NEW k, NEW q, NEW n, NEW x, Pushed(k, q, n, x), NEW i \in DOMAIN q
  PROVE  \/ i \in 1 .. n
         \/ \E j \in DOMAIN k : i = n + j /\ j \in Nat /\ j > 0
<1>1. n \in Nat /\ Len(k) \in Nat /\ DOMAIN k = 1 .. Len(k) /\ DOMAIN q = 1 .. n + Len(k)
  BY LenProperties DEF Pushed
<1>2. CASE i > n
  <2>1. i - n \in DOMAIN k /\ i = n + (i - n) /\ i - n \in Nat /\ i - n > 0
    BY <1>1, <1>2
  <2> QED BY <2>1
<1> QED BY <1>1, <1>2

\* Where the calls are in the list,
LEMMA PushedDomain ==
  ASSUME NEW k, NEW q, NEW n, NEW x, Pushed(k, q, n, x)
  PROVE  /\ \A j \in DOMAIN k : j \in Nat /\ j > 0
         /\ 1 \in DOMAIN k /\ n \in Nat
         /\ \A i \in DOMAIN q : i \in Nat /\ i > 0
<1>1. n \in Nat /\ Len(k) \in Nat /\ DOMAIN k = 1 .. Len(k) /\ DOMAIN q = 1 .. n + Len(k)
  BY LenProperties DEF Pushed
<1>2. Len(k) > 0
  BY <1>1, EmptySeq DEF Pushed
<1> QED BY <1>1, <1>2

-----------------------------------------------------------------------------
(* A call that only changes whom they aim at and what x knows                *)

\* It is made to x, in w, and leaves v and the calls q.
Answered(w, k, v, q, n, x, t) ==
  /\ Sound(w, k) /\ Pushed(k, q, n, x) /\ x \in k[1].by /\ Step(w, v, x, t)

\* and where those that were left are now.
LEMMA PushedTo ==
  ASSUME NEW k, NEW q, NEW n, NEW x, Pushed(k, q, n, x), NEW j \in DOMAIN k
  PROVE  /\ n + j \in DOMAIN q
         /\ q[n + j].do = k[j].do /\ q[n + j].of = k[j].of
         /\ q[n + j].from = k[j].from /\ q[n + j].to = k[j].to
         /\ q[n + j].by \subseteq k[j].by
         /\ \A c \in k[j].by : j # 1 \/ c # x => c \in q[n + j].by
         /\ j # 1 => q[n + j].by = k[j].by
         /\ j = 1 => q[n + j].by = k[j].by \ {x}
<1>1. n + j \in DOMAIN q /\ Carried(q[n + j], k[j], Others(k, x, j))
  BY DEF Pushed
<1>2. Others(k, x, j) \subseteq k[j].by
      /\ (j # 1 => Others(k, x, j) = k[j].by) /\ (j = 1 => Others(k, x, j) = k[j].by \ {x})
  BY DEF Others
<1> QED BY <1>1, <1>2 DEF Carried

\* Who was on his way out still is.
LEMMA StillLeaving ==
  ASSUME NEW k, NEW q, NEW n, NEW x, Pushed(k, q, n, x), NEW c, Leaving(k, c),
         c # x \/ k[1].do \notin {"remove", "removed"}
  PROVE  Leaving(q, c)
<1>1. PICK j \in DOMAIN k : k[j].do \in {"remove", "removed"} /\ c \in k[j].by
  BY DEF Leaving
<1>2. n + j \in DOMAIN q /\ q[n + j].do = k[j].do /\ c \in q[n + j].by
  BY <1>1, PushedTo
<1> QED BY <1>1, <1>2 DEF Leaving

\* A summon and its master stay a pair.
LEMMA FamilyStays ==
  ASSUME NEW w, NEW k, NEW v, NEW q, NEW n, NEW x, NEW t, Answered(w, k, v, q, n, x, t),
         \A c : Leaving(k, c) => Leaving(q, c)
  PROVE  Family(v, q)
<1>1. Family(w, k) /\ Well(w)
  BY DEF Answered, Sound
<1>2. \A c \in Creature : /\ Here(w, c) => Here(v, c)
                          /\ InGame(v, c) = InGame(w, c) /\ v[c].master = w[c].master
                          /\ v[c].wild = w[c].wild
  BY <1>1, StepOn DEF Answered
<1>3. ASSUME NEW m \in Creature, v[m].master # NULL
      PROVE  /\ m \in Monsters /\ InGame(v, m) /\ ~v[m].wild /\ v[m].master # m
             /\ v[m].master \in Creature /\ Here(v, v[m].master)
             /\ InGame(v, v[m].master) \/ Leaving(q, m)
             /\ \A c \in Creature : v[c].master # NULL => c = m
  <2>1. w[m].master # NULL /\ v[m].master = w[m].master
    BY <1>2, <1>3
  <2>2. /\ m \in Monsters /\ InGame(w, m) /\ ~w[m].wild /\ w[m].master # m
        /\ w[m].master \in Creature /\ Here(w, w[m].master)
        /\ InGame(w, w[m].master) \/ Leaving(k, m)
        /\ \A c \in Creature : w[c].master # NULL => c = m
    BY <2>1, <1>1 DEF Family
  <2> QED BY <2>1, <2>2, <1>2
<1> QED BY <1>3 DEF Family

\* The calls that were left to be made are as good as before.
LEMMA FramesStay ==
  ASSUME NEW w, NEW k, NEW v, NEW q, NEW n, NEW x, NEW t, Answered(w, k, v, q, n, x, t),
         k[1].do \notin {"go", "removed"}, k[1].do = "left" => n = 0,
         \A c : Leaving(k, c) => Leaving(q, c),
         \A j \in DOMAIN k : k[j].by # {} /\ k[j].do \in Moving \ {"go"} => ~Leaving(q, k[j].of),
         NEW j \in DOMAIN k, NEW y \in q[n + j].by
  PROVE  Frame(v, q, n + j, y)
<1> DEFINE f == k[j]
           g == q[n + j]
<1>1. Sound(w, k) /\ Well(w) /\ Pushed(k, q, n, x) /\ k \in Seq(AllCalls)
  BY DEF Answered, Sound
<1>2. n + j \in DOMAIN q /\ g.do = f.do /\ g.of = f.of /\ g.from = f.from /\ g.to = f.to
      /\ g.by \subseteq f.by
  BY <1>1, PushedTo
<1>3. y \in f.by /\ y \in g.by /\ Frame(w, k, j, y)
  BY <1>1, <1>2 DEF Sound, Frames
<1>4. j \in Nat /\ j > 0 /\ n \in Nat /\ \A h \in DOMAIN k : h \in Nat /\ h > 0
  BY <1>1, PushedDomain
<1>5. y \in Creature /\ f \in AllCalls
  <2>1. Len(k) \in Nat /\ DOMAIN k = 1 .. Len(k)
    BY <1>1, LenProperties
  <2>2. f \in AllCalls
    BY <1>1, <2>1, ElementOfSeq
  <2> QED BY <2>2, <1>3 DEF AllCalls
<1>6. \A c \in Creature : /\ Here(w, c) => Here(v, c)
                          /\ InGame(v, c) = InGame(w, c) /\ v[c].at = w[c].at
                          /\ v[c].wild = w[c].wild
  BY <1>1, StepOn DEF Answered
<1>7. \A c \in Creature : \A p : Sees(v, c, p) = Sees(w, c, p)
  BY SameSees DEF Answered, Step
<1>8. \A c \in Creature : Summons(v, c) = Summons(w, c)
  BY <1>1, SameWell DEF Answered, Step
<1>9. f.do # "go"
  BY <1>3, <1>4 DEF Frame, GoesTo
<1>10. Addressed(w, f, y) /\ OnTheMove(w, k, f) /\ Forgets(w, k, j, y) /\ Withdraws(k, j)
       /\ MasterLast(w, k, j)
  BY <1>3 DEF Frame
<1>11. f.do \in Acts => Subject(g) = g.by /\ Subject(f) = f.by
  BY <1>2 DEF Subject
<1>12. f.do \notin Acts => Subject(g) = {f.of} /\ Subject(f) = {f.of}
  BY <1>2 DEF Subject
<1>13. Subject(g) \subseteq Subject(f)
  BY <1>2, <1>11, <1>12
<1>14. f.do \in Moving => f.do \notin Acts /\ f.do \in Notices
  BY <1>9 DEF Moving, Moves, Acts, Notices
<1> HIDE DEF f, g
<1>15. Addressed(v, g, y)
  BY <1>2, <1>3, <1>5, <1>6, <1>10 DEF Addressed
<1>16. OnTheMove(v, q, g)
  <2>1. CASE f.do \in Moving
    <3>1. f.of \in Creature /\ InGame(w, f.of) /\ f.to \in Spots
      BY <2>1, <1>10, <1>12, <1>14 DEF Addressed, OnTheMove
    <3>2. ~Leaving(q, f.of)
      BY <2>1, <1>3, <1>9 DEF f
    <3>3. Subject(g) = {f.of}
      BY <2>1, <1>12, <1>14
    <3>4. f.do \in Moves => f.from \in Spots /\ f.to = w[f.of].at
      BY <1>10 DEF OnTheMove
    <3> QED BY <3>1, <3>2, <3>3, <3>4, <1>2, <1>6 DEF OnTheMove
  <2>2. CASE f.do \notin Moving
    BY <2>2, <1>2 DEF OnTheMove, Moving
  <2> QED BY <2>1, <2>2
<1>17. GoesTo(v, q, n + j, y)
  BY <1>2, <1>9 DEF GoesTo, g
<1>18. Forgets(v, q, n + j, y)
  <2> SUFFICES ASSUME g.do = "left", InGame(v, y), v[y].wild
               PROVE  n + j = 1 /\ (~Sees(v, y, v[g.of].at) \/ ~InGame(v, g.of) \/ Leaving(q, g.of))
    BY DEF Forgets, g
  <2>1. f.do = "left" /\ InGame(w, y) /\ w[y].wild /\ f.of \in Creature
    BY <1>2, <1>5, <1>6, <1>10 DEF Addressed, Notices
  <2>2. j = 1 /\ (~Sees(w, y, w[f.of].at) \/ ~InGame(w, f.of) \/ Leaving(k, f.of))
    BY <2>1, <1>10 DEF Forgets, f
  <2>3. n = 0
    BY <2>1, <2>2 DEF f
  <2> QED BY <2>1, <2>2, <2>3, <1>2, <1>5, <1>6, <1>7
<1>19. Withdraws(q, n + j)
  <2> SUFFICES ASSUME g.do = "disappear"
               PROVE  \E i \in DOMAIN q : i > n + j /\ q[i].do = "removed" /\ g.of \in q[i].by
    BY DEF Withdraws, g
  <2>1. PICK h \in DOMAIN k : h > j /\ k[h].do = "removed" /\ f.of \in k[h].by
    BY <1>2, <1>10 DEF Withdraws, f
  <2>2. h # 1 /\ n + h > n + j
    BY <2>1, <1>4
  <2>3. n + h \in DOMAIN q /\ q[n + h].do = "removed" /\ f.of \in q[n + h].by
    BY <2>1, <2>2, <1>1, PushedTo
  <2> QED BY <2>2, <2>3, <1>2
<1>20. MasterLast(v, q, n + j)
  <2> SUFFICES ASSUME NEW c \in Subject(g), Summons(v, c) # {},
                      NEW i \in DOMAIN q, i > n + j, q[i].by # {}
               PROVE  Subject(q[i]) = {c}
    BY DEF MasterLast, g
  <2>1. c \in Subject(f) /\ c \in Creature
    <3>1. f.do \in Notices => f.of \in Creature
      BY <1>10 DEF Addressed
    <3>2. f.by \subseteq Creature /\ f.do \in Acts \cup Notices
      BY <1>5 DEF AllCalls
    <3> QED BY <3>1, <3>2, <1>11, <1>12, <1>13
  <2>2. PICK h \in DOMAIN k : i = n + h
    BY <1>1, <1>4, PushedFrom
  <2>3. h > j /\ h # 1
    BY <2>2, <1>4
  <2>4. q[i].do = k[h].do /\ q[i].of = k[h].of /\ q[i].by = k[h].by
    BY <2>2, <2>3, <1>1, PushedTo
  <2>5. Subject(q[i]) = Subject(k[h])
    BY <2>4 DEF Subject
  <2>6. Summons(w, c) # {}
    BY <2>1, <1>8
  <2> QED BY <2>1, <2>3, <2>4, <2>5, <2>6, <1>10 DEF MasterLast, f
<1> QED BY <1>15, <1>16, <1>17, <1>18, <1>19, <1>20 DEF Frame, g

\* New calls and those that are left are all the calls.
LEMMA AllFrames ==
  ASSUME NEW k, NEW q, NEW n, NEW x, Pushed(k, q, n, x), NEW v,
         \A i \in 1 .. n : \A y \in q[i].by : Frame(v, q, i, y),
         \A j \in DOMAIN k : \A y \in q[n + j].by : Frame(v, q, n + j, y)
  PROVE  Frames(v, q)
<1>1. ASSUME NEW i \in DOMAIN q, NEW y \in q[i].by PROVE Frame(v, q, i, y)
  <2>1. CASE i \in 1 .. n
    BY <2>1
  <2>2. CASE i \notin 1 .. n
    <3>1. PICK j \in DOMAIN k : i = n + j
      BY <2>2, PushedFrom
    <3> QED BY <3>1
  <2> QED BY <2>1, <2>2
<1> QED BY <1>1 DEF Frames

\* The notice that settles it is to come, or it is settled.
Repeats(a, b, c) == a.do \in Moves /\ c \in a.by /\ a.of = b.of /\ a.from = b.from /\ a.to = b.to
Settled(w, k, v, q, x, t) ==
  \/ \E i \in DOMAIN q : Repeats(q[i], k[1], x)
  \/ /\ \A u \in {v[x].target, v[x].follow} \ {NULL} : k[1].of \in {x, u} =>
          \/ SameFloor(k[1].from, k[1].to) /\ Sees(w, x, w[u].at)
          \/ u = t /\ CanAim(w, x, t)
     /\ v[x].target # NULL /\ k[1].of = v[x].target /\ OtherZone(k[1].from, k[1].to) =>
          w[v[x].target].at \notin Protected

\* Who aims at somebody out of its sight is still to be told, after a step
\* of x that settles what x was told.
LEMMA PairStays ==
  ASSUME NEW w, NEW k, NEW v, NEW q, NEW n, NEW x, NEW t, Answered(w, k, v, q, n, x, t),
         k[1].do \in Moves => Settled(w, k, v, q, x, t),
         k[1].do = "disappear" => k[1].of \notin {v[x].target, v[x].follow},
         \A i \in 1 .. n : q[i].do = "removed" => \A u \in q[i].by : \A c \in Creature :
           InGame(w, c) => ~Sees(w, c, w[u].at) \/ WasTold(q, i, c, u),
         NEW c \in Creature, InGame(w, c), NEW u \in Creature, Pair(w, k, c, u),
         u \in {v[c].target, v[c].follow}, ~(u = t /\ CanAim(w, c, t))
  PROVE  Pair(v, q, c, u)
<1>1. Sound(w, k) /\ Well(w) /\ Pushed(k, q, n, x)
  BY DEF Answered, Sound
<1>2. \A d \in Creature : InGame(v, d) = InGame(w, d) /\ v[d].at = w[d].at
  BY <1>1, StepOn DEF Answered
<1>3. \A p : Sees(v, c, p) = Sees(w, c, p)
  BY SameSees DEF Answered, Step
<1>4. u # NULL
  BY Apart
<1>5. \A j \in DOMAIN k : j \in Nat /\ j > 0
  BY <1>1, PushedDomain
<1>5a. n \in Nat /\ \A i \in DOMAIN q : i \in Nat /\ i > 0
  BY <1>1, PushedDomain
<1>6. ASSUME NEW j \in DOMAIN k, Settles(k[j], c, u)
      PROVE  \/ \E i \in DOMAIN q : Settles(q[i], c, u) /\ q[i].from = k[j].from /\ q[i].to = k[j].to
             \/ SameFloor(k[j].from, k[j].to) /\ Sees(w, c, w[u].at)
  <2>1. CASE j # 1 \/ c # x
    <3>1. n + j \in DOMAIN q /\ q[n + j].do = k[j].do /\ q[n + j].of = k[j].of
          /\ q[n + j].from = k[j].from /\ q[n + j].to = k[j].to
          /\ \A d \in k[j].by : j # 1 \/ d # x => d \in q[n + j].by
      BY <1>1, PushedTo
    <3>2. Settles(q[n + j], c, u)
      BY <3>1, <2>1, <1>6 DEF Settles
    <3> QED BY <3>1, <3>2
  <2>2. CASE j = 1 /\ c = x
    <3>1. k[1].do \in Moves /\ k[1].of \in {x, u} /\ Settled(w, k, v, q, x, t)
      BY <2>2, <1>6 DEF Settles
    <3>2. CASE \E i \in DOMAIN q : Repeats(q[i], k[1], x)
      <4>1. PICK i \in DOMAIN q : Repeats(q[i], k[1], x)
        BY <3>2
      <4>2. Settles(q[i], c, u) /\ q[i].from = k[j].from /\ q[i].to = k[j].to
        BY <4>1, <3>1, <2>2 DEF Settles, Repeats
      <4> QED BY <4>2
    <3>3. CASE ~\E i \in DOMAIN q : Repeats(q[i], k[1], x)
      BY <3>1, <3>3, <2>2, <1>4 DEF Settled
    <3> QED BY <3>2, <3>3
  <2> QED BY <2>1, <2>2
<1>7. ~Sees(v, c, v[u].at) => \E i \in DOMAIN q : Settles(q[i], c, u)
  <2> SUFFICES ASSUME ~Sees(v, c, v[u].at) PROVE \E i \in DOMAIN q : Settles(q[i], c, u)
    OBVIOUS
  <2>1. ~Sees(w, c, w[u].at)
    BY <1>2, <1>3
  <2>2. PICK j \in DOMAIN k : Settles(k[j], c, u)
    BY <2>1 DEF Pair
  <2> QED BY <2>1, <2>2, <1>6
<1>8. ~SameFloor(v[c].at, v[u].at) =>
        \E i \in DOMAIN q : Settles(q[i], c, u) /\ ~SameFloor(q[i].from, q[i].to)
  <2> SUFFICES ASSUME ~SameFloor(v[c].at, v[u].at)
               PROVE  \E i \in DOMAIN q : Settles(q[i], c, u) /\ ~SameFloor(q[i].from, q[i].to)
    OBVIOUS
  <2>1. ~SameFloor(w[c].at, w[u].at)
    BY <1>2
  <2>2. PICK j \in DOMAIN k : Settles(k[j], c, u) /\ ~SameFloor(k[j].from, k[j].to)
    BY <2>1 DEF Pair
  <2>3. PICK i \in DOMAIN q : Settles(q[i], c, u) /\ q[i].from = k[j].from /\ q[i].to = k[j].to
    BY <2>2, <1>6
  <2> QED BY <2>2, <2>3
<1>9. ~InGame(v, u) => ~Sees(v, c, v[u].at)
  BY <1>2, <1>3 DEF Pair
<1>10. ASSUME NEW i \in DOMAIN q, q[i].do = "removed", u \in q[i].by
       PROVE  ~Sees(v, c, v[u].at) \/ WasTold(q, i, c, u)
  <2>1. CASE i \in 1 .. n
    BY <2>1, <1>2, <1>3, <1>10
  <2>2. CASE i \notin 1 .. n
    <3>1. PICK j \in DOMAIN k : i = n + j
      BY <2>2, <1>1, PushedFrom
    <3>2. k[j].do = "removed" /\ u \in k[j].by
      BY <3>1, <1>1, <1>10, PushedTo
    <3>3. ~Sees(w, c, w[u].at) \/ WasTold(k, j, c, u)
      BY <3>2 DEF Pair
    <3>4. ASSUME WasTold(k, j, c, u) PROVE WasTold(q, i, c, u)
      <4>1. PICK h \in DOMAIN k : h < j /\ k[h].do = "disappear" /\ k[h].of = u /\ c \in k[h].by
        BY <3>4 DEF WasTold
      <4>2. h # 1 \/ c # x
        BY <4>1
      <4>3. n + h \in DOMAIN q /\ q[n + h].do = "disappear" /\ q[n + h].of = u /\ c \in q[n + h].by
        BY <4>1, <4>2, <1>1, PushedTo
      <4>4. n + h < i
        BY <4>1, <3>1, <1>5, <1>5a
      <4> QED BY <4>3, <4>4 DEF WasTold
    <3> QED BY <3>3, <3>4, <1>2, <1>3
  <2> QED BY <2>1, <2>2
<1> QED BY <1>7, <1>8, <1>9, <1>10 DEF Pair

\* The same for the protection zones.
LEMMA ZoneStays ==
  ASSUME NEW w, NEW k, NEW v, NEW q, NEW n, NEW x, NEW t, Answered(w, k, v, q, n, x, t),
         k[1].do \in Moves => Settled(w, k, v, q, x, t),
         NEW c \in Creature, NEW u \in Creature, Zone(w, k, c, u), u = v[c].target
  PROVE  Zone(v, q, c, u)
<1>1. Sound(w, k) /\ Well(w) /\ Pushed(k, q, n, x)
  BY DEF Answered, Sound
<1>2. v[u].at = w[u].at
  BY <1>1, StepOn DEF Answered
<1>3. SUFFICES ASSUME w[u].at \in Protected PROVE \E i \in DOMAIN q : Spares(q[i], c, u)
  BY <1>2 DEF Zone
<1>4. PICK j \in DOMAIN k : Spares(k[j], c, u)
  BY <1>3 DEF Zone
<1>5. CASE j # 1 \/ c # x
  <2>1. n + j \in DOMAIN q /\ q[n + j].do = k[j].do /\ q[n + j].of = k[j].of
        /\ q[n + j].from = k[j].from /\ q[n + j].to = k[j].to
        /\ \A d \in k[j].by : j # 1 \/ d # x => d \in q[n + j].by
    BY <1>1, PushedTo
  <2>2. Spares(q[n + j], c, u)
    BY <2>1, <1>4, <1>5 DEF Spares
  <2> QED BY <2>1, <2>2
<1>6. CASE j = 1 /\ c = x
  <2>1. k[1].do \in Moves /\ k[1].of = u /\ OtherZone(k[1].from, k[1].to) /\ Settled(w, k, v, q, x, t)
    BY <1>6, <1>4 DEF Spares
  <2>2. u # NULL
    BY Apart
  <2>3. PICK i \in DOMAIN q : Repeats(q[i], k[1], x)
    BY <2>1, <2>2, <1>3, <1>6 DEF Settled
  <2>4. Spares(q[i], c, u)
    BY <2>1, <2>3, <1>6 DEF Spares, Repeats
  <2> QED BY <2>4
<1> QED BY <1>5, <1>6

\* The same for all who aim at somebody, x included, who may turn to t.
LEMMA AimsStay ==
  ASSUME NEW w, NEW k, NEW v, NEW q, NEW n, NEW x, NEW t \in Creature \cup {NULL},
         Answered(w, k, v, q, n, x, t),
         k[1].do \in Moves => Settled(w, k, v, q, x, t),
         k[1].do = "disappear" => k[1].of \notin {v[x].target, v[x].follow},
         \A i \in 1 .. n : q[i].do = "removed" => \A u \in q[i].by : \A c \in Creature :
           InGame(w, c) => ~Sees(w, c, w[u].at) \/ WasTold(q, i, c, u),
         t # NULL => InGame(w, t) /\ w[t].at \notin Protected /\ ~Leaving(q, t)
  PROVE  Aims(v, q)
<1>1. Sound(w, k) /\ Well(w) /\ w \in Worlds /\ v \in Worlds /\ Aims(w, k)
  BY DEF Answered, Sound, Well, Step, Same
<1>2. \A d \in Creature : InGame(v, d) = InGame(w, d) /\ v[d].at = w[d].at
  BY <1>1, StepOn DEF Answered
<1>3. SUFFICES ASSUME NEW c \in Creature, InGame(w, c) PROVE AimsOf(v, q, c)
  BY <1>2 DEF Aims
<1>4. \A p : Sees(v, c, p) = Sees(w, c, p)
  BY SameSees DEF Answered, Step
<1>5. \A u \in {v[c].target, v[c].follow} \ {NULL} : u \in Creature
  BY <1>1 DEF Worlds, Objects
<1>6. AimsOf(w, k, c)
  BY <1>1, <1>3 DEF Aims
<1>7. Keeps(w, c, w[c].target, v[c].target, t) /\ Keeps(w, c, w[c].follow, v[c].follow, t)
  BY DEF Answered, Step, Aimed
<1>8. ASSUME t # NULL, CanAim(w, c, t) PROVE Pair(v, q, c, t) /\ Zone(v, q, c, t)
  <2>1. t \in Creature /\ InGame(v, t) /\ v[t].at = w[t].at /\ v[c].at = w[c].at
    BY <1>8, <1>2
  <2>2. Sees(v, c, v[t].at) /\ SameFloor(v[c].at, v[t].at)
    BY <2>1, <1>4, <1>8 DEF CanAim
  <2>3. \A i \in DOMAIN q : q[i].do = "removed" => t \notin q[i].by
    BY <1>8 DEF Leaving
  <2> QED BY <2>1, <2>2, <2>3, <1>8 DEF Pair, Zone
<1>9. ASSUME NEW u \in {v[c].target, v[c].follow} \ {NULL} PROVE Pair(v, q, c, u)
  <2>1. CASE ~(u = t /\ CanAim(w, c, t))
    <3>1. u \in {w[c].target, w[c].follow}
      BY <2>1, <1>7 DEF Keeps
    <3>2. Pair(w, k, c, u)
      BY <3>1, <1>6 DEF AimsOf
    <3> QED BY <3>2, <2>1, <1>3, <1>5, PairStays
  <2>2. CASE u = t /\ CanAim(w, c, t)
    BY <2>2, <1>8
  <2> QED BY <2>1, <2>2
<1>10. ASSUME v[c].target # NULL PROVE Zone(v, q, c, v[c].target)
  <2>1. CASE v[c].target = w[c].target
    <3>1. Zone(w, k, c, v[c].target)
      BY <2>1, <1>6, <1>10 DEF AimsOf
    <3> QED BY <3>1, <1>5, <1>10, ZoneStays
  <2>2. CASE v[c].target # w[c].target
    <3>1. v[c].target = t /\ CanAim(w, c, t)
      BY <2>2, <1>7, <1>10 DEF Keeps
    <3> QED BY <3>1, <1>8, <1>10
  <2> QED BY <2>1, <2>2
<1> QED BY <1>9, <1>10 DEF AimsOf

\* Who is not called now is still to be told of the same things.
LEMMA StillTells ==
  ASSUME NEW w, NEW k, NEW v, NEW q, NEW n, NEW x, NEW t, Answered(w, k, v, q, n, x, t),
         NEW j \in DOMAIN k, NEW m \in Creature, j # 1 \/ m # x
  PROVE  /\ \A p : Tells(w, k[j], m, p) => \E i \in DOMAIN q : Tells(v, q[i], m, p)
         /\ (w[m].near => v[m].near) /\ Wakes(w, k[j], m) => \E i \in DOMAIN q : Wakes(v, q[i], m)
<1>1. Well(w) /\ Pushed(k, q, n, x)
  BY DEF Answered, Sound
<1>2. v[m].master = w[m].master
  BY <1>1, StepOn DEF Answered
<1>3. \A p : Sees(v, m, p) = Sees(w, m, p)
  BY SameSees DEF Answered, Step
<1>4. n + j \in DOMAIN q /\ q[n + j].do = k[j].do /\ q[n + j].of = k[j].of
      /\ q[n + j].from = k[j].from /\ \A d \in k[j].by : j # 1 \/ d # x => d \in q[n + j].by
  BY <1>1, PushedTo
<1>5. ASSUME NEW p, Tells(w, k[j], m, p) PROVE Tells(v, q[n + j], m, p)
  BY <1>3, <1>4, <1>5 DEF Tells
<1>6. ASSUME w[m].near => v[m].near, Wakes(w, k[j], m) PROVE Wakes(v, q[n + j], m)
  BY <1>2, <1>4, <1>6 DEF Wakes
<1> QED BY <1>4, <1>5, <1>6

\* A wild monster goes on knowing whom it sees or is to be told,
LEMMA WatchesStays ==
  ASSUME NEW w, NEW k, NEW v, NEW q, NEW n, NEW x, NEW t, Answered(w, k, v, q, n, x, t),
         \A c : Leaving(k, c) => Leaving(q, c),
         NEW m \in Monsters, InGame(w, m), NEW out, Calm(w, v, m, out),
         \A p \in Players :
           /\ w[m].wild /\ InGame(w, p) /\ ~Leaving(q, p) /\ Sees(w, m, w[p].at)
           /\ p \in out \/ (m = x /\ Tells(w, k[1], m, p))
           => Known(v, q, m, p)
  PROVE  Watches(v, q, m)
<1>1. Sound(w, k) /\ Well(w) /\ Pushed(k, q, n, x) /\ m \in Creature /\ Players \subseteq Creature
  BY DEF Answered, Sound, Creature
<1>2. \A d \in Creature : InGame(v, d) = InGame(w, d) /\ v[d].at = w[d].at /\ v[d].wild = w[d].wild
  BY <1>1, StepOn DEF Answered
<1>3. \A p : Sees(v, m, p) = Sees(w, m, p)
  BY <1>1, SameSees DEF Answered, Step
<1>4. SUFFICES ASSUME ~Leaving(q, m), w[m].wild
               PROVE  /\ Rests(v, m)
                      /\ \A p \in Players : InGame(v, p) /\ ~Leaving(q, p) /\ Sees(v, m, v[p].at) =>
                           Known(v, q, m, p)
  BY <1>1, <1>2 DEF Watches
<1>5. w[m].master = NULL
  BY <1>1, <1>4 DEF Sound, Family
<1>6. AwakeOf(w, k, m)
  BY <1>1 DEF Sound, Awake
<1>7. Alert(w, m) /\ Rests(w, m)
      /\ \A p \in Players : InGame(w, p) /\ ~Leaving(k, p) /\ Sees(w, m, w[p].at) => Known(w, k, m, p)
  BY <1>4, <1>6 DEF AwakeOf, Watches
<1>8. Rests(v, m) /\ w[m].targets \ out \subseteq v[m].targets
  BY <1>5, <1>7 DEF Calm
<1>9. ASSUME NEW p \in Players, InGame(v, p), ~Leaving(q, p), Sees(v, m, v[p].at)
      PROVE  Known(v, q, m, p)
  <2>1. InGame(w, p) /\ ~Leaving(k, p) /\ Sees(w, m, w[p].at)
    BY <1>1, <1>2, <1>3, <1>9
  <2>2. CASE p \in w[m].targets
    BY <2>1, <2>2, <1>4, <1>8, <1>9 DEF Known
  <2>3. CASE p \notin w[m].targets
    <3>1. PICK j \in DOMAIN k : Tells(w, k[j], m, p)
      BY <2>1, <2>3, <1>7 DEF Known
    <3>2. CASE j = 1 /\ m = x
      BY <3>1, <3>2, <2>1, <1>4, <1>9
    <3>3. CASE j # 1 \/ m # x
      <4>1. \E i \in DOMAIN q : Tells(v, q[i], m, p)
        BY <3>1, <3>3, <1>1, StillTells
      <4> QED BY <4>1 DEF Known
    <3> QED BY <3>2, <3>3
  <2> QED BY <2>2, <2>3
<1> QED BY <1>8, <1>9

\* and a summon being awake for its player.
LEMMA ServesStays ==
  ASSUME NEW w, NEW k, NEW v, NEW q, NEW n, NEW x, NEW t, Answered(w, k, v, q, n, x, t),
         \A c : Leaving(k, c) => Leaving(q, c),
         NEW m \in Monsters, InGame(w, m),
         w[m].master \in Players /\ Sees(w, m, w[w[m].master].at) /\ ~Leaving(q, w[m].master) =>
           \/ Served(v, q, m)
           \/ Stays(w, v, m) /\ (m = x => ~Wakes(w, k[1], m))
  PROVE  Serves(v, q, m)
<1>1. Sound(w, k) /\ Well(w) /\ Pushed(k, q, n, x) /\ m \in Creature /\ Players \subseteq Creature
  BY DEF Answered, Sound, Creature
<1>2. \A d \in Creature : v[d].at = w[d].at /\ v[d].master = w[d].master
  BY <1>1, StepOn DEF Answered
<1>3. \A p : Sees(v, m, p) = Sees(w, m, p)
  BY <1>1, SameSees DEF Answered, Step
<1>4. SUFFICES ASSUME ~Leaving(q, m), w[m].master \in Players, ~Leaving(q, w[m].master),
                      Sees(w, m, w[w[m].master].at), Stays(w, v, m), m = x => ~Wakes(w, k[1], m)
               PROVE  Served(v, q, m)
  BY <1>1, <1>2, <1>3 DEF Serves
<1>5. AwakeOf(w, k, m)
  BY <1>1 DEF Sound, Awake
<1>6. Alert(w, m) /\ Served(w, k, m)
  BY <1>4, <1>5 DEF AwakeOf, Serves
<1>7. CASE w[m].near /\ ~w[m].idle
  BY <1>4, <1>6, <1>7 DEF Stays, Served
<1>8. CASE \E j \in DOMAIN k : Wakes(w, k[j], m)
  <2>1. PICK j \in DOMAIN k : Wakes(w, k[j], m)
    BY <1>8
  <2>2. j # 1 \/ m # x
    BY <2>1, <1>4
  <2>3. w[m].near => v[m].near
    BY <1>4 DEF Stays
  <2>4. \E i \in DOMAIN q : Wakes(v, q[i], m)
    BY <2>1, <2>2, <2>3, <1>1, StillTells
  <2> QED BY <2>4 DEF Served
<1> QED BY <1>6, <1>7, <1>8 DEF Served

\* The others know what they knew.
LEMMA AwakeStays ==
  ASSUME NEW w, NEW k, NEW v, NEW q, NEW n, NEW x, NEW t, Answered(w, k, v, q, n, x, t),
         \A c : Leaving(k, c) => Leaving(q, c),
         x \in Monsters /\ InGame(w, x) => AwakeOf(v, q, x)
  PROVE  Awake(v, q)
<1>1. Well(w) /\ Sound(w, k)
  BY DEF Answered, Sound
<1>2. \A d \in Creature : InGame(v, d) = InGame(w, d)
  BY <1>1, StepOn DEF Answered
<1>3. SUFFICES ASSUME NEW m \in Monsters, InGame(w, m), m # x PROVE AwakeOf(v, q, m)
  BY <1>2 DEF Awake, Creature
<1>4. m \in Creature
  BY DEF Creature
<1>5. v[m].targets = w[m].targets /\ v[m].idle = w[m].idle /\ v[m].near = w[m].near
      /\ v[m].alive = w[m].alive
  BY <1>3, <1>4 DEF Answered, Step, Same
<1>6. Calm(w, v, m, {}) /\ Stays(w, v, m)
  BY <1>5 DEF Calm, Stays, Alert, Rests
<1>7. AwakeOf(w, k, m)
  BY <1>1, <1>3 DEF Sound, Awake
<1>8. Alert(v, m)
  BY <1>5, <1>7 DEF AwakeOf, Alert
<1>9. Watches(v, q, m)
  BY <1>3, <1>6, WatchesStays
<1>10. Serves(v, q, m)
  BY <1>3, <1>6, ServesStays
<1> QED BY <1>8, <1>9, <1>10 DEF AwakeOf

-----------------------------------------------------------------------------
(* The calls, one by one                                                     *)

\* A call to x keeps what is sound, if what it tells x is settled and the
\* calls it makes are in order.
LEMMA AnsweredSound ==
  ASSUME NEW w, NEW k, NEW v, NEW q, NEW n, NEW x, NEW t \in Creature \cup {NULL},
         Answered(w, k, v, q, n, x, t),
         k[1].do \notin {"go", "removed"}, k[1].do = "left" => n = 0,
         \A c : Leaving(k, c) => Leaving(q, c),
         \A j \in DOMAIN k : k[j].by # {} /\ k[j].do \in Moving \ {"go"} => ~Leaving(q, k[j].of),
         \A i \in 1 .. n : \A y \in q[i].by : Frame(v, q, i, y),
         k[1].do \in Moves => Settled(w, k, v, q, x, t),
         k[1].do = "disappear" => k[1].of \notin {v[x].target, v[x].follow},
         \A i \in 1 .. n : q[i].do = "removed" => \A u \in q[i].by : \A c \in Creature :
           InGame(w, c) => ~Sees(w, c, w[u].at) \/ WasTold(q, i, c, u),
         t # NULL => InGame(w, t) /\ w[t].at \notin Protected /\ ~Leaving(q, t),
         x \in Monsters /\ InGame(w, x) => AwakeOf(v, q, x)
  PROVE  Sound(v, q)
<1>1. Well(w) /\ Pushed(k, q, n, x)
  BY DEF Answered, Sound
<1>2. Well(v)
  BY <1>1, StepOn DEF Answered
<1>3. q \in Seq(AllCalls)
  BY <1>1 DEF Pushed
<1>4. Family(v, q)
  BY FamilyStays
<1>5. \A j \in DOMAIN k : \A y \in q[n + j].by : Frame(v, q, n + j, y)
  BY FramesStay
<1>6. Frames(v, q)
  BY <1>1, <1>5, AllFrames
<1>7. Aims(v, q)
  BY AimsStay
<1>8. Awake(v, q)
  BY AwakeStays
<1> QED BY <1>2, <1>3, <1>4, <1>6, <1>7, <1>8 DEF Sound

\* What is known of the call that is made.
Called(w, k, x) == Sound(w, k) /\ k # <<>> /\ x \in k[1].by

\* What is known of the one who is called, and of the call.
LEMMA CalledIs ==
  ASSUME NEW w, NEW k, NEW x, Called(w, k, x)
  PROVE  /\ Well(w) /\ w \in Worlds /\ k \in Seq(AllCalls) /\ k[1] \in AllCalls /\ 1 \in DOMAIN k
         /\ x \in Creature /\ Here(w, x)
         /\ Frame(w, k, 1, x)
         /\ \A j \in DOMAIN k : j \in Nat /\ j > 0
         /\ k[1].do \in Notices => /\ k[1].of \in Creature /\ Subject(k[1]) = {k[1].of}
                                   /\ k[1].do \notin {"go", "remove", "removed"}
         /\ k[1].do \in Acts => k[1].by = {x} /\ Subject(k[1]) = {x}
<1>1. Well(w) /\ w \in Worlds /\ k \in Seq(AllCalls) /\ k # <<>> /\ Frames(w, k)
  BY DEF Called, Sound, Well
<1>2. Len(k) \in Nat /\ DOMAIN k = 1 .. Len(k) /\ Len(k) > 0
  BY <1>1, LenProperties, EmptySeq
<1>3. 1 \in DOMAIN k /\ k[1] \in AllCalls
  BY <1>1, <1>2, ElementOfSeq
<1>4. x \in Creature
  BY <1>3 DEF Called, AllCalls
<1>5. Frame(w, k, 1, x)
  BY <1>1, <1>3 DEF Frames, Called
<1>6. Here(w, x) /\ (k[1].do \in Notices => k[1].of \in Creature) /\ (k[1].do \in Acts => k[1].by = {x})
  BY <1>5 DEF Frame, Addressed
<1>7. k[1].do \in Notices => k[1].do \notin Acts /\ k[1].do \notin {"go", "remove", "removed"}
  BY DEF Notices, Acts
<1> QED BY <1>1, <1>2, <1>3, <1>4, <1>5, <1>6, <1>7 DEF Subject

\* The calls that an answer makes come first.
LEMMA CalledPushed ==
  ASSUME NEW w, NEW k, NEW x, Called(w, k, x), NEW new \in Seq(AllCalls), NEW v, NEW t, Step(w, v, x, t)
  PROVE  /\ Answered(w, k, v, new \o Rest(k, x), Len(new), x, t)
         /\ \A i \in 1 .. Len(new) : (new \o Rest(k, x))[i] = new[i]
         /\ Len(new) \in Nat
<1>1. k \in Seq(AllCalls) /\ k # <<>>
  BY DEF Called, Sound
<1>2. Len(new) \in Nat
  BY LenProperties
<1> QED BY <1>1, <1>2, PushedIs DEF Answered, Called

\* A notice upon which nobody is removed.
LEMMA QuietLeaving ==
  ASSUME NEW k, NEW q, NEW n, NEW x, Pushed(k, q, n, x), k[1].do \in Notices,
         \A i \in 1 .. n : q[i].do \notin {"remove", "removed"}, NEW c
  PROVE  Leaving(q, c) <=> Leaving(k, c)
<1>1. k[1].do \notin {"remove", "removed"}
  BY DEF Notices
<1>2. Leaving(k, c) => Leaving(q, c)
  BY <1>1, StillLeaving
<1>3. ASSUME Leaving(q, c) PROVE Leaving(k, c)
  <2>1. PICK i \in DOMAIN q : q[i].do \in {"remove", "removed"} /\ c \in q[i].by
    BY <1>3 DEF Leaving
  <2>2. PICK j \in DOMAIN k : i = n + j
    BY <2>1, PushedFrom
  <2>3. k[j].do \in {"remove", "removed"} /\ c \in k[j].by
    BY <2>1, <2>2, PushedTo
  <2> QED BY <2>3 DEF Leaving
<1> QED BY <1>2, <1>3

\* An answer by which nobody is removed.
LEMMA QuietSound ==
  ASSUME NEW w, NEW k, NEW v, NEW q, NEW n, NEW x, NEW t \in Creature \cup {NULL},
         Answered(w, k, v, q, n, x, t),
         k[1].do \in Notices, k[1].do = "left" => n = 0,
         \A i \in 1 .. n : q[i].do \notin {"remove", "removed"},
         (\A c : Leaving(q, c) <=> Leaving(k, c)) => \A i \in 1 .. n : \A y \in q[i].by : Frame(v, q, i, y),
         k[1].do \in Moves => Settled(w, k, v, q, x, t),
         k[1].do = "disappear" => k[1].of \notin {v[x].target, v[x].follow},
         t # NULL => InGame(w, t) /\ w[t].at \notin Protected /\ ~Leaving(k, t),
         x \in Monsters /\ InGame(w, x) /\ (\A c : Leaving(q, c) <=> Leaving(k, c)) => AwakeOf(v, q, x)
  PROVE  Sound(v, q)
<1>1. Sound(w, k) /\ Pushed(k, q, n, x)
  BY DEF Answered
<1>2. \A c : Leaving(q, c) <=> Leaving(k, c)
  BY <1>1, QuietLeaving
<1>3. k[1].do \notin {"go", "removed"}
  BY DEF Notices
<1>4. ASSUME NEW j \in DOMAIN k, k[j].by # {}, k[j].do \in Moving \ {"go"}
      PROVE  ~Leaving(q, k[j].of)
  <2>1. PICK y \in k[j].by : Frame(w, k, j, y)
    BY <1>1, <1>4 DEF Sound, Frames
  <2>2. k[j].do \notin Acts
    BY <1>4 DEF Moving, Moves, Acts
  <2>3. Subject(k[j]) = {k[j].of}
    BY <2>2 DEF Subject
  <2> QED BY <2>1, <2>3, <1>2, <1>4 DEF Frame, OnTheMove
<1> QED BY <1>2, <1>3, <1>4, AnsweredSound

\* An answer may make no call.
LEMMA NoMore == <<>> \in Seq(AllCalls) /\ Len(<<>>) = 0 /\ 1 .. 0 = {}
BY EmptySeq

\* What is left then.
LEMMA CalledAlone ==
  ASSUME NEW w, NEW k, NEW x, Called(w, k, x), NEW v, NEW t, Step(w, v, x, t)
  PROVE  Answered(w, k, v, <<>> \o Rest(k, x), 0, x, t)
BY NoMore, CalledPushed

\* The dead are awake, and a wild monster has no master.
LEMMA CalledAlert ==
  ASSUME NEW w, NEW k, Sound(w, k), NEW m \in Monsters, InGame(w, m)
  PROVE  Alert(w, m) /\ (w[m].wild => w[m].master = NULL)
<1>1. m \in Creature
  BY DEF Creature
<1> QED BY <1>1 DEF Sound, Awake, AwakeOf, Family

\* Who has looked around knows whom he sees.
LEMMA LooksWatches ==
  ASSUME NEW w, NEW k, Sound(w, k), NEW v, Same(w, v), NEW q, NEW m \in Monsters, InGame(w, m),
         Decided(v, m),
         w[m].master = NULL =>
           \A p \in Players : InGame(w, p) /\ Sees(w, m, w[p].at) => p \in v[m].targets
  PROVE  Alert(v, m) /\ Watches(v, q, m)
<1>1. m \in Creature /\ Players \subseteq Creature
  BY DEF Creature
<1>2. w[m].wild => w[m].master = NULL
  BY CalledAlert
<1>3. v[m].wild = w[m].wild /\ v[m].master = w[m].master
      /\ \A p \in Creature : v[p].at = w[p].at /\ InGame(v, p) = InGame(w, p)
  BY <1>1 DEF Same, InGame
<1>4. \A p : Sees(v, m, p) = Sees(w, m, p)
  BY <1>1, SameSees
<1> QED BY <1>1, <1>2, <1>3, <1>4 DEF Decided, Watches, Known

\* The end of onCreatureLeave,
LEMMA LeftSound ==
  ASSUME NEW w, NEW k, NEW x, Called(w, k, x), k[1].do = "left"
  PROVE  Sound(Leave(w, x, k[1].of), <<>> \o Rest(k, x))
<1> DEFINE d == k[1].of
           v == Leave(w, x, d)
           q == <<>> \o Rest(k, x)
<1>1. /\ Well(w) /\ x \in Creature /\ Here(w, x) /\ Frame(w, k, 1, x) /\ d \in Creature
      /\ k[1].do \in Notices /\ k[1].do \notin Moves
  BY CalledIs DEF Notices, Moves
<1>2. x \in Monsters
  BY <1>1 DEF Frame, Addressed
<1>3. Minded(w, v, x)
  BY <1>1, <1>2, LeaveHere
<1>4. Step(w, v, x, NULL)
  BY <1>3, MindedIsStep
<1> HIDE DEF v
<1>5. Answered(w, k, v, q, 0, x, NULL)
  BY <1>4, NoMore, CalledPushed
<1>6. ASSUME InGame(w, x), \A c : Leaving(q, c) <=> Leaving(k, c) PROVE AwakeOf(v, q, x)
  <2>1. Calm(w, v, x, {d}) /\ Stays(w, v, x)
    BY <1>1, <1>2, <1>6, LeaveMinds DEF v
  <2>2. Alert(v, x)
    BY <1>2, <1>6, <2>1, CalledAlert DEF Calm, Called
  <2>3. Watches(v, q, x)
    <3>1. ASSUME NEW p \in Players, w[x].wild, InGame(w, p), ~Leaving(q, p), Sees(w, x, w[p].at)
          PROVE  p # d /\ ~Tells(w, k[1], x, p)
      BY <1>1, <1>6, <3>1 DEF Frame, Forgets, Tells, Moves
    <3> QED BY <1>2, <1>5, <1>6, <2>1, <3>1, WatchesStays
  <2>4. ~Wakes(w, k[1], x)
    BY DEF Wakes, Moves
  <2>5. Serves(v, q, x)
    BY <1>2, <1>5, <1>6, <2>1, <2>4, ServesStays
  <2> QED BY <2>2, <2>3, <2>5 DEF AwakeOf
<1>7. Sound(v, q)
  BY <1>1, <1>5, <1>6, NoMore, QuietSound
<1> QED BY <1>7 DEF v

\* and of onCreatureMove.
LEMMA SeenSound ==
  ASSUME NEW w, NEW k, NEW x, Called(w, k, x), k[1].do = "seen"
  PROVE  Sound(Seen(w, x, k[1].of, FALSE), <<>> \o Rest(k, x))
<1> DEFINE d == k[1].of
           v == Seen(w, x, d, FALSE)
           q == <<>> \o Rest(k, x)
           t == IF IsTarget(w, x, d) THEN d ELSE NULL
<1>1. /\ Well(w) /\ x \in Creature /\ Here(w, x) /\ Frame(w, k, 1, x) /\ d \in Creature
      /\ k[1].do \in Notices /\ k[1].do \notin Moves /\ Subject(k[1]) = {d}
  BY CalledIs DEF Notices, Moves
<1>2. x \in Monsters
  BY <1>1 DEF Frame, Addressed
<1>3. Step(w, v, x, t) /\ (InGame(w, x) => Calm(w, v, x, {}) /\ Stays(w, v, x))
  BY <1>1, <1>2, SeenSteps
<1>4. t \in Creature \cup {NULL}
      /\ (t # NULL => InGame(w, t) /\ w[t].at \notin Protected /\ ~Leaving(k, t))
  <2>1. InGame(w, d) /\ ~Leaving(k, d)
    BY <1>1 DEF Frame, OnTheMove, Moving
  <2> QED BY <1>1, <2>1 DEF IsTarget
<1> HIDE DEF v, t
<1>5. Answered(w, k, v, q, 0, x, t)
  BY <1>3, NoMore, CalledPushed
<1>6. ASSUME InGame(w, x) PROVE AwakeOf(v, q, x)
  <2>1. \A c : Leaving(k, c) => Leaving(q, c)
    BY <1>1, <1>5, NoMore, QuietLeaving DEF Answered
  <2>2. Alert(v, x)
    BY <1>2, <1>3, <1>6, CalledAlert DEF Calm, Called
  <2>3. \A p : ~Tells(w, k[1], x, p)
    BY DEF Tells, Moves
  <2>4. Watches(v, q, x)
    BY <1>2, <1>3, <1>5, <1>6, <2>1, <2>3, WatchesStays
  <2>5. ~Wakes(w, k[1], x)
    BY DEF Wakes, Moves
  <2>6. Serves(v, q, x)
    BY <1>2, <1>3, <1>5, <1>6, <2>1, <2>5, ServesStays
  <2> QED BY <2>2, <2>4, <2>6 DEF AwakeOf
<1>7. Sound(v, q)
  BY <1>1, <1>4, <1>5, <1>6, NoMore, QuietSound
<1> QED BY <1>7 DEF v

\* A monster looks at the one that was convinced.
LEMMA LookSound ==
  ASSUME NEW w, NEW k, NEW x, Called(w, k, x), k[1].do = "look"
  PROVE  Sound(UpdateIdle(UpdateTargets(w, x), x), <<>> \o Rest(k, x))
<1> DEFINE v == UpdateIdle(UpdateTargets(w, x), x)
           q == <<>> \o Rest(k, x)
<1>1. /\ Well(w) /\ x \in Creature /\ Here(w, x) /\ Frame(w, k, 1, x)
      /\ k[1].do \in Notices /\ k[1].do \notin Moves
  BY CalledIs DEF Notices, Moves
<1>2. x \in Monsters
  BY <1>1 DEF Frame, Addressed
<1>3. Minded(w, v, x)
  BY <1>1, <1>2, LooksHere
<1>4. Step(w, v, x, NULL)
  BY <1>3, MindedIsStep
<1>5. ASSUME InGame(w, x)
      PROVE  /\ v[x].near = w[x].near /\ Decided(v, x)
             /\ w[x].master = NULL =>
                  \A p \in Players : InGame(w, p) /\ Sees(w, x, w[p].at) => p \in v[x].targets
  <2>1. Alert(w, x)
    BY <1>2, <1>5, CalledAlert DEF Called
  <2> QED BY <1>1, <1>2, <1>5, <2>1, LooksMinds
<1> HIDE DEF v
<1>6. Answered(w, k, v, q, 0, x, NULL)
  BY <1>4, NoMore, CalledPushed
<1>7. ASSUME InGame(w, x) PROVE AwakeOf(v, q, x)
  <2>1. \A c : Leaving(k, c) => Leaving(q, c)
    BY <1>1, <1>6, NoMore, QuietLeaving DEF Answered
  <2>2. Alert(v, x) /\ Watches(v, q, x)
    BY <1>2, <1>3, <1>5, <1>7, LooksWatches DEF Called, Minded
  <2>3. v[x].master = w[x].master
    BY <1>1, <1>3 DEF Minded, Same
  <2>4. CASE w[x].near
    <3>1. w[x].master \in Players => Served(v, q, x)
      BY <1>5, <1>7, <2>3, <2>4 DEF Served, Decided
    <3>2. Serves(v, q, x)
      BY <1>2, <1>6, <1>7, <2>1, <3>1, ServesStays
    <3> QED BY <2>2, <3>2 DEF AwakeOf
  <2>5. CASE ~w[x].near
    <3>1. Stays(w, v, x) /\ ~Wakes(w, k[1], x)
      BY <2>5 DEF Stays, Wakes, Moves
    <3>2. Serves(v, q, x)
      BY <1>2, <1>6, <1>7, <2>1, <3>1, ServesStays
    <3> QED BY <2>2, <3>2 DEF AwakeOf
  <2> QED BY <2>4, <2>5
<1>8. Sound(v, q)
  BY <1>1, <1>6, <1>7, NoMore, QuietSound
<1> QED BY <1>8 DEF v

\* onCreatureAppear, of oneself and of others.
LEMMA AppearSound ==
  ASSUME NEW w, NEW k, NEW x, Called(w, k, x), k[1].do = "appear"
  PROVE  Sound(Appears(w, x, k[1]), <<>> \o Rest(k, x))
<1> DEFINE d == k[1].of
           v == Appears(w, x, k[1])
           q == <<>> \o Rest(k, x)
<1>1. /\ Well(w) /\ w \in Worlds /\ x \in Creature /\ Here(w, x) /\ d \in Creature
      /\ k[1].do \in Notices /\ k[1].do \notin Moves
  BY CalledIs DEF Notices, Moves
<1>2. x \in Monsters <=> x \notin Players
  BY <1>1, TargetsAssumption DEF Creature
<1>3. /\ x \in Players => v = w
      /\ x \in Monsters /\ x # d => v = Enter(w, x, d)
      /\ x \in Monsters /\ x = d => v = LookAround(w, x)
  BY <1>2 DEF Appears
<1>4. Minded(w, v, x)
  <2>1. Minded(w, w, x)
    BY <1>1, MindedSame
  <2>2. x \in Monsters => Minded(w, Enter(w, x, d), x) /\ Minded(w, LookAround(w, x), x)
    BY <1>1, EnterHere, LooksHere
  <2> QED BY <1>2, <1>3, <2>1, <2>2
<1> HIDE DEF v
<1>5. Step(w, v, x, NULL)
  BY <1>4, MindedIsStep
<1>6. Answered(w, k, v, q, 0, x, NULL)
  BY <1>5, NoMore, CalledPushed
<1>7. ASSUME x \in Monsters, InGame(w, x) PROVE AwakeOf(v, q, x)
  <2>1. \A c : Leaving(k, c) => Leaving(q, c)
    BY <1>1, <1>6, NoMore, QuietLeaving DEF Answered
  <2>2. Alert(w, x)
    BY <1>7, CalledAlert DEF Called
  <2>3. v[x].master = w[x].master /\ (w[x].wild => w[x].master = NULL)
    BY <1>1, <1>4, <1>7, CalledAlert DEF Minded, Same, Called
  <2>4. CASE x = d
    <3>1. /\ Decided(v, x)
          /\ w[x].master # NULL /\ Sees(w, x, w[w[x].master].at) => v[x].near
          /\ w[x].master = NULL =>
               \A p \in Players : InGame(w, p) /\ Sees(w, x, w[p].at) => p \in v[x].targets
      BY <1>1, <1>3, <1>7, <2>2, <2>4, LookAroundMinds
    <3>2. Alert(v, x) /\ Watches(v, q, x)
      BY <1>4, <1>7, <3>1, LooksWatches DEF Called, Minded
    <3>3. w[x].master \in Players /\ Sees(w, x, w[w[x].master].at) => Served(v, q, x)
      <4>1. w[x].master \in Players => w[x].master # NULL
        BY Apart DEF Creature
      <4> QED BY <2>3, <3>1, <4>1 DEF Served, Decided
    <3>4. Serves(v, q, x)
      BY <1>6, <1>7, <2>1, <3>3, ServesStays
    <3> QED BY <3>2, <3>4 DEF AwakeOf
  <2>5. CASE x # d
    <3>1. /\ Calm(w, v, x, {}) /\ Stays(w, v, x) /\ Decided(v, x)
          /\ w[x].master = NULL /\ d \in Players => d \in v[x].targets
          /\ w[x].master = d => v[x].near
      <4>1. v = Enter(w, x, d)
        BY <1>3, <1>7, <2>5
      <4>2. /\ Calm(w, v, x, {}) /\ Stays(w, v, x) /\ (Alert(w, x) => Decided(v, x))
            /\ w[x].master = NULL /\ d \in Players => d \in v[x].targets
            /\ IF w[x].master = d THEN v[x].near = TRUE ELSE v[x].near = w[x].near
        BY <1>1, <1>7, <4>1, EnterMinds
      <4> QED BY <2>2, <4>2
    <3>2. Alert(v, x)
      BY <3>1 DEF Decided
    <3>3. Watches(v, q, x)
      <4>1. ASSUME NEW p \in Players, w[x].wild, Tells(w, k[1], x, p) PROVE Known(v, q, x, p)
        <5>1. p = d
          BY <4>1, <2>5, <1>1 DEF Tells
        <5> QED BY <5>1, <4>1, <2>3, <3>1 DEF Known
      <4> QED BY <1>6, <1>7, <2>1, <3>1, <4>1, WatchesStays
    <3>4. Serves(v, q, x)
      <4>1. CASE w[x].master = d
        <5>1. w[x].master \in Players => Served(v, q, x)
          BY <2>3, <3>1, <4>1 DEF Served, Decided
        <5> QED BY <1>6, <1>7, <2>1, <5>1, ServesStays
      <4>2. CASE w[x].master # d
        <5>1. ~Wakes(w, k[1], x)
          BY <2>5, <4>2 DEF Wakes
        <5> QED BY <1>6, <1>7, <2>1, <3>1, <5>1, ServesStays
      <4> QED BY <4>1, <4>2
    <3> QED BY <3>2, <3>3, <3>4 DEF AwakeOf
  <2> QED BY <2>4, <2>5
<1>8. Sound(v, q)
  BY <1>1, <1>6, <1>7, NoMore, QuietSound
<1> QED BY <1>8 DEF v

-----------------------------------------------------------------------------
(* One who leaves the sight of a monster                                     *)

\* What the monster x does next: it goes after its master, it forgets the one
\* who left, it looks at him.
Follows(w, k, q, i, x) ==
  /\ q[i].by = {x}
  /\ \/ /\ q[i].do = "left" /\ q[i].of = k[1].of
        /\ InGame(w, x) /\ w[x].wild =>
             i = 1 /\ (~Sees(w, x, w[k[1].of].at) \/ Leaving(k, k[1].of))
     \/ /\ q[i].do = "seen" /\ k[1].do = "moved"
        /\ q[i].of = k[1].of /\ q[i].to = k[1].to
     \/ /\ q[i].do = "go" /\ i = 1 /\ q[i].to = w[k[1].of].at
        /\ w[x].master = k[1].of /\ InGame(w, x) /\ w[k[1].of].at \notin Protected

\* The calls that a monster makes upon a notice are in order.
LEMMA FollowsFrames ==
  ASSUME NEW w, NEW k, NEW v, NEW q, NEW n, NEW x, NEW t, Answered(w, k, v, q, n, x, t),
         k # <<>>, k[1].do \in {"moved", "disappear"}, x \in Monsters, k[1].of # x,
         \A c : Leaving(q, c) <=> Leaving(k, c),
         \A i \in 1 .. n : i \in DOMAIN q /\ Follows(w, k, q, i, x)
  PROVE  \A i \in 1 .. n : \A y \in q[i].by : Frame(v, q, i, y)
<1> DEFINE d == k[1].of
<1>1. Sound(w, k) /\ Family(w, k) /\ Pushed(k, q, n, x) /\ Called(w, k, x)
  BY DEF Answered, Sound, Called
<1>2. /\ Well(w) /\ w \in Worlds /\ x \in Creature /\ Here(w, x) /\ Frame(w, k, 1, x) /\ d \in Creature
      /\ Subject(k[1]) = {d} /\ 1 \in DOMAIN k /\ \A j \in DOMAIN k : j \in Nat /\ j > 0
      /\ k[1].do \notin {"go", "remove", "removed"}
  BY <1>1, CalledIs DEF Notices
<1>3. \A c \in Creature : /\ InGame(v, c) = InGame(w, c) /\ v[c].at = w[c].at /\ v[c].wild = w[c].wild
                          /\ Summons(v, c) = Summons(w, c) /\ (Here(w, c) => Here(v, c))
  <2>1. Step(w, v, x, t) /\ Same(w, v)
    BY DEF Answered, Step
  <2>2. \A c \in Creature : /\ InGame(v, c) = InGame(w, c) /\ v[c].at = w[c].at
                            /\ v[c].wild = w[c].wild /\ (Here(w, c) => Here(v, c))
    BY <1>2, <2>1, StepOn
  <2>3. \A c \in Creature : Summons(v, c) = Summons(w, c)
    BY <1>2, <2>1, SameWell
  <2> QED BY <2>2, <2>3
<1>4. \A p : Sees(v, x, p) = Sees(w, x, p)
  BY <1>2, SameSees DEF Answered, Step
<1>5. n \in Nat
  BY <1>1, PushedDomain
<1>6. ASSUME Summons(w, d) # {}, NEW j \in DOMAIN k, k[j].by # {} PROVE Subject(k[j]) = {d}
  <2>1. CASE j = 1
    BY <2>1, <1>2
  <2>2. CASE j # 1
    <3>1. j > 1
      BY <2>2, <1>2
    <3> QED BY <3>1, <1>2, <1>6 DEF Frame, MasterLast
  <2> QED BY <2>1, <2>2
<1>7. ASSUME Summons(w, d) # {}, NEW i \in DOMAIN q, i \notin 1 .. n, q[i].by # {}
      PROVE  Subject(q[i]) = {d} /\ \E j \in DOMAIN k : k[j].by # {} /\ q[i].do = k[j].do /\ q[i].of = k[j].of
  <2>1. PICK j \in DOMAIN k : i = n + j
    BY <1>1, <1>7, PushedFrom
  <2>2. q[i].do = k[j].do /\ q[i].of = k[j].of /\ q[i].by \subseteq k[j].by
    BY <2>1, <1>1, PushedTo
  <2>3. Subject(k[j]) = {d} /\ k[j].by # {}
    BY <2>2, <1>6, <1>7
  <2>4. Subject(q[i]) = {d}
    BY <2>2, <2>3, <1>7 DEF Subject
  <2> QED BY <2>2, <2>3, <2>4
<1>8. SUFFICES ASSUME NEW i \in 1 .. n PROVE Frame(v, q, i, x)
  BY DEF Follows
<1>9. Follows(w, k, q, i, x) /\ q[i].by = {x} /\ i \in DOMAIN q /\ i \in Nat
  BY <1>5 DEF Follows
<1>10. ASSUME NEW j \in 1 .. n, j > i PROVE Subject(q[j]) = {d}
  <2>1. j # 1 /\ q[j].do \in {"left", "seen"} /\ q[j].of = d
    BY <1>5, <1>10 DEF Follows
  <2> QED BY <2>1 DEF Subject, Acts
<1>11. CASE q[i].do \in {"left", "seen"}
  <2>1. q[i].of = d /\ Subject(q[i]) = {d} /\ q[i].do \notin Acts /\ q[i].do \notin Moves
    BY <1>9, <1>11 DEF Follows, Subject, Acts, Moves
  <2>2. Addressed(v, q[i], x)
    BY <1>2, <1>3, <2>1 DEF Addressed
  <2>3. OnTheMove(v, q, q[i])
    <3>1. CASE q[i].do = "left"
      BY <3>1 DEF OnTheMove, Moving, Moves
    <3>2. CASE q[i].do = "seen"
      <4>1. q[i].to = k[1].to /\ k[1].do = "moved"
        BY <3>2, <1>9 DEF Follows
      <4>2. k[1].to \in Spots /\ InGame(w, d) /\ ~Leaving(k, d)
        BY <4>1, <1>2 DEF Frame, OnTheMove, Moving, Moves
      <4> QED BY <4>1, <4>2, <2>1, <1>2, <1>3 DEF OnTheMove
    <3> QED BY <3>1, <3>2, <1>11
  <2>4. GoesTo(v, q, i, x) /\ Withdraws(q, i)
    BY <1>11 DEF GoesTo, Withdraws
  <2>5. Forgets(v, q, i, x)
    BY <1>2, <1>3, <1>4, <1>9, <2>1 DEF Forgets, Follows
  <2>6. MasterLast(v, q, i)
    <3>1. ASSUME Summons(w, d) # {}, NEW j \in DOMAIN q, j > i, q[j].by # {} PROVE Subject(q[j]) = {d}
      BY <3>1, <1>7, <1>10
    <3> QED BY <3>1, <2>1, <1>2, <1>3 DEF MasterLast
  <2> QED BY <2>2, <2>3, <2>4, <2>5, <2>6 DEF Frame
<1>12. CASE q[i].do = "go"
  <2>1. /\ i = 1 /\ q[i].to = w[d].at
        /\ w[x].master = d /\ InGame(w, x) /\ w[d].at \notin Protected
    BY <1>9, <1>12 DEF Follows
  <2>2. w[x].master # NULL /\ Here(w, d)
    BY <2>1, <1>1, <1>2, Apart DEF Family
  <2>3. w[d].at \in Spots
    BY <2>2, <1>2 DEF Well, Here
  <2>4. x \in Summons(w, d)
    BY <2>1 DEF Summons
  <2>5. Subject(q[i]) = {x}
    BY <1>9, <1>12 DEF Subject, Acts
  <2>6. ~Leaving(k, x)
    <3>1. SUFFICES ASSUME NEW j \in DOMAIN k, k[j].do \in {"remove", "removed"}, x \in k[j].by PROVE FALSE
      BY DEF Leaving
    <3>2. Subject(k[j]) = {d} /\ Subject(k[j]) = k[j].by
      BY <3>1, <2>4, <1>6 DEF Subject, Acts
    <3> QED BY <3>1, <3>2
  <2>7. Addressed(v, q[i], x)
    BY <1>2, <1>3, <1>9, <1>12 DEF Addressed, Notices
  <2>8. OnTheMove(v, q, q[i])
    BY <2>1, <2>3, <2>5, <2>6, <1>2, <1>3, <1>12 DEF OnTheMove, Moves
  <2>9. GoesTo(v, q, i, x)
    <3>1. ASSUME NEW j \in DOMAIN q, q[j].by # {}, q[j].do \in Moves
          PROVE  q[j].of # x /\ v[q[j].of].at = q[i].to /\ q[i].to \notin Protected
      <4>1. j \notin 1 .. n
        <5>1. ASSUME j \in 1 .. n PROVE q[j].do \in {"left", "seen", "go"}
          BY <5>1 DEF Follows
        <5> QED BY <5>1, <3>1 DEF Moves
      <4>2. Subject(q[j]) = {d}
        BY <4>1, <3>1, <2>4, <1>7
      <4>3. q[j].of = d
        BY <4>2, <3>1 DEF Subject, Acts, Moves
      <4> QED BY <4>3, <2>1, <1>2, <1>3
    <3> QED BY <3>1, <2>1 DEF GoesTo
  <2>10. Forgets(v, q, i, x) /\ Withdraws(q, i)
    BY <1>12 DEF Forgets, Withdraws
  <2>11. MasterLast(v, q, i)
    <3>1. Summons(w, x) = {}
      <4>1. SUFFICES ASSUME NEW m \in Monsters, w[m].master = x PROVE FALSE
        BY DEF Summons
      <4>2. m \in Creature /\ w[m].master # NULL
        BY <4>1, <1>2, Apart DEF Creature
      <4>3. m = x
        BY <4>2, <2>2, <1>1, <1>2 DEF Family
      <4> QED BY <4>1, <4>3, <2>1
    <3> QED BY <3>1, <2>5, <1>2, <1>3 DEF MasterLast
  <2> QED BY <2>7, <2>8, <2>9, <2>10, <2>11 DEF Frame
<1> QED BY <1>9, <1>11, <1>12 DEF Follows

\* Lists of calls, as the handlers make them.
LEMMA FewCalls ==
  ASSUME NEW a \in AllCalls, NEW b \in AllCalls, NEW c \in AllCalls
  PROVE  /\ <<a>> \in Seq(AllCalls) /\ Len(<<a>>) = 1 /\ <<a>>[1] = a
         /\ <<a, b>> \in Seq(AllCalls) /\ Len(<<a, b>>) = 2 /\ <<a, b>>[1] = a /\ <<a, b>>[2] = b
         /\ <<a>> \o <<b>> = <<a, b>>
         /\ <<a>> \o <<b, c>> = <<a, b, c>>
         /\ <<a, b, c>> \in Seq(AllCalls) /\ Len(<<a, b, c>>) = 3
         /\ <<a, b, c>>[1] = a /\ <<a, b, c>>[2] = b /\ <<a, b, c>>[3] = c
<1>0. /\ <<a>> \in Seq(AllCalls) /\ <<b>> \in Seq(AllCalls) /\ <<a, b>> \in Seq(AllCalls)
      /\ <<b, c>> \in Seq(AllCalls) /\ <<a, b, c>> \in Seq(AllCalls)
      /\ Len(<<a>>) = 1 /\ Len(<<b>>) = 1 /\ Len(<<a, b>>) = 2 /\ Len(<<b, c>>) = 2
      /\ Len(<<a, b, c>>) = 3
  OBVIOUS
<1>1. <<a>> \o <<b>> = <<a, b>>
  <2> DEFINE s == <<a>> \o <<b>>
  <2>1. s \in Seq(AllCalls) /\ Len(s) = 2
    BY <1>0, ConcatProperties
  <2>2. s[1] = <<a>>[1]
    BY <1>0, ConcatProperties
  <2>3. s[2] = <<b>>[1]
    BY <1>0, ConcatProperties
  <2> HIDE DEF s
  <2>4. \A i \in 1 .. Len(s) : s[i] = <<a, b>>[i]
    BY <2>1, <2>2, <2>3
  <2>5. s = <<a, b>>
    BY <1>0, <2>1, <2>4, SeqEqual
  <2> QED BY <2>5 DEF s
<1>2. <<a>> \o <<b, c>> = <<a, b, c>>
  <2> DEFINE s == <<a>> \o <<b, c>>
  <2>1. s \in Seq(AllCalls) /\ Len(s) = 3
    BY <1>0, ConcatProperties
  <2>2. s[1] = <<a>>[1]
    BY <1>0, ConcatProperties
  <2>3. s[2] = <<b, c>>[1]
    BY <1>0, ConcatProperties
  <2>4. s[3] = <<b, c>>[2]
    BY <1>0, ConcatProperties
  <2> HIDE DEF s
  <2>5. \A i \in 1 .. Len(s) : s[i] = <<a, b, c>>[i]
    BY <2>1, <2>2, <2>3, <2>4
  <2>6. s = <<a, b, c>>
    BY <1>0, <2>1, <2>5, SeqEqual
  <2> QED BY <2>6 DEF s
<1> QED BY <1>0, <1>1, <1>2

\* A call that x does by itself,
LEMMA ActIs ==
  ASSUME NEW a \in Acts, NEW by \in SUBSET Creature, NEW to \in Spots \cup {NULL}
  PROVE  /\ Act(a, by, to) \in AllCalls
         /\ Act(a, by, to).do = a /\ Act(a, by, to).by = by /\ Act(a, by, to).to = to
BY DEF Act, Call, AllCalls

\* and one that goes on with a notice.
LEMMA ContinuedIs ==
  ASSUME NEW n \in AllCalls, NEW x \in Creature, NEW a \in Notices
  PROVE  LET m == Continued(n, x, a) IN
         /\ m \in AllCalls /\ m.do = a /\ m.by = {x} /\ m.of = n.of /\ m.from = n.from /\ m.to = n.to
BY DEF Continued, AllCalls

\* A monster is told that d moved out of its sight or is removed.
LEMMA LeavesSight ==
  ASSUME NEW w, NEW k, NEW x, Called(w, k, x), k[1].do \in {"moved", "disappear"}, x \in Monsters,
         NEW d, d = k[1].of, d # x,
         InGame(w, x) => ~Sees(w, x, w[d].at) \/ Leaving(k, d),
         NEW u, Turned(w, u, NULL),
         k[1].do = "moved" => \A q : Settled(w, k, u, q, x, NULL),
         k[1].do = "disappear" => d \notin {u[x].target, u[x].follow},
         NEW more,
         \/ more = <<Continued(k[1], x, "left")>>
         \/ k[1].do = "moved" /\ more = <<Continued(k[1], x, "left"), Continued(k[1], x, "seen")>>,
         NEW luck
  PROVE  LET r == LeaveFirst(u, x, d, luck, more)
         IN  Sound(r.world, r.calls \o Rest(k, x))
<1> DEFINE r == LeaveFirst(u, x, d, luck, more)
           v == r.world
           new == r.calls
           n == Len(new)
           q == new \o Rest(k, x)
           L == Continued(k[1], x, "left")
           S == Continued(k[1], x, "seen")
           G == Act("go", {x}, u[d].at)
<1>1. /\ Well(w) /\ w \in Worlds /\ x \in Creature /\ Here(w, x) /\ k[1] \in AllCalls
      /\ d \in Creature /\ k[1].do \in Notices /\ k # <<>> /\ Sound(w, k) /\ Family(w, k)
  BY CalledIs DEF Notices, Called, Sound
<1>2. Well(u) /\ Here(u, x) /\ Same(w, u)
  BY <1>1, TurnOn DEF Turned
<1>2a. GoesAfter(x, u[d].at) = <<G>>
  BY DEF GoesAfter
<1>3. /\ Minded(u, v, x) /\ (Alert(u, x) => Alert(v, x))
      /\ u[x].master # d => v = u
      /\ \/ new = more
         \/ /\ new = GoesAfter(x, u[d].at) \o more
            /\ u[x].master = d /\ InGame(u, x) /\ u[d].at \notin Protected
  <2>1. d \in Creature /\ Well(u) /\ Here(u, x)
    BY <1>1, <1>2
  <2>2. Minded(u, v, x)
    BY <2>1, LeaveFirstIs
  <2>3. Alert(u, x) => Alert(v, x)
    BY <2>1, LeaveFirstIs
  <2>4. u[x].master # d => v = u
    BY <2>1, LeaveFirstIs
  <2>5. \/ new = more
        \/ /\ new = GoesAfter(x, u[d].at) \o more
           /\ u[x].master = d /\ InGame(u, x) /\ u[d].at \notin Protected
    BY <2>1, LeaveFirstIs
  <2> QED BY <2>2, <2>3, <2>4, <2>5
<1>4. /\ L \in AllCalls /\ L.do = "left" /\ L.by = {x} /\ L.of = d
      /\ S \in AllCalls /\ S.do = "seen" /\ S.by = {x} /\ S.of = d /\ S.to = k[1].to
  <2>1. "left" \in Notices /\ "seen" \in Notices
    BY DEF Notices
  <2>2. x \in Creature /\ k[1] \in AllCalls
    BY <1>1
  <2>3. L \in AllCalls /\ L.do = "left" /\ L.by = {x} /\ L.of = d
    BY <2>1, <2>2, ContinuedIs
  <2>4. S \in AllCalls /\ S.do = "seen" /\ S.by = {x} /\ S.of = d /\ S.to = k[1].to
    BY <2>1, <2>2, ContinuedIs
  <2> QED BY <2>3, <2>4
<1>5. u[d].at = w[d].at /\ u[x].master = w[x].master /\ InGame(u, x) = InGame(w, x)
  BY <1>1, <1>2 DEF Same, InGame
<1>6. G \in AllCalls /\ G.do = "go" /\ G.by = {x} /\ G.to = w[d].at
  <2>1. w[d].at \in Spots \cup {NULL}
    BY <1>1 DEF Worlds, Objects
  <2>2. "go" \in Acts /\ {x} \in SUBSET Creature
    BY <1>1 DEF Acts
  <2> QED BY <2>1, <2>2, <1>5, ActIs
<1>7. Step(w, v, x, NULL)
  <2>1. Step(w, u, x, NULL) /\ Step(u, v, x, NULL)
    BY <1>3, TurnedIsStep, MindedIsStep
  <2> QED BY <2>1, StepStep
<1>8. v[x].target = u[x].target /\ v[x].follow = u[x].follow
  BY <1>1, <1>3 DEF Minded
<1> HIDE DEF L, S, G
<1>9. \/ new = <<L>>
      \/ new = <<L, S>> /\ k[1].do = "moved"
      \/ new = <<G, L>>
      \/ new = <<G, L, S>> /\ k[1].do = "moved"
  <2>1. more = <<L>> \/ (k[1].do = "moved" /\ more = <<L, S>>)
    BY DEF L, S
  <2>2. <<G>> \o <<L>> = <<G, L>> /\ <<G>> \o <<L, S>> = <<G, L, S>>
    BY <1>4, <1>6, FewCalls
  <2>3. new = more \/ new = <<G>> \o more
    BY <1>2a, <1>3
  <2> HIDE DEF new
  <2> QED BY <2>1, <2>2, <2>3
<1>10. G = new[1] => w[x].master = d /\ InGame(w, x) /\ w[d].at \notin Protected
  <2>1. CASE new = more
    <3>1. new[1] = L
      BY <2>1, <1>4, FewCalls DEF L, S
    <3> QED BY <3>1, <1>4, <1>6
  <2>2. CASE new # more
    BY <2>2, <1>3, <1>5
  <2> QED BY <2>1, <2>2
<1> HIDE DEF new, v
<1>11. new \in Seq(AllCalls)
  <2>1. /\ <<L>> \in Seq(AllCalls) /\ <<L, S>> \in Seq(AllCalls)
        /\ <<G, L>> \in Seq(AllCalls) /\ <<G, L, S>> \in Seq(AllCalls)
    BY <1>4, <1>6, FewCalls
  <2> QED BY <2>1, <1>9
<1>12. Answered(w, k, v, q, n, x, NULL) /\ n \in Nat /\ (\A i \in 1 .. n : q[i] = new[i]) /\ Pushed(k, q, n, x)
  BY <1>7, <1>11, CalledPushed DEF Answered
<1>13. \A i \in 1 .. n : i \in DOMAIN q
  <2>1. DOMAIN q = 1 .. n + Len(k) /\ Len(k) \in Nat
    BY <1>12, LenProperties DEF Pushed
  <2> QED BY <2>1, <1>12
<1>14. \A i \in 1 .. n : \/ q[i] = L /\ (i = 1 \/ (w[x].master = d /\ InGame(w, x)))
                         \/ q[i] = S /\ k[1].do = "moved"
                         \/ q[i] = G /\ i = 1 /\ new[1] = G
  <2>1. CASE new = <<L>>
    BY <2>1, <1>4, <1>6, <1>12, FewCalls
  <2>2. CASE new = <<L, S>> /\ k[1].do = "moved"
    BY <2>2, <1>4, <1>6, <1>12, FewCalls
  <2>3. CASE new = <<G, L>>
    BY <2>3, <1>4, <1>6, <1>10, <1>12, FewCalls
  <2>4. CASE new = <<G, L, S>> /\ k[1].do = "moved"
    <3>1. n = 3 /\ new[1] = G /\ new[2] = L /\ new[3] = S
      BY <2>4, <1>4, <1>6, FewCalls
    <3>2. q[1] = G /\ q[2] = L /\ q[3] = S /\ 1 .. n = {1, 2, 3}
      BY <3>1, <1>12
    <3> QED BY <3>1, <3>2, <2>4, <1>10
  <2> QED BY <2>1, <2>2, <2>3, <2>4, <1>9
<1>15. \A i \in 1 .. n : Follows(w, k, q, i, x)
  <2> SUFFICES ASSUME NEW i \in 1 .. n PROVE Follows(w, k, q, i, x)
    OBVIOUS
  <2>1. CASE q[i] = L /\ (i = 1 \/ (w[x].master = d /\ InGame(w, x)))
    <3>1. w[x].wild => w[x].master = NULL
      BY <1>1 DEF Family
    <3>2. d # NULL
      BY <1>1, Apart
    <3> QED BY <3>1, <3>2, <2>1, <1>4 DEF Follows
  <2>2. CASE q[i] = S /\ k[1].do = "moved"
    BY <2>2, <1>4 DEF Follows
  <2>3. CASE q[i] = G /\ i = 1 /\ new[1] = G
    BY <2>3, <1>6, <1>10 DEF Follows
  <2> QED BY <2>1, <2>2, <2>3, <1>14
<1>16. \A i \in 1 .. n : q[i].do \notin {"remove", "removed"}
  BY <1>15 DEF Follows
<1>17. (\A c : Leaving(q, c) <=> Leaving(k, c)) => \A i \in 1 .. n : \A y \in q[i].by : Frame(v, q, i, y)
  BY <1>1, <1>12, <1>13, <1>15, FollowsFrames
<1>18. k[1].do \in Moves => Settled(w, k, v, q, x, NULL)
  <2>1. k[1].do \in Moves => k[1].do = "moved"
    BY DEF Moves
  <2> QED BY <2>1, <1>8 DEF Settled
<1>19. ASSUME InGame(w, x), \A c : Leaving(q, c) <=> Leaving(k, c) PROVE AwakeOf(v, q, x)
  <2>1. Alert(w, x)
    BY <1>1, <1>19, CalledAlert
  <2>2. Calm(w, u, x, {}) /\ Stays(w, u, x) /\ Alert(u, x)
    BY <2>1, <1>1, TurnedIsCalm
  <2>3. Alert(v, x)
    BY <2>2, <1>3
  <2>4. d # NULL
    BY <1>1, Apart
  <2>5. Calm(w, v, x, {})
    BY <2>2, <2>3, <2>4, <1>3, <1>5 DEF Calm
  <2>6. Watches(v, q, x)
    <3>1. ASSUME NEW p \in Players, ~Leaving(q, p), Sees(w, x, w[p].at), Tells(w, k[1], x, p) PROVE FALSE
      <4>1. p = d
        BY <3>1 DEF Tells
      <4> QED BY <4>1, <3>1, <1>19
    <3> QED BY <2>5, <3>1, <1>12, <1>19, WatchesStays
  <2>7. Serves(v, q, x)
    <3>1. CASE w[x].master = d
      BY <3>1, <1>12, <1>19, ServesStays
    <3>2. CASE w[x].master # d
      <4>1. v = u
        BY <3>2, <1>3, <1>5
      <4>2. ~Wakes(w, k[1], x)
        BY <3>2 DEF Wakes
      <4> QED BY <4>1, <4>2, <2>2, <1>12, <1>19, ServesStays
    <3> QED BY <3>1, <3>2
  <2> QED BY <2>3, <2>6, <2>7 DEF AwakeOf
<1>20. Sound(v, q)
  <2>1. k[1].do # "left"
    OBVIOUS
  <2>2. k[1].do = "disappear" => k[1].of \notin {v[x].target, v[x].follow}
    BY <1>8
  <2> QED BY <2>1, <2>2, <1>1, <1>12, <1>16, <1>17, <1>18, <1>19, QuietSound
<1> QED BY <1>20 DEF v, new

\* What is known when x is told that d moved, and has seen to its aims.
Turning(w, k, x, u) ==
  /\ Called(w, k, x) /\ k[1].do = "moved"
  /\ u = Moved(w, x, k[1].of, k[1].from, k[1].to)

\* What Creature::onCreatureMove has done when the handler of a monster goes
\* on.
LEMMA TurningIs ==
  ASSUME NEW w, NEW k, NEW x, NEW u, Turning(w, k, x, u)
  PROVE  /\ Well(w) /\ w \in Worlds /\ x \in Creature /\ Here(w, x) /\ k[1] \in AllCalls
         /\ k[1].of \in Creature /\ k[1].to \in Spots /\ k[1].to = w[k[1].of].at
         /\ InGame(w, k[1].of) /\ ~Leaving(k, k[1].of)
         /\ Turned(w, u, NULL) /\ Well(u) /\ u \in Worlds /\ Here(u, x) /\ Same(w, u)
         /\ \A q : \A v : v[x].target = u[x].target /\ v[x].follow = u[x].follow =>
              Settled(w, k, v, q, x, NULL)
         /\ \A a \in {u[x].target, u[x].follow} \ {NULL} : k[1].of \in {x, a} =>
              SameFloor(k[1].from, k[1].to) /\ Sees(w, x, w[a].at)
         /\ u[x].target # NULL /\ k[1].of = u[x].target /\ OtherZone(k[1].from, k[1].to) =>
              w[u[x].target].at \notin Protected
<1> DEFINE d == k[1].of
<1>1. /\ Called(w, k, x) /\ k[1].do = "moved" /\ u = Moved(w, x, d, k[1].from, k[1].to)
      /\ k[1].do \in Notices /\ k[1].do \in Moving /\ k[1].do \in Moves
  BY DEF Turning, Notices, Moving, Moves
<1>2. /\ Well(w) /\ w \in Worlds /\ x \in Creature /\ Here(w, x) /\ k[1] \in AllCalls /\ d \in Creature
      /\ Frame(w, k, 1, x) /\ Subject(k[1]) = {d}
  BY <1>1, CalledIs
<1>3. k[1].to \in Spots /\ k[1].to = w[d].at /\ InGame(w, d) /\ ~Leaving(k, d)
  BY <1>1, <1>2 DEF Frame, OnTheMove
<1>4. /\ Turned(w, u, NULL)
      /\ \A a \in {u[x].target, u[x].follow} \ {NULL} : d \in {x, a} =>
           SameFloor(k[1].from, k[1].to) /\ Sees(w, x, w[a].at)
      /\ u[x].target # NULL /\ d = u[x].target /\ OtherZone(k[1].from, k[1].to) =>
           w[u[x].target].at \notin Protected
  BY <1>1, <1>2, MovedTurns
<1>5. Well(u) /\ Here(u, x) /\ Same(w, u) /\ u \in Worlds
  BY <1>2, <1>4, TurnOn DEF Turned, Well
<1>6. \A q : \A v : v[x].target = u[x].target /\ v[x].follow = u[x].follow =>
        Settled(w, k, v, q, x, NULL)
  BY <1>4 DEF Settled
<1> QED BY <1>2, <1>3, <1>4, <1>5, <1>6

\* A player does nothing more,
LEMMA MovedPlayer ==
  ASSUME NEW w, NEW k, NEW x, NEW u, Turning(w, k, x, u), x \in Players
  PROVE  Sound(u, <<>> \o Rest(k, x))
<1>1. Called(w, k, x) /\ k[1].do \in Notices /\ k[1].do \notin {"left", "disappear"}
  BY DEF Turning, Notices
<1>2. Turned(w, u, NULL) /\ \A q : Settled(w, k, u, q, x, NULL)
  BY TurningIs
<1>3. x \notin Monsters
  BY TargetsAssumption
<1>4. Step(w, u, x, NULL)
  BY <1>2, TurnedIsStep
<1>5. Answered(w, k, u, <<>> \o Rest(k, x), 0, x, NULL)
  BY <1>1, <1>4, NoMore, CalledPushed
<1> QED BY <1>1, <1>2, <1>3, <1>5, NoMore, QuietSound

\* a monster that moved looks around,
LEMMA MovedItself ==
  ASSUME NEW w, NEW k, NEW x, NEW u, Turning(w, k, x, u), x \in Monsters, k[1].of = x
  PROVE  Sound(LookAround(u, x), <<>> \o Rest(k, x))
<1> DEFINE v == LookAround(u, x)
           q == <<>> \o Rest(k, x)
<1>1. Called(w, k, x) /\ k[1].do \in Notices /\ k[1].do \notin {"left", "disappear"}
      /\ Sound(w, k)
  BY DEF Turning, Notices, Called
<1>2. /\ Well(w) /\ x \in Creature /\ InGame(w, x) /\ Turned(w, u, NULL) /\ Well(u) /\ Same(w, u)
      /\ \A a : a[x].target = u[x].target /\ a[x].follow = u[x].follow => Settled(w, k, a, q, x, NULL)
  BY TurningIs
<1>3. InGame(u, x) /\ u[x].master = w[x].master
  BY <1>2 DEF Same, InGame
<1>4. Alert(w, x) /\ Alert(u, x)
  BY <1>1, <1>2, CalledAlert, TurnedIsCalm
<1>5. /\ Minded(u, v, x) /\ Decided(v, x)
      /\ u[x].master # NULL /\ Sees(u, x, u[u[x].master].at) => v[x].near
      /\ u[x].master = NULL =>
           \A p \in Players : InGame(u, p) /\ Sees(u, x, u[p].at) => p \in v[x].targets
  BY <1>2, <1>3, <1>4, LookAroundMinds
<1> HIDE DEF v
<1>6. Step(w, v, x, NULL) /\ Same(w, v)
  <2>1. Step(w, u, x, NULL) /\ Step(u, v, x, NULL)
    BY <1>2, <1>5, TurnedIsStep, MindedIsStep
  <2>2. Step(w, v, x, NULL)
    BY <2>1, StepStep
  <2> QED BY <2>2 DEF Step
<1>7. Answered(w, k, v, q, 0, x, NULL)
  <2>1. Called(w, k, x) /\ Step(w, v, x, NULL)
    BY <1>1, <1>6
  <2> QED BY <2>1, CalledAlone, Zenon
<1>8. Settled(w, k, v, q, x, NULL)
  BY <1>2, <1>5 DEF Minded
<1>9. \A c \in Creature : \A r : Sees(u, c, r) = Sees(w, c, r)
  BY <1>2, SameSees
<1>10. \A c \in Creature : u[c].at = w[c].at /\ InGame(u, c) = InGame(w, c)
  BY <1>2 DEF Same, InGame
<1>11. AwakeOf(v, q, x)
  <2>1. \A c : Leaving(k, c) => Leaving(q, c)
    BY <1>1, <1>7, NoMore, QuietLeaving DEF Answered
  <2>2. w[x].master = NULL =>
          \A p \in Players : InGame(w, p) /\ Sees(w, x, w[p].at) => p \in v[x].targets
    BY <1>2, <1>3, <1>5, <1>9, <1>10 DEF Creature
  <2>3. Alert(v, x) /\ Watches(v, q, x)
    BY <1>1, <1>2, <1>5, <1>6, <2>2, LooksWatches
  <2>4. w[x].master \in Players /\ Sees(w, x, w[w[x].master].at) => Served(v, q, x)
    <3>1. ASSUME w[x].master \in Players PROVE w[x].master # NULL /\ w[x].master \in Creature
      BY <3>1, Apart DEF Creature
    <3>2. v[x].master = w[x].master
      BY <1>2, <1>6 DEF Same
    <3> QED BY <3>1, <3>2, <1>2, <1>3, <1>5, <1>9, <1>10 DEF Served, Decided
  <2>5. Serves(v, q, x)
    BY <1>2, <1>7, <2>1, <2>4, ServesStays
  <2> QED BY <2>3, <2>5 DEF AwakeOf
<1>12. Sound(v, q)
  BY <1>1, <1>7, <1>8, <1>11, NoMore, QuietSound
<1> QED BY <1>12 DEF v

\* and one that still sees the other decides about him.
LEMMA MovedInSight ==
  ASSUME NEW w, NEW k, NEW x, NEW u, Turning(w, k, x, u), x \in Monsters, NEW d, d = k[1].of, d # x,
         NEW seesNew, seesNew = Sees(u, x, k[1].to), NEW seesOld, seesOld = Sees(u, x, k[1].from),
         seesNew \/ ~seesOld
  PROVE  Sound(Seen(IF seesNew /\ ~seesOld THEN Enter(u, x, d) ELSE u, x, d, seesNew),
               <<>> \o Rest(k, x))
<1> DEFINE y == IF seesNew /\ ~seesOld THEN Enter(u, x, d) ELSE u
           v == Seen(y, x, d, seesNew)
           q == <<>> \o Rest(k, x)
           t == IF IsTarget(y, x, d) THEN d ELSE NULL
<1>1. Called(w, k, x) /\ k[1].do \in Notices /\ k[1].do \notin {"left", "disappear"}
      /\ Sound(w, k)
  BY DEF Turning, Notices, Called
<1>2. /\ Well(w) /\ w \in Worlds /\ x \in Creature /\ d \in Creature /\ k[1].to = w[d].at
      /\ InGame(w, d) /\ ~Leaving(k, d)
      /\ Turned(w, u, NULL) /\ Well(u) /\ u \in Worlds /\ Here(u, x) /\ Same(w, u)
      /\ \A a \in {u[x].target, u[x].follow} \ {NULL} : d \in {x, a} =>
           SameFloor(k[1].from, k[1].to) /\ Sees(w, x, w[a].at)
      /\ u[x].target # NULL /\ d = u[x].target /\ OtherZone(k[1].from, k[1].to) =>
           w[u[x].target].at \notin Protected
  BY TurningIs
<1>3. seesNew \in BOOLEAN /\ seesNew = Sees(w, x, w[d].at) /\ seesOld = Sees(w, x, k[1].from)
  <2>1. seesNew \in BOOLEAN
    BY DEF Sees
  <2> QED BY <1>2, <2>1, SameSees
<1>4. Minded(u, y, x)
  <2>1. Minded(u, u, x) /\ Minded(u, Enter(u, x, d), x)
    BY <1>2, MindedSame, EnterHere
  <2> QED BY <2>1
<1>5. Well(y) /\ Here(y, x)
  BY <1>2, <1>4, MindOn
<1> HIDE DEF y
<1>6. Step(y, v, x, t)
  BY <1>2, <1>3, <1>5, SeenSteps
<1> HIDE DEF v
<1>7. Same(w, y)
  BY <1>2, <1>4, SameSame DEF Minded
<1>8. t \in Creature \cup {NULL}
      /\ (t # NULL => t = d /\ InGame(w, t) /\ w[t].at \notin Protected /\ ~Leaving(k, t))
  BY <1>2, <1>7 DEF IsTarget, Same
<1> HIDE DEF t
<1>9. Step(w, v, x, t)
  <2>1. Step(w, u, x, t) /\ Step(u, y, x, t)
    BY <1>2, <1>4, TurnedAway, TurnedIsStep, MindedIsStep
  <2>2. Step(w, y, x, t)
    BY <1>8, <2>1, StepStep
  <2> QED BY <1>6, <1>8, <2>2, StepStep
<1>10. Answered(w, k, v, q, 0, x, t)
  BY <1>1, <1>9, NoMore, CalledPushed
<1>11. Settled(w, k, v, q, x, t)
  <2>1. y[x].target = u[x].target /\ y[x].follow = u[x].follow
    BY <1>2, <1>4 DEF Minded
  <2>2. Keeps(y, x, u[x].target, v[x].target, t) /\ Keeps(y, x, u[x].follow, v[x].follow, t)
    BY <1>2, <1>6, <2>1 DEF Step, Aimed
  <2>3. t # NULL => CanAim(y, x, t) = CanAim(w, x, t)
    BY <1>2, <1>7, <1>8, SameSees
  <2>4. \A a \in {v[x].target, v[x].follow} \ {NULL} : k[1].of \in {x, a} =>
          \/ SameFloor(k[1].from, k[1].to) /\ Sees(w, x, w[a].at)
          \/ a = t /\ CanAim(w, x, t)
    BY <1>2, <2>2, <2>3 DEF Keeps
  <2>5. v[x].target # NULL /\ k[1].of = v[x].target /\ OtherZone(k[1].from, k[1].to) =>
          w[v[x].target].at \notin Protected
    BY <1>2, <1>8, <2>2 DEF Keeps
  <2> QED BY <2>4, <2>5 DEF Settled
<1>12. ASSUME InGame(w, x) PROVE AwakeOf(v, q, x)
  <2>1. \A c : Leaving(k, c) => Leaving(q, c)
    BY <1>1, <1>10, NoMore, QuietLeaving DEF Answered
  <2>2. InGame(u, x) /\ InGame(y, x) /\ u[x].master = w[x].master /\ y[x].master = w[x].master
        /\ v[x].master = w[x].master
    BY <1>2, <1>7, <1>9, <1>12 DEF Same, InGame, Step
  <2>3. Alert(w, x) /\ Alert(u, x) /\ Calm(w, u, x, {}) /\ Stays(w, u, x)
        /\ (w[x].wild => w[x].master = NULL)
    BY <1>1, <1>2, <1>12, CalledAlert, TurnedIsCalm
  <2>4. /\ Calm(u, y, x, {}) /\ Stays(u, y, x) /\ Alert(y, x)
        /\ seesNew /\ ~seesOld /\ u[x].master = NULL /\ d \in Players => d \in y[x].targets
    <3>1. CASE seesNew /\ ~seesOld
      <4>1. y = Enter(u, x, d)
        BY <3>1 DEF y
      <4>2. /\ Calm(u, y, x, {}) /\ Stays(u, y, x) /\ (Alert(u, x) => Decided(y, x))
            /\ u[x].master = NULL /\ d \in Players => d \in y[x].targets
        BY <1>2, <2>2, <4>1, EnterMinds
      <4> QED BY <2>3, <4>2 DEF Decided
    <3>2. CASE ~(seesNew /\ ~seesOld)
      <4>1. y = u
        BY <3>2 DEF y
      <4>2. Calm(u, u, x, {}) /\ Stays(u, u, x)
        BY DEF Calm, Stays
      <4> QED BY <4>1, <4>2, <3>2, <2>3
    <3> QED BY <3>1, <3>2
  <2>5. /\ Calm(y, v, x, {}) /\ Stays(y, v, x) /\ Decided(v, x)
        /\ y[x].master = d /\ seesNew => v[x].near
    BY <1>2, <1>3, <1>5, <2>2, <2>4, SeenSteps DEF v
  <2>6. Calm(w, v, x, {}) /\ Stays(w, v, x)
    <3>1. Calm(w, y, x, {}) /\ Stays(w, y, x)
      BY <1>2, <2>2, <2>3, <2>4, CalmCalm, StaysStays
    <3> QED BY <1>2, <2>2, <2>3, <2>4, <2>5, <3>1, CalmCalm, StaysStays
  <2>7. Alert(v, x)
    BY <2>5 DEF Decided
  <2>8. Watches(v, q, x)
    <3>1. ASSUME NEW p \in Players, w[x].wild, Sees(w, x, w[p].at), Tells(w, k[1], x, p)
          PROVE  Known(v, q, x, p)
      <4>1. k[1].do = "moved"
        BY DEF Turning
      <4>2. p = d /\ ~seesOld /\ seesNew
        BY <3>1, <4>1, <1>3 DEF Tells
      <4>3. d \in y[x].targets
        BY <4>2, <3>1, <2>2, <2>3, <2>4
      <4>4. d \in v[x].targets
        BY <4>3, <3>1, <2>2, <2>3, <2>5 DEF Calm
      <4> QED BY <4>2, <4>4 DEF Known
    <3> QED BY <1>10, <1>12, <2>1, <2>6, <3>1, WatchesStays
  <2>9. Serves(v, q, x)
    <3>1. CASE w[x].master = d
      <4>1. w[x].master \in Players /\ Sees(w, x, w[w[x].master].at) => Served(v, q, x)
        BY <3>1, <1>3, <2>2, <2>5 DEF Served, Decided
      <4> QED BY <1>10, <1>12, <2>1, <4>1, ServesStays
    <3>2. CASE w[x].master # d
      <4>1. k[1].do = "moved"
        BY DEF Turning
      <4>2. ~Wakes(w, k[1], x)
        BY <3>2, <4>1 DEF Wakes
      <4> QED BY <1>10, <1>12, <2>1, <2>6, <4>2, ServesStays
    <3> QED BY <3>1, <3>2
  <2> QED BY <2>7, <2>8, <2>9 DEF AwakeOf
<1>13. Sound(v, q)
  BY <1>1, <1>8, <1>10, <1>11, <1>12, NoMore, QuietSound
<1> QED BY <1>13 DEF v, y

\* A handler's answer keeps the invariant.
Answers(r, k, x) == Sound(r.world, r.calls \o Rest(k, x))

\* onCreatureMove, after the summons that are lost.
LEMMA MovedSound ==
  ASSUME NEW w, NEW k, NEW x, Called(w, k, x), k[1].do = "moved", NEW luck
  PROVE  Answers(MovedOn(Moved(w, x, k[1].of, k[1].from, k[1].to), x, k[1], luck), k, x)
<1> DEFINE d == k[1].of
           u == Moved(w, x, d, k[1].from, k[1].to)
           r == MovedOn(u, x, k[1], luck)
           seesNew == Sees(u, x, k[1].to)
           seesOld == Sees(u, x, k[1].from)
           more == <<Continued(k[1], x, "left"), Continued(k[1], x, "seen")>>
<1>1. Turning(w, k, x, u)
  BY DEF Turning
<1>2. /\ x \in Creature /\ d \in Creature /\ k[1].to = w[d].at /\ Turned(w, u, NULL) /\ Same(w, u)
      /\ \A q : Settled(w, k, u, q, x, NULL)
  BY <1>1, TurningIs
<1> HIDE DEF u
<1>3. CASE x \in Players
  <2>1. r = Then(u, <<>>)
    BY <1>3 DEF MovedOn
  <2>2. r.world = u /\ r.calls = <<>>
    BY <2>1 DEF Then
  <2>3. Sound(u, <<>> \o Rest(k, x))
    BY <1>1, <1>3, MovedPlayer
  <2> HIDE DEF r
  <2> QED BY <2>2, <2>3 DEF Answers, u, r
<1>4. CASE x \notin Players /\ x = d
  <2>1. r = Then(LookAround(u, x), <<>>)
    BY <1>4 DEF MovedOn, MonsterMoved
  <2>2. r.world = LookAround(u, x) /\ r.calls = <<>>
    BY <2>1 DEF Then
  <2>3. Sound(LookAround(u, x), <<>> \o Rest(k, x))
    BY <1>1, <1>2, <1>4, MovedItself DEF Creature
  <2> HIDE DEF r
  <2> QED BY <2>2, <2>3 DEF Answers, u, r
<1>5. CASE x \notin Players /\ x # d /\ ~seesNew /\ seesOld
  <2>1. r = LeaveFirst(u, x, d, luck, more)
    BY <1>5 DEF MovedOn, MonsterMoved
  <2>2. ~Sees(w, x, w[d].at)
    BY <1>2, <1>5, SameSees
  <2>3. Sound(r.world, r.calls \o Rest(k, x))
    <3>1. x \in Monsters
      BY <1>2, <1>5 DEF Creature
    <3> DEFINE s == LeaveFirst(u, x, d, luck, more)
    <3>2. Sound(s.world, s.calls \o Rest(k, x))
      BY <3>1, <2>2, <1>2, <1>5, LeavesSight
    <3> QED BY <3>2, <2>1
  <2> QED BY <2>3 DEF Answers, u
<1>6. CASE x \notin Players /\ x # d /\ ~(~seesNew /\ seesOld)
  <2> DEFINE v == Seen(IF seesNew /\ ~seesOld THEN Enter(u, x, d) ELSE u, x, d, seesNew)
  <2>1. r = Then(v, <<>>)
    BY <1>6 DEF MovedOn, MonsterMoved
  <2>2. r.world = v /\ r.calls = <<>>
    BY <2>1 DEF Then
  <2>3. Sound(v, <<>> \o Rest(k, x))
    BY <1>1, <1>2, <1>6, MovedInSight DEF Creature
  <2> HIDE DEF r, v
  <2> QED BY <2>2, <2>3 DEF Answers, u, r
<1> QED BY <1>3, <1>4, <1>5, <1>6

\* The one who disappears goes to sleep; a player has nothing to do.
LEMMA SleepsSound ==
  ASSUME NEW w, NEW k, NEW x, Called(w, k, x), k[1].do = "disappear", NEW u, Turned(w, u, NULL),
         k[1].of \notin {u[x].target, u[x].follow},
         NEW v, v = u \/ (x = k[1].of /\ v = SetIdle(u, x, TRUE)), x \in Players \/ x = k[1].of
  PROVE  Sound(v, <<>> \o Rest(k, x))
<1> DEFINE d == k[1].of
           q == <<>> \o Rest(k, x)
<1>1. Called(w, k, x) /\ k[1].do \in Notices /\ k[1].do \notin Moves /\ k[1].do # "left" /\ Sound(w, k)
  BY DEF Notices, Moves, Called
<1>2. Well(w) /\ x \in Creature /\ Here(w, x) /\ d \in Creature /\ Frame(w, k, 1, x)
  BY <1>1, CalledIs
<1>3. Well(u) /\ Here(u, x) /\ Same(w, u) /\ u \in Worlds
  BY <1>2, TurnOn DEF Turned, Well
<1>4. Minded(u, SetIdle(u, x, TRUE), x)
      /\ (Alert(u, x) => Alert(SetIdle(u, x, TRUE), x))
  <2>1. Minded(u, SetIdle(u, x, TRUE), x)
        /\ IF InGame(u, x) /\ u[x].alive THEN TRUE ELSE SetIdle(u, x, TRUE) = u
    BY <1>2, <1>3, SetIdleMinds
  <2>2. SetIdle(u, x, TRUE)[x].alive = u[x].alive
    BY <1>2, <2>1 DEF Minded, Same
  <2>3. CASE u[x].alive
    BY <2>1, <2>2, <2>3 DEF Alert
  <2>4. CASE ~u[x].alive
    BY <2>1, <2>4
  <2> QED BY <2>1, <2>3, <2>4
<1>5. Minded(u, v, x) /\ (Alert(u, x) => Alert(v, x))
  BY <1>3, <1>4, MindedSame
<1>6. Step(w, v, x, NULL)
  <2>1. Step(w, u, x, NULL) /\ Step(u, v, x, NULL)
    BY <1>5, TurnedIsStep, MindedIsStep
  <2> QED BY <2>1, StepStep
<1>7. Answered(w, k, v, q, 0, x, NULL)
  BY <1>1, <1>6, CalledAlone
<1>8. d \notin {v[x].target, v[x].follow}
  BY <1>2, <1>5 DEF Minded
<1>9. ASSUME x \in Monsters, InGame(w, x), \A c : Leaving(q, c) <=> Leaving(k, c) PROVE AwakeOf(v, q, x)
  <2>1. x = d
    BY <1>9, TargetsAssumption
  <2>2. Leaving(k, d)
    BY <1>1, <1>2 DEF Frame, Withdraws, Leaving
  <2>3. Alert(v, x)
    BY <1>1, <1>2, <1>5, <1>9, CalledAlert, TurnedIsCalm
  <2> QED BY <1>9, <2>1, <2>2, <2>3 DEF AwakeOf, Watches, Serves
<1> QED BY <1>1, <1>7, <1>8, <1>9, NoMore, QuietSound

\* onCreatureDisappear.
LEMMA DisappearSound ==
  ASSUME NEW w, NEW k, NEW x, Called(w, k, x), k[1].do = "disappear", NEW luck
  PROVE  Answers(Vanished(Disappear(w, x, k[1].of), x, k[1], luck), k, x)
<1> DEFINE d == k[1].of
           u == Disappear(w, x, d)
           r == Vanished(u, x, k[1], luck)
           more == <<Continued(k[1], x, "left")>>
<1>1. k[1].do \in Notices
  BY DEF Notices
<1>2. Well(w) /\ x \in Creature /\ Here(w, x) /\ d \in Creature /\ Frame(w, k, 1, x)
  BY <1>1, CalledIs
<1>3. Turned(w, u, NULL) /\ d \notin {u[x].target, u[x].follow}
  BY <1>2, DisappearTurns
<1>4. Leaving(k, d)
  BY <1>2 DEF Frame, Withdraws, Leaving
<1> HIDE DEF u
<1>5. CASE x \in Players \/ x = d
  <2> DEFINE v == IF x \in Players THEN u ELSE SetIdle(u, x, TRUE)
  <2>1. r = Then(v, <<>>)
    BY <1>5 DEF Vanished
  <2>2. r.world = v /\ r.calls = <<>>
    BY <2>1 DEF Then
  <2>3. Sound(v, <<>> \o Rest(k, x))
    BY <1>3, <1>5, SleepsSound
  <2> HIDE DEF r, v
  <2> QED BY <2>2, <2>3 DEF Answers, u, r
<1>6. CASE x \notin Players /\ x # d
  <2>1. r = LeaveFirst(u, x, d, luck, more)
    BY <1>6 DEF Vanished
  <2>2. x \in Monsters
    BY <1>2, <1>6 DEF Creature
  <2> DEFINE s == LeaveFirst(u, x, d, luck, more)
  <2>3. Sound(s.world, s.calls \o Rest(k, x))
    BY <1>3, <1>4, <1>6, <2>2, LeavesSight
  <2> QED BY <2>1, <2>3 DEF Answers, u
<1> QED BY <1>5, <1>6

-----------------------------------------------------------------------------
(* Removals                                                                  *)

\* Who is on his way out now was so before, or is by a new call.
LEMMA PushedLeaving ==
  ASSUME NEW k, NEW q, NEW n, NEW x, Pushed(k, q, n, x), NEW c, Leaving(q, c)
  PROVE  \/ Leaving(k, c)
         \/ \E i \in 1 .. n : q[i].do \in {"remove", "removed"} /\ c \in q[i].by
<1>1. PICK i \in DOMAIN q : q[i].do \in {"remove", "removed"} /\ c \in q[i].by
  BY DEF Leaving
<1>2. CASE i \in 1 .. n
  BY <1>1, <1>2
<1>3. CASE i \notin 1 .. n
  <2>1. PICK j \in DOMAIN k : i = n + j
    BY <1>3, PushedFrom
  <2>2. k[j].do \in {"remove", "removed"} /\ c \in k[j].by
    BY <1>1, <2>1, PushedTo
  <2> QED BY <2>2 DEF Leaving
<1> QED BY <1>2, <1>3

\* There is one summon, and it has none.
LEMMA OneSummon ==
  ASSUME NEW w \in Worlds, NEW k, Family(w, k), NEW c \in Creature, NEW m \in Summons(w, c)
  PROVE  /\ m \in Creature /\ m # c /\ InGame(w, m) /\ Summons(w, c) = {m} /\ Summons(w, m) = {}
         /\ w[m].master = c
<1>1. Monsters \subseteq Creature
  BY DEF Creature
<1>2. m \in Creature /\ w[m].master = c /\ c # NULL
  BY <1>1, Apart DEF Summons
<1>3. InGame(w, m) /\ m # c /\ \A n \in Creature : w[n].master # NULL => n = m
  BY <1>2 DEF Family
<1>4. Summons(w, c) = {m}
  BY <1>1, <1>2, <1>3 DEF Summons
<1>5. Summons(w, m) = {}
  BY <1>1, <1>2, <1>3, Apart DEF Summons
<1> QED BY <1>2, <1>3, <1>4, <1>5

\* What is left comes after what is about a master.
LEMMA TailSubject ==
  ASSUME NEW w, NEW k, NEW x, Called(w, k, x), NEW q, NEW n, Pushed(k, q, n, x),
         NEW c, Subject(k[1]) = {c}, Summons(w, c) # {},
         NEW i \in DOMAIN q, i > n, q[i].by # {}
  PROVE  i = n + 1 \/ Subject(q[i]) = {c}
<1>1. Frame(w, k, 1, x) /\ 1 \in DOMAIN k /\ \A j \in DOMAIN k : j \in Nat /\ j > 0
  BY CalledIs
<1>2. n \in Nat
  BY PushedDomain
<1>3. PICK j \in DOMAIN k : i = n + j
  BY <1>2, PushedFrom
<1>4. CASE j # 1
  <2>1. j > 1
    BY <1>1, <1>4
  <2>2. q[i].by = k[j].by /\ q[i].do = k[j].do /\ q[i].of = k[j].of
    BY <1>3, <1>4, PushedTo
  <2>3. Subject(k[j]) = {c}
    BY <1>1, <2>1, <2>2 DEF Frame, MasterLast
  <2> QED BY <2>2, <2>3 DEF Subject
<1> QED BY <1>3, <1>4

\* onCreatureMove begins with the summons that are lost.
LEMMA LoseSummonsSound ==
  ASSUME NEW w, NEW k, NEW x, Called(w, k, x), k[1].do = "move"
  PROVE  Answers(LoseSummons(w, x, k[1]), k, x)
<1> DEFINE d == k[1].of
           despawns == x = d /\ (~TeleportAll \/ (TeleportPlayers /\ d \notin Players))
           lost == {m \in Summons(w, d) : despawns /\ <<w[m].at, k[1].to>> \in Far}
           R == Act("remove", lost, NULL)
           M == Continued(k[1], x, "moved")
           new == <<R, M>>
           q == new \o Rest(k, x)
           r == LoseSummons(w, x, k[1])
<1>1. r.world = w /\ r.calls = new
  BY DEF LoseSummons, Then
<1>2. k[1].do \in Notices /\ k[1].do \in Moving /\ k[1].do \in Moves /\ "moved" \in Notices /\ "remove" \in Acts
  BY DEF Notices, Moving, Moves, Acts
<1>3. /\ Well(w) /\ w \in Worlds /\ x \in Creature /\ Here(w, x) /\ k[1] \in AllCalls /\ d \in Creature
      /\ Frame(w, k, 1, x) /\ Subject(k[1]) = {d} /\ 1 \in DOMAIN k
      /\ Sound(w, k) /\ Family(w, k)
      /\ \A j \in DOMAIN k : j \in Nat /\ j > 0
  BY <1>2, CalledIs DEF Called, Sound
<1>4. /\ k[1].to \in Spots /\ k[1].from \in Spots /\ k[1].to = w[d].at /\ InGame(w, d) /\ ~Leaving(k, d)
  BY <1>2, <1>3 DEF Frame, OnTheMove
<1>5. lost \subseteq Summons(w, d) /\ lost \in SUBSET Creature
  BY DEF Summons, Creature
<1> HIDE DEF lost
<1>6. \A m \in lost : lost = {m} /\ m # d /\ InGame(w, m) /\ Summons(w, m) = {} /\ m \in Creature
  BY <1>3, <1>5, OneSummon
<1>7. R \in AllCalls /\ R.do = "remove" /\ R.by = lost
  BY <1>2, <1>5, ActIs
<1>8. /\ M \in AllCalls /\ M.do = "moved" /\ M.by = {x} /\ M.of = d
      /\ M.from = k[1].from /\ M.to = k[1].to
  BY <1>2, <1>3, ContinuedIs
<1> HIDE DEF R, M
<1>9. new \in Seq(AllCalls) /\ Len(new) = 2 /\ new[1] = R /\ new[2] = M
  BY <1>7, <1>8, FewCalls
<1> HIDE DEF new
<1>10. Answered(w, k, w, q, 2, x, NULL) /\ q[1] = R /\ q[2] = M /\ Pushed(k, q, 2, x)
  <2>1. Step(w, w, x, NULL)
    BY <1>3, StepSame
  <2>2. new \in Seq(AllCalls)
    BY <1>9
  <2>3. Answered(w, k, w, new \o Rest(k, x), Len(new), x, NULL)
    BY <2>1, <2>2, CalledPushed
  <2>4. \A i \in 1 .. Len(new) : q[i] = new[i]
    BY <2>1, <2>2, CalledPushed
  <2>5. Answered(w, k, w, q, 2, x, NULL)
    BY <2>3, <1>9
  <2> HIDE DEF q
  <2>6. q[1] = R /\ q[2] = M
    <3>1. 1 \in 1 .. Len(new) /\ 2 \in 1 .. Len(new)
      BY <1>9
    <3>2. q[1] = new[1] /\ q[2] = new[2]
      BY <2>4, <3>1
    <3> QED BY <3>2, <1>9
  <2> QED BY <2>5, <2>6 DEF Answered
<1>11. 1 \in DOMAIN q /\ 2 \in DOMAIN q /\ 1 .. 2 = {1, 2}
  <2>1. DOMAIN q = 1 .. 2 + Len(k) /\ Len(k) \in Nat
    BY <1>10, LenProperties DEF Pushed
  <2> QED BY <2>1
<1> HIDE DEF q
<1>12. \A c : Leaving(k, c) => Leaving(q, c)
  BY <1>2, <1>10, StillLeaving
<1>13. ASSUME NEW c, Leaving(q, c) PROVE Leaving(k, c) \/ c \in lost
  BY <1>7, <1>8, <1>10, <1>11, <1>13, PushedLeaving
<1>14. ASSUME NEW j \in DOMAIN k, k[j].by # {}, k[j].do \in Moving \ {"go"}
       PROVE  ~Leaving(q, k[j].of)
  <2>1. PICK y \in k[j].by : Frame(w, k, j, y)
    BY <1>3, <1>14 DEF Sound, Frames
  <2>2. k[j].do \notin Acts
    BY <1>14 DEF Moving, Moves, Acts
  <2>3. Subject(k[j]) = {k[j].of}
    BY <2>2 DEF Subject
  <2>4. ~Leaving(k, k[j].of)
    BY <2>1, <2>3, <1>14 DEF Frame, OnTheMove
  <2>5. k[j].of \notin lost
    <3>1. CASE lost = {}
      BY <3>1
    <3>2. CASE lost # {}
      <4>1. Summons(w, d) # {}
        BY <3>2, <1>5
      <4>2. j # 1 => Subject(k[j]) = {d}
        BY <4>1, <1>3, <1>14 DEF Frame, MasterLast
      <4>3. k[j].of = d
        BY <4>2, <2>3
      <4> QED BY <4>3, <1>6
    <3> QED BY <3>1, <3>2
  <2> QED BY <2>4, <2>5, <1>13
<1>15. ASSUME NEW i \in 1 .. 2, NEW y \in q[i].by PROVE Frame(w, q, i, y)
  <2>1. CASE i = 1
    <3>1. y \in lost /\ q[i] = R /\ Subject(R) = lost /\ lost = {y} /\ InGame(w, y) /\ Summons(w, y) = {}
      BY <2>1, <1>6, <1>7, <1>10, <1>15 DEF Subject, Acts
    <3>2. Addressed(w, q[i], y)
      BY <3>1, <1>7 DEF Addressed, Notices, InGame, Here
    <3>3. OnTheMove(w, q, q[i])
      BY <3>1, <1>7 DEF OnTheMove, Moving, Moves
    <3>4. GoesTo(w, q, i, y) /\ Forgets(w, q, i, y) /\ Withdraws(q, i)
      BY <3>1, <1>7 DEF GoesTo, Forgets, Withdraws
    <3>5. MasterLast(w, q, i)
      BY <3>1 DEF MasterLast
    <3> QED BY <3>2, <3>3, <3>4, <3>5 DEF Frame
  <2>2. CASE i = 2
    <3>1. y = x /\ q[i] = M /\ Subject(M) = {d}
      BY <2>2, <1>8, <1>10, <1>15 DEF Subject, Acts
    <3>2. Addressed(w, q[i], y)
      BY <3>1, <1>3, <1>8 DEF Addressed, Acts
    <3>3. OnTheMove(w, q, q[i])
      <4>1. ~Leaving(q, d)
        BY <1>4, <1>6, <1>13
      <4> QED BY <4>1, <3>1, <1>4, <1>8 DEF OnTheMove
    <3>4. GoesTo(w, q, i, y) /\ Forgets(w, q, i, y) /\ Withdraws(q, i)
      BY <3>1, <1>8 DEF GoesTo, Forgets, Withdraws
    <3>5. MasterLast(w, q, i)
      <4>1. SUFFICES ASSUME Summons(w, d) # {}, NEW j \in DOMAIN q, j > 2, q[j].by # {}
                     PROVE  Subject(q[j]) = {d}
        BY <3>1, <2>2 DEF MasterLast
      <4>2. CASE j = 2 + 1
        <5>1. q[j].do = k[1].do /\ q[j].of = d
          BY <4>2, <1>3, <1>10, PushedTo
        <5> QED BY <5>1, <1>2 DEF Subject, Acts, Moves
      <4> QED BY <4>1, <4>2, <1>3, <1>10, TailSubject
    <3> QED BY <3>2, <3>3, <3>4, <3>5 DEF Frame
  <2> QED BY <2>1, <2>2, <1>11
<1>16. Settled(w, k, w, q, x, NULL)
  <2>1. Repeats(q[2], k[1], x)
    BY <1>8, <1>10 DEF Repeats, Moves
  <2> QED BY <2>1, <1>11 DEF Settled
<1>17. ASSUME x \in Monsters, InGame(w, x) PROVE AwakeOf(w, q, x)
  <2>1. Alert(w, x)
    BY <1>3, <1>17, CalledAlert
  <2>2. Calm(w, w, x, {}) /\ Stays(w, w, x)
    BY DEF Calm, Stays
  <2>3. \A p : Tells(w, k[1], x, p) => Known(w, q, x, p)
    <3>1. \A p : Tells(w, k[1], x, p) => Tells(w, q[2], x, p)
      BY <1>8, <1>10 DEF Tells, Moves
    <3> QED BY <3>1, <1>11 DEF Known
  <2>4. Wakes(w, k[1], x) => Served(w, q, x)
    <3>1. Wakes(w, k[1], x) => Wakes(w, q[2], x)
      BY <1>8, <1>10 DEF Wakes, Moves
    <3> QED BY <3>1, <1>11 DEF Served
  <2>5. Watches(w, q, x)
    BY <1>10, <1>12, <1>17, <2>2, <2>3, WatchesStays
  <2>6. Serves(w, q, x)
    BY <1>10, <1>12, <1>17, <2>2, <2>4, ServesStays
  <2> QED BY <2>1, <2>5, <2>6 DEF AwakeOf
<1>18. \A i \in 1 .. 2 : q[i].do # "removed"
  BY <1>7, <1>8, <1>10, <1>11
<1>19. Sound(w, q)
  BY <1>10, <1>12, <1>14, <1>15, <1>16, <1>17, <1>18, AnsweredSound
<1> QED BY <1>1, <1>19 DEF Answers, q

\* removeCreature begins with the notices.
LEMMA WithdrawSound ==
  ASSUME NEW w, NEW k, NEW x, Called(w, k, x), k[1].do = "remove"
  PROVE  Answers(Withdraw(w, x), k, x)
<1> DEFINE told == Spectators(w, w[x].at)
           D == Call("disappear", told, x, NULL, NULL)
           R == Act("removed", {x}, NULL)
           new == <<D, R>>
           q == new \o Rest(k, x)
           r == Withdraw(w, x)
<1>1. r.world = w /\ r.calls = new
  BY DEF Withdraw, Then
<1>2. k[1].do \in Acts /\ k[1].do \notin Moves /\ "removed" \in Acts
  BY DEF Acts, Moves
<1>3. /\ Well(w) /\ w \in Worlds /\ x \in Creature /\ Here(w, x) /\ k[1] \in AllCalls
      /\ Frame(w, k, 1, x) /\ Subject(k[1]) = {x} /\ k[1].by = {x} /\ 1 \in DOMAIN k
      /\ Sound(w, k) /\ k \in Seq(AllCalls) /\ k # <<>>
      /\ \A j \in DOMAIN k : j \in Nat /\ j > 0
  BY <1>2, CalledIs DEF Called, Sound
<1>4. Leaving(k, x)
  BY <1>3 DEF Leaving
<1>5. told \in SUBSET Creature /\ \A y \in told : InGame(w, y)
  BY DEF Spectators
<1>6. \A c \in Creature : InGame(w, c) /\ Sees(w, c, w[x].at) => c \in told
  BY TargetsAssumption DEF Spectators, Sees
<1> HIDE DEF told
<1>7. D \in AllCalls /\ D.do = "disappear" /\ D.by = told /\ D.of = x
  BY <1>3, <1>5 DEF Call, AllCalls, Notices
<1>8. R \in AllCalls /\ R.do = "removed" /\ R.by = {x}
  BY <1>2, <1>3, ActIs
<1> HIDE DEF D, R
<1>9. Pushed(k, q, 2, x) /\ q[1] = D /\ q[2] = R /\ 1 \in DOMAIN q /\ 2 \in DOMAIN q
  <2>1. new \in Seq(AllCalls) /\ Len(new) = 2 /\ new[1] = D /\ new[2] = R
    BY <1>7, <1>8, FewCalls
  <2>2. q = new \o Rest(k, x)
    OBVIOUS
  <2> HIDE DEF new, q
  <2>2a. k \in Seq(AllCalls) /\ k # <<>> /\ new \in Seq(AllCalls)
    BY <1>3, <2>1
  <2>2b. Pushed(k, q, Len(new), x)
    BY <2>2, <2>2a, PushedIs
  <2>3. q[1] = new[1] /\ q[2] = new[2]
    <3>1. \A i \in 1 .. Len(new) : (new \o Rest(k, x))[i] = new[i]
      BY <2>2a, PushedIs
    <3>2. 1 \in 1 .. Len(new) /\ 2 \in 1 .. Len(new)
      BY <2>1
    <3> QED BY <3>1, <3>2, <2>2
  <2>4. 1 \in DOMAIN q /\ 2 \in DOMAIN q
    <3>1. DOMAIN q = 1 .. 2 + Len(k) /\ Len(k) \in Nat
      BY <2>1, <2>2b, LenProperties DEF Pushed
    <3> QED BY <3>1
  <2> QED BY <2>1, <2>2b, <2>3, <2>4
<1> HIDE DEF q
<1>10. Answered(w, k, w, q, 2, x, NULL)
  <2>1. Step(w, w, x, NULL)
    BY <1>3, StepSame
  <2> QED BY <2>1, <1>3, <1>9 DEF Answered
<1>11. \A i \in 1 .. 2 : i = 1 \/ i = 2
  OBVIOUS
<1>12. \A c : Leaving(k, c) => Leaving(q, c)
  <2>1. ASSUME NEW c, Leaving(k, c), c # x PROVE Leaving(q, c)
    BY <2>1, <1>9, StillLeaving
  <2>2. Leaving(q, x)
    BY <1>8, <1>9 DEF Leaving
  <2> QED BY <2>1, <2>2
<1>13. ASSUME NEW c, Leaving(q, c) PROVE Leaving(k, c)
  <2>1. \/ Leaving(k, c)
        \/ \E i \in 1 .. 2 : q[i].do \in {"remove", "removed"} /\ c \in q[i].by
    BY <1>9, <1>13, PushedLeaving
  <2> QED BY <2>1, <1>4, <1>7, <1>8, <1>9, <1>11
<1>14. ASSUME NEW j \in DOMAIN k, k[j].by # {}, k[j].do \in Moving \ {"go"}
       PROVE  ~Leaving(q, k[j].of)
  <2>1. PICK y \in k[j].by : Frame(w, k, j, y)
    BY <1>3, <1>14 DEF Sound, Frames
  <2>2. k[j].do \notin Acts
    BY <1>14 DEF Moving, Moves, Acts
  <2>3. Subject(k[j]) = {k[j].of}
    BY <2>2 DEF Subject
  <2> QED BY <2>1, <2>3, <1>13, <1>14 DEF Frame, OnTheMove
<1>15. \A i \in DOMAIN q : Summons(w, x) # {} /\ i > 2 /\ q[i].by # {} => Subject(q[i]) = {x}
  <2>1. SUFFICES ASSUME NEW i \in DOMAIN q, Summons(w, x) # {}, i > 2, q[i].by # {}
                 PROVE  Subject(q[i]) = {x}
    OBVIOUS
  <2>2. i # 2 + 1
    <3>1. ASSUME i = 2 + 1 PROVE FALSE
      <4>1. q[2 + 1].by = k[1].by \ {x}
        BY <1>3, <1>9, PushedTo
      <4>2. q[i].by = {}
        BY <4>1, <3>1, <1>3
      <4> QED BY <4>2, <2>1
    <3> QED BY <3>1
  <2> QED BY <2>1, <2>2, <1>3, <1>9, TailSubject
<1>16. Subject(D) = {x} /\ Subject(R) = {x}
  BY <1>7, <1>8 DEF Subject, Acts
<1>16a. \A j \in DOMAIN q : j \in Nat
  BY <1>9, PushedDomain
<1>17. ASSUME NEW i \in 1 .. 2, NEW y \in q[i].by PROVE Frame(w, q, i, y)
  <2>1. CASE i = 1
    <3>1. y \in told /\ q[i] = D /\ InGame(w, y)
      BY <2>1, <1>5, <1>7, <1>9, <1>17
    <3>2. Addressed(w, q[i], y)
      BY <3>1, <1>3, <1>7 DEF Addressed, Acts, InGame, Here
    <3>3. OnTheMove(w, q, q[i])
      BY <3>1, <1>7 DEF OnTheMove, Moving, Moves
    <3>4. GoesTo(w, q, i, y) /\ Forgets(w, q, i, y)
      BY <3>1, <1>7 DEF GoesTo, Forgets
    <3>5. Withdraws(q, i)
      <4>1. 2 > i /\ q[2].do = "removed" /\ q[i].of \in q[2].by
        BY <2>1, <3>1, <1>7, <1>8, <1>9
      <4> QED BY <4>1, <1>9 DEF Withdraws
    <3>6. MasterLast(w, q, i)
      <4>1. ASSUME Summons(w, x) # {}, NEW j \in DOMAIN q, j > 1, q[j].by # {} PROVE Subject(q[j]) = {x}
        <5>1. j = 2 \/ j > 2
          BY <4>1, <1>16a
        <5> QED BY <5>1, <4>1, <1>9, <1>15, <1>16
      <4> QED BY <4>1, <2>1, <3>1, <1>16 DEF MasterLast
    <3> QED BY <3>2, <3>3, <3>4, <3>5, <3>6 DEF Frame
  <2>2. CASE i = 2
    <3>1. y = x /\ q[i] = R
      BY <2>2, <1>8, <1>9, <1>17
    <3>2. Addressed(w, q[i], y)
      BY <3>1, <1>3, <1>8 DEF Addressed, Notices
    <3>3. OnTheMove(w, q, q[i])
      BY <3>1, <1>8 DEF OnTheMove, Moving, Moves
    <3>4. GoesTo(w, q, i, y) /\ Forgets(w, q, i, y) /\ Withdraws(q, i)
      BY <3>1, <1>8 DEF GoesTo, Forgets, Withdraws
    <3>5. MasterLast(w, q, i)
      BY <2>2, <3>1, <1>15, <1>16 DEF MasterLast
    <3> QED BY <3>2, <3>3, <3>4, <3>5 DEF Frame
  <2> QED BY <2>1, <2>2, <1>11
<1>18. ASSUME NEW i \in 1 .. 2, q[i].do = "removed", NEW u \in q[i].by, NEW c \in Creature, InGame(w, c)
       PROVE  ~Sees(w, c, w[u].at) \/ WasTold(q, i, c, u)
  <2>1. i = 2 /\ u = x
    BY <1>7, <1>8, <1>9, <1>11, <1>18
  <2>2. ASSUME Sees(w, c, w[u].at) PROVE WasTold(q, i, c, u)
    <3>1. 1 < i /\ q[1].do = "disappear" /\ q[1].of = u /\ c \in q[1].by
      BY <2>1, <2>2, <1>6, <1>7, <1>9, <1>18
    <3> QED BY <3>1, <1>9 DEF WasTold
  <2> QED BY <2>2
<1>19. ASSUME x \in Monsters, InGame(w, x) PROVE AwakeOf(w, q, x)
  <2>1. Leaving(q, x)
    BY <1>4, <1>12
  <2>2. Alert(w, x)
    BY <1>3, <1>19, CalledAlert
  <2> QED BY <2>1, <2>2 DEF AwakeOf, Watches, Serves
<1>20. Sound(w, q)
  <2>1. k[1].do \notin {"go", "removed"} /\ k[1].do # "left" /\ k[1].do # "disappear" /\ k[1].do \notin Moves
    BY <1>2
  <2> QED BY <2>1, <1>10, <1>12, <1>14, <1>17, <1>18, <1>19, AnsweredSound
<1> QED BY <1>1, <1>20 DEF Answers, q

-----------------------------------------------------------------------------
(* What somebody does by himself                                             *)

\* A call is a notice or what its subject does.
LEMMA Kinds ==
  /\ "go" \in Acts /\ "remove" \in Acts /\ "removed" \in Acts
  /\ \A a \in Acts : a \notin Moves /\ a \notin Notices /\ a # "disappear" /\ a # "appear" /\ a # "look"
  /\ \A a \in Moves : a \in Notices /\ a \in Moving /\ a # "go" /\ a \notin {"remove", "removed"}
  /\ Moving \ {"go"} \subseteq Notices /\ "move" \in Moves
BY DEF Acts, Moves, Notices, Moving

\* The calls that are left are those there were, but for his own.
LEMMA Shifts ==
  ASSUME NEW k, NEW q, NEW n, NEW x, Pushed(k, q, n, x), k[1].do \in Acts,
         NEW j \in DOMAIN k, k[j].do \notin Acts
  PROVE  /\ n + j \in DOMAIN q /\ j # 1
         /\ q[n + j].do = k[j].do /\ q[n + j].of = k[j].of
         /\ q[n + j].from = k[j].from /\ q[n + j].to = k[j].to /\ q[n + j].by = k[j].by
<1>1. j # 1
  OBVIOUS
<1> QED BY <1>1, PushedTo

\* Notices that are left settle what they settled.
LEMMA ShiftsAims ==
  ASSUME NEW k, NEW q, NEW n, NEW x, Pushed(k, q, n, x), k[1].do \in Acts, NEW c, NEW t,
         NEW j \in DOMAIN k
  PROVE  /\ Settles(k[j], c, t) =>
              \E i \in DOMAIN q : Settles(q[i], c, t) /\ q[i].from = k[j].from /\ q[i].to = k[j].to
         /\ Spares(k[j], c, t) => \E i \in DOMAIN q : Spares(q[i], c, t)
         /\ WasTold(k, j, c, t) => WasTold(q, n + j, c, t)
<1>1. ASSUME Settles(k[j], c, t)
      PROVE  \E i \in DOMAIN q : Settles(q[i], c, t) /\ q[i].from = k[j].from /\ q[i].to = k[j].to
  <2>1. k[j].do \notin Acts
    BY <1>1, Kinds DEF Settles
  <2>2. /\ n + j \in DOMAIN q /\ q[n + j].do = k[j].do /\ q[n + j].of = k[j].of
        /\ q[n + j].from = k[j].from /\ q[n + j].to = k[j].to /\ q[n + j].by = k[j].by
    BY <2>1, Shifts
  <2>3. Settles(q[n + j], c, t)
    BY <2>2, <1>1 DEF Settles
  <2> QED BY <2>2, <2>3
<1>2. ASSUME Spares(k[j], c, t) PROVE \E i \in DOMAIN q : Spares(q[i], c, t)
  <2>1. k[j].do \notin Acts
    BY <1>2, Kinds DEF Spares
  <2>2. /\ n + j \in DOMAIN q /\ q[n + j].do = k[j].do /\ q[n + j].of = k[j].of
        /\ q[n + j].from = k[j].from /\ q[n + j].to = k[j].to /\ q[n + j].by = k[j].by
    BY <2>1, Shifts
  <2>3. Spares(q[n + j], c, t)
    BY <2>2, <1>2 DEF Spares
  <2> QED BY <2>2, <2>3
<1>3. ASSUME WasTold(k, j, c, t) PROVE WasTold(q, n + j, c, t)
  <2>1. PICK h \in DOMAIN k : h < j /\ k[h].do = "disappear" /\ k[h].of = t /\ c \in k[h].by
    BY <1>3 DEF WasTold
  <2>2. k[h].do \notin Acts
    BY <2>1, Kinds
  <2>3. /\ n + h \in DOMAIN q /\ q[n + h].do = "disappear" /\ q[n + h].of = t /\ c \in q[n + h].by
    BY <2>1, <2>2, Shifts
  <2>4. n + h < n + j
    BY <2>1, PushedDomain
  <2> QED BY <2>3, <2>4 DEF WasTold
<1> QED BY <1>1, <1>2, <1>3

\* Those that were to come after it are as good as before.
LEMMA TailFrames ==
  ASSUME NEW w, NEW k, NEW v, NEW q, NEW n, NEW x, Sound(w, k), Pushed(k, q, n, x), x \in k[1].by,
         NEW j \in DOMAIN k, j # 1, NEW y \in q[n + j].by,
         \A c \in Creature : /\ Here(w, c) => Here(v, c)
                             /\ InGame(v, c) => InGame(w, c) /\ v[c].wild = w[c].wild
                             /\ Summons(v, c) \subseteq Summons(w, c),
         k[j].do \in Moving \ {"go"} =>
           /\ InGame(v, k[j].of) /\ ~Leaving(q, k[j].of)
           /\ k[j].do \in Moves => v[k[j].of].at = w[k[j].of].at
  PROVE  Frame(v, q, n + j, y)
<1> DEFINE f == k[j]
           g == q[n + j]
<1>1. Sound(w, k) /\ Well(w) /\ Pushed(k, q, n, x) /\ k \in Seq(AllCalls)
  BY DEF Sound
<1>2. /\ n + j \in DOMAIN q /\ g.do = f.do /\ g.of = f.of /\ g.from = f.from /\ g.to = f.to
      /\ g.by = f.by
  BY <1>1, PushedTo
<1>3. y \in f.by /\ y \in g.by /\ Frame(w, k, j, y)
  BY <1>1, <1>2 DEF Sound, Frames
<1>4. j \in Nat /\ j > 0 /\ n \in Nat /\ \A h \in DOMAIN k : h \in Nat /\ h > 0
  BY <1>1, PushedDomain
<1>5. y \in Creature /\ f \in AllCalls
  <2>1. Len(k) \in Nat /\ DOMAIN k = 1 .. Len(k)
    BY <1>1, LenProperties
  <2>2. f \in AllCalls
    BY <1>1, <2>1, ElementOfSeq
  <2> QED BY <2>2, <1>3 DEF AllCalls
<1>6. f.do # "go"
  BY <1>3, <1>4 DEF Frame, GoesTo
<1>7. Addressed(w, f, y) /\ OnTheMove(w, k, f) /\ Forgets(w, k, j, y) /\ Withdraws(k, j)
      /\ MasterLast(w, k, j)
  BY <1>3 DEF Frame
<1>8. Subject(g) = Subject(f)
  BY <1>2 DEF Subject
<1>9. f.do \in Moving => Subject(f) = {f.of}
  BY <1>6, Kinds DEF Subject, Moving, Moves, Acts
<1>10. f.do \in Moving => /\ InGame(v, f.of) /\ ~Leaving(q, f.of)
                          /\ f.do \in Moves => v[f.of].at = w[f.of].at
  BY <1>6
<1> HIDE DEF f, g
<1>11. Addressed(v, g, y)
  BY <1>2, <1>3, <1>5, <1>7 DEF Addressed
<1>12. OnTheMove(v, q, g)
  <2>1. Moves \subseteq Moving
    BY DEF Moving
  <2> QED BY <2>1, <1>2, <1>7, <1>8, <1>9, <1>10 DEF OnTheMove
<1>13. GoesTo(v, q, n + j, y)
  BY <1>2, <1>6 DEF GoesTo, g
<1>14. Forgets(v, q, n + j, y)
  BY <1>2, <1>5, <1>7 DEF Forgets, f, g
<1>15. Withdraws(q, n + j)
  <2> SUFFICES ASSUME g.do = "disappear"
               PROVE  \E i \in DOMAIN q : i > n + j /\ q[i].do = "removed" /\ g.of \in q[i].by
    BY DEF Withdraws, g
  <2>1. PICK h \in DOMAIN k : h > j /\ k[h].do = "removed" /\ f.of \in k[h].by
    BY <1>2, <1>7 DEF Withdraws, f
  <2>2. h # 1 /\ n + h > n + j
    BY <2>1, <1>4
  <2>3. n + h \in DOMAIN q /\ q[n + h].do = "removed" /\ f.of \in q[n + h].by
    BY <2>1, <2>2, <1>1, PushedTo
  <2> QED BY <2>2, <2>3, <1>2
<1>16. MasterLast(v, q, n + j)
  <2> SUFFICES ASSUME NEW c \in Subject(g), Summons(v, c) # {},
                      NEW i \in DOMAIN q, i > n + j, q[i].by # {}
               PROVE  Subject(q[i]) = {c}
    BY DEF MasterLast, g
  <2>1. c \in Subject(f) /\ c \in Creature
    <3>1. f.do \in Notices => f.of \in Creature
      BY <1>7 DEF Addressed
    <3>2. f.by \subseteq Creature /\ f.do \in Acts \cup Notices
      BY <1>5 DEF AllCalls
    <3> QED BY <3>1, <3>2, <1>8 DEF Subject
  <2>2. PICK h \in DOMAIN k : i = n + h
    BY <1>1, <1>4, PushedFrom
  <2>3. h > j /\ h # 1
    BY <2>2, <1>4
  <2>4. q[i].do = k[h].do /\ q[i].of = k[h].of /\ q[i].by = k[h].by
    BY <2>2, <2>3, <1>1, PushedTo
  <2>5. Subject(q[i]) = Subject(k[h])
    BY <2>4 DEF Subject
  <2>6. Summons(w, c) # {}
    BY <2>1
  <2> QED BY <2>1, <2>3, <2>4, <2>5, <2>6, <1>7 DEF MasterLast, f
<1> QED BY <1>11, <1>12, <1>13, <1>14, <1>15, <1>16 DEF Frame, g

\* What is known when x has moved from p to z, and those who see it are still
\* to be told.
Went(w, k, x, v, q, p, z) ==
  /\ Called(w, k, x) /\ k[1].do = "go"
  /\ p = w[x].at /\ z = k[1].to /\ v = [w EXCEPT ![x].at = z]
  /\ Pushed(k, q, 1, x) /\ 1 \in DOMAIN q
  /\ q[1].do = "move" /\ q[1].by = Told(w, p, z) /\ q[1].of = x /\ q[1].from = p /\ q[1].to = z

\* What is known when x goes from p to z.
LEMMA WentIs ==
  ASSUME NEW w, NEW k, NEW x, NEW v, NEW q, NEW p, NEW z, Went(w, k, x, v, q, p, z)
  PROVE  /\ Sound(w, k) /\ Well(w) /\ w \in Worlds /\ x \in Creature /\ k[1].do \in Acts /\ x \in k[1].by
         /\ Frame(w, k, 1, x) /\ Subject(k[1]) = {x} /\ k[1].by = {x} /\ 1 \in DOMAIN k
         /\ InGame(w, x) /\ p \in Spots /\ z \in Spots
         /\ \A c : Leaving(q, c) <=> Leaving(k, c)
         /\ ~Leaving(k, x)
         /\ \A j \in DOMAIN k : k[j].by # {} /\ k[j].do \in Moves =>
              k[j].of # x /\ w[k[j].of].at = z /\ z \notin Protected
<1>1. /\ Sound(w, k) /\ Well(w) /\ w \in Worlds /\ x \in Creature /\ k[1].do \in Acts /\ x \in k[1].by
      /\ Frame(w, k, 1, x) /\ Subject(k[1]) = {x} /\ k[1].by = {x} /\ 1 \in DOMAIN k
  BY CalledIs, Kinds DEF Went, Called
<1>2. InGame(w, x) /\ ~Leaving(k, x) /\ z \in Spots
  BY <1>1 DEF Went, Frame, OnTheMove, Moving
<1>3. p \in Spots
  BY <1>1, <1>2 DEF Well, InGame, Went
<1>4. \A j \in DOMAIN k : k[j].by # {} /\ k[j].do \in Moves =>
        k[j].of # x /\ w[k[j].of].at = z /\ z \notin Protected
  BY <1>1 DEF Went, Frame, GoesTo
<1>5. ASSUME NEW c PROVE Leaving(q, c) <=> Leaving(k, c)
  <2>1. ASSUME Leaving(k, c) PROVE Leaving(q, c)
    BY <2>1, StillLeaving DEF Went
  <2>2. ASSUME Leaving(q, c) PROVE Leaving(k, c)
    <3>1. Pushed(k, q, 1, x) /\ q[1].do = "move" /\ 1 .. 1 = {1}
      BY DEF Went
    <3>2. \/ Leaving(k, c)
          \/ \E i \in 1 .. 1 : q[i].do \in {"remove", "removed"} /\ c \in q[i].by
      BY <2>2, <3>1, PushedLeaving
    <3> QED BY <3>1, <3>2
  <2> QED BY <2>1, <2>2
<1> QED BY <1>1, <1>2, <1>3, <1>4, <1>5

\* Nothing but its place changes,
LEMMA WentWorld ==
  ASSUME NEW w, NEW k, NEW x, NEW v, NEW q, NEW p, NEW z, Went(w, k, x, v, q, p, z)
  PROVE  /\ Well(v) /\ v \in Worlds /\ v[x].at = z
         /\ \A c \in Creature :
              /\ v[c].life = w[c].life /\ v[c].alive = w[c].alive /\ v[c].master = w[c].master
              /\ v[c].wild = w[c].wild /\ v[c].targets = w[c].targets /\ v[c].idle = w[c].idle
              /\ v[c].near = w[c].near /\ v[c].target = w[c].target /\ v[c].follow = w[c].follow
              /\ InGame(v, c) = InGame(w, c) /\ (Here(w, c) => Here(v, c))
              /\ c # x => v[c].at = w[c].at /\ \A a : Sees(v, c, a) = Sees(w, c, a)
              /\ Summons(v, c) = Summons(w, c)
<1>1. Well(w) /\ w \in Worlds /\ x \in Creature /\ z \in Spots /\ InGame(w, x)
  BY WentIs
<1>2. v = [w EXCEPT ![x].at = z]
  BY DEF Went
<1>3. v \in Worlds /\ v[x].at = z
  BY <1>1, <1>2 DEF Worlds, Objects
<1>4. ASSUME NEW c \in Creature
      PROVE  /\ v[c].life = w[c].life /\ v[c].alive = w[c].alive /\ v[c].master = w[c].master
             /\ v[c].wild = w[c].wild /\ v[c].targets = w[c].targets /\ v[c].idle = w[c].idle
             /\ v[c].near = w[c].near /\ v[c].target = w[c].target /\ v[c].follow = w[c].follow
             /\ c # x => v[c] = w[c]
  BY <1>1, <1>2 DEF Worlds, Objects
<1>5. \A c \in Creature : InGame(v, c) = InGame(w, c) /\ (Here(w, c) => Here(v, c))
  BY <1>4 DEF InGame, Here
<1>6. \A c \in Creature : c # x => v[c].at = w[c].at /\ \A a : Sees(v, c, a) = Sees(w, c, a)
  BY <1>4 DEF Sees
<1>7. \A c \in Creature : Summons(v, c) = Summons(w, c)
  BY <1>4 DEF Summons, Creature
<1>8. \A c \in Creature : IF v[c].life = "none" THEN v[c] = Nobody ELSE v[c].at \in Spots
  <2>1. \A c \in Creature : c # x => IF v[c].life = "none" THEN v[c] = Nobody ELSE v[c].at \in Spots
    BY <1>1, <1>4 DEF Well
  <2>2. v[x].life = "game"
    BY <1>1, <1>4 DEF InGame
  <2> QED BY <2>1, <2>2, <1>1, <1>3
<1>9. \A m \in Creature : v[m].master # NULL => InGame(v, m)
  BY <1>1, <1>4, <1>5 DEF Well
<1>10. Well(v)
  BY <1>3, <1>8, <1>9 DEF Well
<1> QED BY <1>3, <1>4, <1>5, <1>6, <1>7, <1>10

\* Who sees either place is told, and so is x.
LEMMA WentTold ==
  ASSUME NEW w, NEW k, NEW x, NEW v, NEW q, NEW p, NEW z, Went(w, k, x, v, q, p, z),
         NEW c \in Creature, InGame(w, c)
  PROVE  /\ Sees(w, c, p) \/ Sees(w, c, z) \/ c = x => c \in q[1].by
         /\ w[c].at = z => Sees(w, c, z)
<1>1. p \in Spots /\ z \in Spots /\ p = w[x].at /\ q[1].by = Told(w, p, z)
  BY WentIs DEF Went
<1>2. \A a : Sees(w, c, a) => <<w[c].at, a>> \in Viewport
  BY TargetsAssumption DEF Sees
<1>3. \A a \in Spots : <<a, a>> \in ClientView /\ <<a, a>> \in Viewport
  BY TargetsAssumption
<1>4. w[c].at = z => Sees(w, c, z)
  BY <1>1, <1>3 DEF Sees
<1>5. Sees(w, c, p) \/ Sees(w, c, z) \/ c = x => c \in Told(w, p, z)
  BY <1>1, <1>2, <1>3 DEF Told, Spectators
<1> QED BY <1>1, <1>4, <1>5

\* the calls that are left are in order: none is about an earlier move of x,
LEMMA WentFrames ==
  ASSUME NEW w, NEW k, NEW x, NEW v, NEW q, NEW p, NEW z, Went(w, k, x, v, q, p, z)
  PROVE  Frames(v, q)
<1>1. /\ Sound(w, k) /\ Well(w) /\ w \in Worlds /\ x \in Creature /\ k[1].do \in Acts /\ x \in k[1].by
      /\ Frame(w, k, 1, x) /\ Subject(k[1]) = {x} /\ k[1].by = {x} /\ 1 \in DOMAIN k
      /\ InGame(w, x) /\ p \in Spots /\ z \in Spots
      /\ \A c : Leaving(q, c) <=> Leaving(k, c)
      /\ ~Leaving(k, x)
      /\ \A j \in DOMAIN k : k[j].by # {} /\ k[j].do \in Moves =>
           k[j].of # x /\ w[k[j].of].at = z /\ z \notin Protected
  BY WentIs
<1>2. /\ Pushed(k, q, 1, x) /\ 1 \in DOMAIN q /\ Called(w, k, x)
      /\ q[1].do = "move" /\ q[1].by = Told(w, p, z) /\ q[1].of = x /\ q[1].from = p /\ q[1].to = z
  BY DEF Went
<1>3. /\ v[x].at = z
      /\ \A c \in Creature :
           /\ v[c].wild = w[c].wild
           /\ InGame(v, c) = InGame(w, c) /\ (Here(w, c) => Here(v, c))
           /\ c # x => v[c].at = w[c].at
           /\ Summons(v, c) = Summons(w, c)
  BY WentWorld
<1>4. Subject(q[1]) = {x}
  BY <1>2 DEF Subject, Acts
<1>5. ASSUME NEW y \in q[1].by PROVE Frame(v, q, 1, y)
  <2>1. y \in Creature /\ Here(w, y)
    BY <1>2, <1>5 DEF Told, Spectators, InGame, Here
  <2>2. Addressed(v, q[1], y)
    BY <2>1, <1>1, <1>2, <1>3 DEF Addressed, Acts
  <2>3. OnTheMove(v, q, q[1])
    BY <1>1, <1>2, <1>3, <1>4 DEF OnTheMove
  <2>4. GoesTo(v, q, 1, y) /\ Forgets(v, q, 1, y) /\ Withdraws(q, 1)
    BY <1>2 DEF GoesTo, Forgets, Withdraws
  <2>5. MasterLast(v, q, 1)
    <3>1. SUFFICES ASSUME Summons(w, x) # {}, NEW j \in DOMAIN q, j > 1, q[j].by # {}
                   PROVE  Subject(q[j]) = {x}
      BY <1>1, <1>3, <1>4 DEF MasterLast
    <3>2. CASE j = 1 + 1
      <4>1. q[1 + 1].by = k[1].by \ {x}
        BY <1>1, <1>2, PushedTo
      <4> QED BY <4>1, <3>1, <3>2, <1>1
    <3> QED BY <3>1, <3>2, <1>1, <1>2, TailSubject
  <2> QED BY <2>2, <2>3, <2>4, <2>5 DEF Frame
<1>6. ASSUME NEW j \in DOMAIN k, NEW y \in q[1 + j].by PROVE Frame(v, q, 1 + j, y)
  <2>1. q[1 + j].by \subseteq k[j].by /\ (j = 1 => q[1 + j].by = k[j].by \ {x})
    BY <1>2, PushedTo
  <2>2. j # 1 /\ y \in k[j].by
    BY <2>1, <1>1, <1>6
  <2>3. Frame(w, k, j, y)
    BY <2>2, <1>1 DEF Sound, Frames
  <2>4. ASSUME k[j].do \in Moving \ {"go"}
        PROVE  /\ InGame(v, k[j].of) /\ ~Leaving(q, k[j].of)
               /\ k[j].do \in Moves => v[k[j].of].at = w[k[j].of].at
    <3>1. k[j].do \in Notices /\ k[j].do \in Moving /\ k[j].do \notin Acts
      BY <2>4, Kinds
    <3>2. Subject(k[j]) = {k[j].of} /\ k[j].of \in Creature
      BY <3>1, <2>3 DEF Subject, Frame, Addressed
    <3>3. InGame(w, k[j].of) /\ ~Leaving(k, k[j].of)
      BY <3>1, <3>2, <2>3 DEF Frame, OnTheMove
    <3>4. k[j].do \in Moves => k[j].of # x
      BY <2>2, <1>1
    <3> QED BY <3>2, <3>3, <3>4, <1>1, <1>3
  <2> QED BY <2>2, <2>4, <1>1, <1>2, <1>3, TailFrames
<1>7. \A i \in 1 .. 1 : i = 1
  OBVIOUS
<1> QED BY <1>2, <1>5, <1>6, <1>7, AllFrames

\* and who lost the sight of the other is told of it,
LEMMA WentPair ==
  ASSUME NEW w, NEW k, NEW x, NEW v, NEW q, NEW p, NEW z, Went(w, k, x, v, q, p, z),
         NEW c \in Creature, InGame(w, c), NEW t \in Creature, Pair(w, k, c, t)
  PROVE  Pair(v, q, c, t)
<1>1. /\ Sound(w, k) /\ k[1].do \in Acts /\ x \in Creature
      /\ InGame(w, x) /\ \A d : Leaving(q, d) <=> Leaving(k, d)
      /\ ~Leaving(k, x)
      /\ \A j \in DOMAIN k : k[j].by # {} /\ k[j].do \in Moves =>
           k[j].of # x /\ w[k[j].of].at = z
  BY WentIs
<1>2. /\ Pushed(k, q, 1, x) /\ 1 \in DOMAIN q /\ p = w[x].at
      /\ q[1].do = "move" /\ q[1].of = x /\ q[1].from = p /\ q[1].to = z
  BY DEF Went
<1>3. /\ v[x].at = z
      /\ \A d \in Creature :
           /\ InGame(v, d) = InGame(w, d)
           /\ d # x => v[d].at = w[d].at /\ \A a : Sees(v, d, a) = Sees(w, d, a)
  BY WentWorld
<1>4. /\ Sees(w, c, p) \/ Sees(w, c, z) \/ c = x => c \in q[1].by
      /\ w[c].at = z => Sees(w, c, z)
  BY WentTold
\* A notice that was to come comes, and it is not about x.
<1>5. ASSUME NEW j \in DOMAIN k, Settles(k[j], c, t)
      PROVE  /\ \E i \in DOMAIN q : Settles(q[i], c, t) /\ q[i].from = k[j].from /\ q[i].to = k[j].to
             /\ k[j].of # x /\ w[k[j].of].at = z /\ k[j].of \in {c, t}
             /\ k[j].of = t => InGame(w, t) /\ ~Leaving(k, t)
  <2>1. c \in k[j].by /\ k[j].do \in Moves /\ k[j].of \in {c, t}
    BY <1>5 DEF Settles
  <2>2. Frame(w, k, j, c)
    BY <2>1, <1>1 DEF Sound, Frames
  <2>3. Subject(k[j]) = {k[j].of} /\ k[j].do \in Moving
    BY <2>1, Kinds DEF Subject
  <2>4. InGame(w, k[j].of) /\ ~Leaving(k, k[j].of)
    BY <2>2, <2>3 DEF Frame, OnTheMove
  <2> QED BY <2>1, <2>4, <1>1, <1>2, <1>5, ShiftsAims
<1>6. c \in q[1].by /\ x \in {c, t} => Settles(q[1], c, t)
  BY <1>2 DEF Settles, Moves
<1>7. ASSUME NEW i \in DOMAIN q, q[i].do = "removed", t \in q[i].by
      PROVE  /\ t # x /\ Leaving(k, t)
             /\ ~Sees(w, c, w[t].at) \/ WasTold(q, i, c, t)
  <2>1. Leaving(q, t)
    BY <1>7 DEF Leaving
  <2>2. i # 1 /\ 1 .. 1 = {1}
    BY <1>2, <1>7
  <2>3. PICK j \in DOMAIN k : i = 1 + j
    BY <2>2, <1>2, PushedFrom
  <2>4. k[j].do = "removed" /\ t \in k[j].by
    BY <2>3, <1>2, <1>7, PushedTo
  <2>5. ~Sees(w, c, w[t].at) \/ WasTold(k, j, c, t)
    BY <2>4 DEF Pair
  <2>6. WasTold(k, j, c, t) => WasTold(q, 1 + j, c, t)
    BY <1>1, <1>2, ShiftsAims
  <2> QED BY <2>1, <2>3, <2>5, <2>6, <1>1
<1>8. CASE c # x /\ t # x
  <2>1. v[c].at = w[c].at /\ v[t].at = w[t].at /\ InGame(v, t) = InGame(w, t)
        /\ \A a : Sees(v, c, a) = Sees(w, c, a)
    BY <1>3, <1>8
  <2>2. ~Sees(w, c, w[t].at) => \E i \in DOMAIN q : Settles(q[i], c, t)
    BY <1>5 DEF Pair
  <2>3. ~SameFloor(w[c].at, w[t].at) =>
          \E i \in DOMAIN q : Settles(q[i], c, t) /\ ~SameFloor(q[i].from, q[i].to)
    <3>1. SUFFICES ASSUME NEW j \in DOMAIN k, Settles(k[j], c, t), ~SameFloor(k[j].from, k[j].to)
                   PROVE  \E i \in DOMAIN q : Settles(q[i], c, t) /\ ~SameFloor(q[i].from, q[i].to)
      BY DEF Pair
    <3>2. PICK i \in DOMAIN q : Settles(q[i], c, t) /\ q[i].from = k[j].from /\ q[i].to = k[j].to
      BY <3>1, <1>5
    <3> QED BY <3>1, <3>2
  <2>4. ~InGame(w, t) => ~Sees(w, c, w[t].at)
    BY DEF Pair
  <2>5. \A i \in DOMAIN q : q[i].do = "removed" /\ t \in q[i].by =>
          ~Sees(w, c, w[t].at) \/ WasTold(q, i, c, t)
    BY <1>7
  <2> QED BY <2>1, <2>2, <2>3, <2>4, <2>5 DEF Pair
<1>9. CASE c = x /\ t # x
  <2>1. v[c].at = z /\ w[c].at = p /\ v[t].at = w[t].at /\ InGame(v, t) = InGame(w, t)
    BY <1>2, <1>3, <1>9
  <2>2. Settles(q[1], c, t)
    BY <1>4, <1>6, <1>9
  <2>3. ~Sees(w, c, w[t].at) => InGame(w, t) /\ ~Leaving(k, t)
    <3>1. SUFFICES ASSUME NEW j \in DOMAIN k, Settles(k[j], c, t) PROVE InGame(w, t) /\ ~Leaving(k, t)
      BY DEF Pair
    <3>2. k[j].of = t
      BY <3>1, <1>5, <1>9
    <3> QED BY <3>1, <3>2, <1>5
  <2>4. InGame(w, t)
    BY <2>3 DEF Pair
  <2>5. ASSUME ~SameFloor(z, w[t].at)
        PROVE  \E i \in DOMAIN q : Settles(q[i], c, t) /\ ~SameFloor(q[i].from, q[i].to)
    <3>1. CASE SameFloor(p, z)
      <4>1. ~SameFloor(w[c].at, w[t].at)
        BY <3>1, <2>1, <2>5 DEF SameFloor
      <4>2. PICK j \in DOMAIN k : Settles(k[j], c, t) /\ ~SameFloor(k[j].from, k[j].to)
        BY <4>1 DEF Pair
      <4>3. PICK i \in DOMAIN q : Settles(q[i], c, t) /\ q[i].from = k[j].from /\ q[i].to = k[j].to
        BY <4>2, <1>5
      <4> QED BY <4>2, <4>3
    <3>2. CASE ~SameFloor(p, z)
      BY <3>2, <2>2, <1>2
    <3> QED BY <3>1, <3>2
  <2>6. ASSUME NEW i \in DOMAIN q, q[i].do = "removed", t \in q[i].by
        PROVE  WasTold(q, i, c, t)
    BY <2>3, <2>6, <1>7
  <2> QED BY <2>1, <2>2, <2>4, <2>5, <2>6, <1>2 DEF Pair
<1>10. CASE c # x /\ t = x
  <2>1. v[c].at = w[c].at /\ v[t].at = z /\ w[t].at = p /\ InGame(v, t)
        /\ \A a : Sees(v, c, a) = Sees(w, c, a)
    BY <1>1, <1>2, <1>3, <1>10
  <2>2. c \in q[1].by \/ w[c].at = z
    <3>1. ASSUME ~Sees(w, c, p) PROVE w[c].at = z
      <4>1. PICK j \in DOMAIN k : Settles(k[j], c, t)
        BY <3>1, <2>1 DEF Pair
      <4> QED BY <4>1, <1>5, <1>10
    <3> QED BY <3>1, <1>4
  <2>3. ~Sees(w, c, z) => Settles(q[1], c, t)
    BY <2>2, <1>4, <1>6, <1>10
  <2>4. ASSUME ~SameFloor(w[c].at, z)
        PROVE  \E i \in DOMAIN q : Settles(q[i], c, t) /\ ~SameFloor(q[i].from, q[i].to)
    <3>1. CASE SameFloor(p, z)
      <4>1. ~SameFloor(w[c].at, w[t].at)
        BY <3>1, <2>1, <2>4 DEF SameFloor
      <4>2. PICK j \in DOMAIN k : Settles(k[j], c, t) /\ ~SameFloor(k[j].from, k[j].to)
        BY <4>1 DEF Pair
      <4>3. PICK i \in DOMAIN q : Settles(q[i], c, t) /\ q[i].from = k[j].from /\ q[i].to = k[j].to
        BY <4>2, <1>5
      <4> QED BY <4>2, <4>3
    <3>2. CASE ~SameFloor(p, z)
      <4>1. w[c].at # z
        BY <2>4 DEF SameFloor
      <4>2. Settles(q[1], c, t)
        BY <4>1, <2>2, <1>6, <1>10
      <4> QED BY <3>2, <4>2, <1>2
    <3> QED BY <3>1, <3>2
  <2>5. \A i \in DOMAIN q : q[i].do = "removed" => t \notin q[i].by
    BY <1>7, <1>10
  <2> QED BY <2>1, <2>3, <2>4, <2>5, <1>2 DEF Pair
<1>11. CASE c = x /\ t = x
  <2>1. v[c].at = z /\ v[t].at = z /\ InGame(v, t)
    BY <1>1, <1>3, <1>11
  <2>2. Sees(v, c, z)
    BY <2>1, TargetsAssumption, WentIs DEF Sees
  <2>3. SameFloor(v[c].at, v[t].at)
    BY <2>1 DEF SameFloor
  <2>4. \A i \in DOMAIN q : q[i].do = "removed" => t \notin q[i].by
    BY <1>7, <1>11
  <2> QED BY <2>1, <2>2, <2>3, <2>4 DEF Pair
<1> QED BY <1>8, <1>9, <1>10, <1>11

\* or of the other zone.
LEMMA WentZone ==
  ASSUME NEW w, NEW k, NEW x, NEW v, NEW q, NEW p, NEW z, Went(w, k, x, v, q, p, z),
         NEW c \in Creature, InGame(w, c), NEW t \in Creature, Pair(w, k, c, t), Zone(w, k, c, t)
  PROVE  Zone(v, q, c, t)
<1>1. /\ Sound(w, k) /\ k[1].do \in Acts /\ x \in Creature
      /\ \A j \in DOMAIN k : k[j].by # {} /\ k[j].do \in Moves =>
           k[j].of # x /\ w[k[j].of].at = z /\ z \notin Protected
  BY WentIs
<1>2. /\ Pushed(k, q, 1, x) /\ 1 \in DOMAIN q /\ p = w[x].at
      /\ q[1].do = "move" /\ q[1].of = x /\ q[1].from = p /\ q[1].to = z
  BY DEF Went
<1>3. v[x].at = z /\ \A d \in Creature : d # x => v[d].at = w[d].at
  BY WentWorld
<1>4. Sees(w, c, p) => c \in q[1].by
  BY WentTold
<1>5. CASE t # x
  BY <1>1, <1>2, <1>3, <1>5, ShiftsAims DEF Zone
<1>6. CASE t = x
  <2>1. SUFFICES ASSUME z \in Protected PROVE Spares(q[1], c, t)
    BY <1>2, <1>3, <1>6 DEF Zone
  <2>2. p \notin Protected
    <3>1. SUFFICES ASSUME NEW j \in DOMAIN k, Spares(k[j], c, t) PROVE FALSE
      BY <1>2, <1>6 DEF Zone
    <3> QED BY <3>1, <1>1, <1>6 DEF Spares
  <2>3. Sees(w, c, p)
    <3>1. SUFFICES ASSUME NEW j \in DOMAIN k, Settles(k[j], c, t) PROVE FALSE
      BY <1>2, <1>6 DEF Pair
    <3> QED BY <3>1, <2>1, <1>1 DEF Settles
  <2> QED BY <2>1, <2>2, <2>3, <1>2, <1>4, <1>6 DEF Spares, Moves, OtherZone
<1> QED BY <1>5, <1>6

\* Who comes into the sight of a monster, or it into his, is told of too.
LEMMA WentAwake ==
  ASSUME NEW w, NEW k, NEW x, NEW v, NEW q, NEW p, NEW z, Went(w, k, x, v, q, p, z),
         NEW m \in Monsters, InGame(w, m)
  PROVE  AwakeOf(v, q, m)
<1>1. /\ Sound(w, k) /\ Well(w) /\ w \in Worlds /\ k[1].do \in Acts /\ x \in Creature
      /\ \A d : Leaving(q, d) <=> Leaving(k, d)
      /\ \A j \in DOMAIN k : k[j].by # {} /\ k[j].do \in Moves => k[j].of # x
  BY WentIs
<1>2. /\ Pushed(k, q, 1, x) /\ 1 \in DOMAIN q /\ p = w[x].at
      /\ q[1].do = "move" /\ q[1].of = x /\ q[1].from = p /\ q[1].to = z
  BY DEF Went
<1>3. v[x].at = z
  BY WentWorld
<1>4. /\ m \in Creature /\ Players \subseteq Creature /\ \A a \in Players : a # m
  BY TargetsAssumption DEF Creature
<1>5. /\ v[m].alive = w[m].alive /\ v[m].master = w[m].master /\ v[m].wild = w[m].wild
      /\ v[m].targets = w[m].targets /\ v[m].idle = w[m].idle /\ v[m].near = w[m].near
      /\ m # x => v[m].at = w[m].at /\ \A a : Sees(v, m, a) = Sees(w, m, a)
  BY <1>4, WentWorld
<1>6. \A d \in Players : InGame(v, d) = InGame(w, d) /\ (d # x => v[d].at = w[d].at)
  BY <1>4, WentWorld
<1>7. Sees(w, m, p) \/ Sees(w, m, z) \/ m = x => m \in q[1].by
  BY <1>4, WentTold
<1>8. AwakeOf(w, k, m)
  BY <1>1 DEF Sound, Awake
<1>9. Alert(v, m)
  BY <1>5, <1>8 DEF AwakeOf, Alert
<1>10. ASSUME NEW j \in DOMAIN k, NEW a, Tells(w, k[j], m, a), m # x
       PROVE  \E i \in DOMAIN q : Tells(v, q[i], m, a)
  <2>1. k[j].do \notin Acts
    BY <1>10, Kinds DEF Tells
  <2>2. /\ 1 + j \in DOMAIN q /\ q[1 + j].do = k[j].do /\ q[1 + j].of = k[j].of
        /\ q[1 + j].from = k[j].from /\ q[1 + j].by = k[j].by
    BY <2>1, <1>1, <1>2, Shifts
  <2>3. Tells(v, q[1 + j], m, a)
    BY <2>2, <1>5, <1>10 DEF Tells
  <2> QED BY <2>2, <2>3
<1>11. ASSUME ~Leaving(q, m), w[m].wild, NEW a \in Players, InGame(w, a), ~Leaving(q, a),
              Sees(v, m, v[a].at)
       PROVE  Known(v, q, m, a)
  <2>1. /\ Leaving(q, m) <=> Leaving(k, m)
        /\ Leaving(q, a) <=> Leaving(k, a)
    BY <1>1
  <2>2. Sees(w, m, w[a].at) => Known(w, k, m, a)
    BY <2>1, <1>8, <1>11 DEF AwakeOf, Watches
  <2>3. CASE m = x
    <3>1. Tells(v, q[1], m, a)
      BY <2>3, <1>2, <1>7 DEF Tells, Moves
    <3> QED BY <3>1, <1>2 DEF Known
  <2>4. CASE m # x /\ Known(w, k, m, a)
    <3>1. CASE a \in w[m].targets
      BY <3>1, <1>5 DEF Known
    <3>2. CASE \E j \in DOMAIN k : Tells(w, k[j], m, a)
      BY <3>2, <2>4, <1>10 DEF Known
    <3> QED BY <2>4, <3>1, <3>2 DEF Known
  <2>5. CASE m # x /\ ~Known(w, k, m, a)
    <3>1. a = x
      BY <2>2, <2>5, <1>5, <1>6, <1>11
    <3>2. Sees(w, m, z) /\ ~Sees(w, m, p)
      BY <3>1, <2>2, <2>5, <1>2, <1>3, <1>5, <1>11
    <3>3. Tells(v, q[1], m, a)
      BY <3>1, <3>2, <2>5, <1>2, <1>5, <1>7 DEF Tells, Moves
    <3> QED BY <3>3, <1>2 DEF Known
  <2> QED BY <2>3, <2>4, <2>5
<1>12. Watches(v, q, m)
  <2>1. ASSUME ~Leaving(q, m), w[m].wild PROVE Rests(v, m)
    <3>1. Leaving(q, m) <=> Leaving(k, m)
      BY <1>1
    <3>2. Rests(w, m)
      BY <3>1, <2>1, <1>8 DEF AwakeOf, Watches
    <3> QED BY <3>2, <1>5 DEF Rests
  <2> QED BY <2>1, <1>5, <1>6, <1>11 DEF Watches
<1>13. Serves(v, q, m)
  <2>1. SUFFICES ASSUME ~Leaving(q, m), w[m].master \in Players, ~Leaving(q, w[m].master),
                        Sees(v, m, v[w[m].master].at)
                 PROVE  Served(v, q, m)
    BY <1>5 DEF Serves
  <2>2. CASE m = x
    <3>1. Wakes(v, q[1], m)
      BY <2>2, <1>2, <1>7 DEF Wakes, Moves
    <3> QED BY <3>1, <1>2 DEF Served
  <2>3. CASE w[m].master = x /\ m # x
    <3>1. Sees(w, m, z)
      BY <2>1, <2>3, <1>3, <1>5
    <3>2. Wakes(v, q[1], m)
      BY <3>1, <2>3, <1>2, <1>5, <1>7 DEF Wakes, Moves
    <3> QED BY <3>2, <1>2 DEF Served
  <2>4. CASE m # x /\ w[m].master # x
    <3>1. Sees(w, m, w[w[m].master].at)
      BY <2>1, <2>4, <1>5, <1>6
    <3>2. /\ Leaving(q, m) <=> Leaving(k, m)
          /\ Leaving(q, w[m].master) <=> Leaving(k, w[m].master)
      BY <1>1
    <3>3. Served(w, k, m)
      BY <3>1, <3>2, <2>1, <1>8 DEF AwakeOf, Serves
    <3>4. CASE w[m].near /\ ~w[m].idle
      BY <3>4, <1>5 DEF Served
    <3>5. CASE \E j \in DOMAIN k : Wakes(w, k[j], m)
      <4>1. PICK j \in DOMAIN k : Wakes(w, k[j], m)
        BY <3>5
      <4>2. k[j].do \notin Acts
        BY <4>1, Kinds DEF Wakes
      <4>3. /\ 1 + j \in DOMAIN q /\ q[1 + j].do = k[j].do /\ q[1 + j].of = k[j].of
            /\ q[1 + j].by = k[j].by
        BY <4>2, <1>1, <1>2, Shifts
      <4>4. Wakes(v, q[1 + j], m)
        BY <4>1, <4>3, <1>5 DEF Wakes
      <4> QED BY <4>3, <4>4 DEF Served
    <3> QED BY <3>3, <3>4, <3>5 DEF Served
  <2> QED BY <2>2, <2>3, <2>4
<1> QED BY <1>9, <1>12, <1>13 DEF AwakeOf

\* So Tile::moveCreature leaves a sound world,
LEMMA WentSound ==
  ASSUME NEW w, NEW k, NEW x, NEW v, NEW q, NEW p, NEW z, Went(w, k, x, v, q, p, z)
  PROVE  Sound(v, q)
<1>1. Sound(w, k) /\ \A c : Leaving(q, c) <=> Leaving(k, c)
  BY WentIs
<1>2. /\ Well(v) /\ v \in Worlds
      /\ \A c \in Creature :
           /\ v[c].master = w[c].master /\ v[c].wild = w[c].wild
           /\ v[c].target = w[c].target /\ v[c].follow = w[c].follow
           /\ InGame(v, c) = InGame(w, c) /\ (Here(w, c) => Here(v, c))
  BY WentWorld
<1>3. q \in Seq(AllCalls)
  BY DEF Went, Pushed
<1>4. Family(v, q)
  <2>1. ASSUME NEW m \in Creature, v[m].master # NULL
        PROVE  /\ m \in Monsters /\ InGame(v, m) /\ ~v[m].wild /\ v[m].master # m
               /\ v[m].master \in Creature /\ Here(v, v[m].master)
               /\ InGame(v, v[m].master) \/ Leaving(q, m)
               /\ \A c \in Creature : v[c].master # NULL => c = m
    <3>1. w[m].master # NULL /\ v[m].master = w[m].master
      BY <1>2, <2>1
    <3>2. /\ m \in Monsters /\ InGame(w, m) /\ ~w[m].wild /\ w[m].master # m
          /\ w[m].master \in Creature /\ Here(w, w[m].master)
          /\ InGame(w, w[m].master) \/ Leaving(k, m)
          /\ \A c \in Creature : w[c].master # NULL => c = m
      BY <3>1, <1>1 DEF Sound, Family
    <3> QED BY <3>1, <3>2, <1>1, <1>2
  <2> QED BY <2>1 DEF Family
<1>5. ASSUME NEW c \in Creature, InGame(w, c) PROVE AimsOf(v, q, c)
  <2>1. AimsOf(w, k, c)
    BY <1>1, <1>5 DEF Sound, Aims
  <2>2. \A t \in {v[c].target, v[c].follow} \ {NULL} : t \in Creature
    BY <1>2 DEF Worlds, Objects
  <2>3. v[c].target = w[c].target /\ v[c].follow = w[c].follow
    BY <1>2
  <2>4. ASSUME NEW t \in {v[c].target, v[c].follow} \ {NULL} PROVE Pair(w, k, c, t) /\ Pair(v, q, c, t)
    BY <2>1, <2>2, <2>3, <1>5, WentPair DEF AimsOf
  <2>5. ASSUME v[c].target # NULL PROVE Zone(v, q, c, v[c].target)
    <3>1. Zone(w, k, c, v[c].target) /\ v[c].target \in Creature
      BY <2>1, <2>2, <2>3, <2>5 DEF AimsOf
    <3> QED BY <3>1, <2>4, <2>5, <1>5, WentZone
  <2> QED BY <2>4, <2>5 DEF AimsOf
<1>6. Aims(v, q)
  BY <1>2, <1>5 DEF Aims
<1>7. Awake(v, q)
  BY <1>2, WentAwake DEF Awake, Creature
<1> QED BY <1>2, <1>3, <1>4, <1>6, <1>7, WentFrames DEF Sound

\* as a call.
LEMMA GoSound ==
  ASSUME NEW w, NEW k, NEW x, Called(w, k, x), k[1].do = "go"
  PROVE  Answers(Go(w, x, k[1].to), k, x)
<1> DEFINE p == w[x].at
           z == k[1].to
           M == Call("move", Told(w, p, z), x, p, z)
           v == [w EXCEPT ![x].at = z]
           q == <<M>> \o Rest(k, x)
           r == Go(w, x, z)
<1>1. r.world = v /\ r.calls = <<M>>
  BY DEF Go, Then
<1>2. k[1].do \in Acts /\ k[1].do \in Moving /\ "move" \in Notices
  BY DEF Acts, Moving, Notices
<1>3. Well(w) /\ x \in Creature /\ Frame(w, k, 1, x) /\ Subject(k[1]) = {x} /\ k \in Seq(AllCalls) /\ k # <<>>
  BY <1>2, CalledIs DEF Called
<1>4. z \in Spots /\ InGame(w, x)
  BY <1>2, <1>3 DEF Frame, OnTheMove
<1>5. p \in Spots
  BY <1>3, <1>4 DEF Well, InGame
<1>6. Told(w, p, z) \in SUBSET Creature
  BY DEF Told, Spectators
<1>7. /\ M \in AllCalls /\ M.do = "move" /\ M.by = Told(w, p, z) /\ M.of = x
      /\ M.from = p /\ M.to = z
  BY <1>2, <1>3, <1>4, <1>5, <1>6 DEF Call, AllCalls
<1> HIDE DEF M
<1>8. <<M>> \in Seq(AllCalls) /\ Len(<<M>>) = 1 /\ <<M>>[1] = M
  BY <1>7, FewCalls
<1>9. Pushed(k, q, 1, x) /\ q[1] = M
  <2> DEFINE new == <<M>>
  <2>1. new \in Seq(AllCalls) /\ Len(new) = 1 /\ new[1] = M
    BY <1>8
  <2>2. q = new \o Rest(k, x)
    OBVIOUS
  <2> HIDE DEF new, q
  <2>3. Pushed(k, q, Len(new), x)
    BY <2>1, <2>2, <1>3, PushedIs
  <2>4. \A i \in 1 .. Len(new) : (new \o Rest(k, x))[i] = new[i]
    BY <2>1, <1>3, PushedIs
  <2> QED BY <2>1, <2>2, <2>3, <2>4
<1>10. 1 \in DOMAIN q
  <2>1. DOMAIN q = 1 .. 1 + Len(k) /\ Len(k) \in Nat
    BY <1>9, LenProperties DEF Pushed
  <2> QED BY <2>1
<1> HIDE DEF q
<1>11. Went(w, k, x, v, q, p, z)
  BY <1>7, <1>9, <1>10 DEF Went
<1>12. Sound(v, q)
  BY <1>11, WentSound
<1> QED BY <1>1, <1>12 DEF Answers, q

\* What is known when x is removed, and its summons are to be removed too.
Gone(w, k, x, v, q, lost) ==
  /\ Called(w, k, x) /\ k[1].do = "removed"
  /\ lost = {m \in Summons(w, x) : InGame(w, m)}
  /\ v = [w EXCEPT ![x] = [Nobody EXCEPT !.life = "removed", !.alive = w[x].alive,
                                         !.at = w[x].at, !.targets = w[x].targets]]
  /\ Pushed(k, q, 1, x) /\ 1 \in DOMAIN q /\ q[1].do = "remove" /\ q[1].by = lost

\* What is known when x is removed.
LEMMA GoneIs ==
  ASSUME NEW w, NEW k, NEW x, NEW v, NEW q, NEW lost, Gone(w, k, x, v, q, lost)
  PROVE  /\ Sound(w, k) /\ Well(w) /\ w \in Worlds /\ x \in Creature /\ k[1].do \in Acts /\ x \in k[1].by
         /\ Here(w, x) /\ Frame(w, k, 1, x) /\ Subject(k[1]) = {x} /\ k[1].by = {x} /\ 1 \in DOMAIN k
         /\ Leaving(k, x)
         /\ \A c : c # x /\ Leaving(k, c) => Leaving(q, c)
         /\ \A c : Leaving(q, c) => Leaving(k, c) \/ c \in lost
         /\ \A m \in lost : /\ lost = {m} /\ m # x /\ InGame(w, m) /\ Summons(w, m) = {}
                            /\ m \in Creature /\ Leaving(q, m)
         /\ lost \subseteq Summons(w, x)
<1>1. /\ Sound(w, k) /\ Well(w) /\ w \in Worlds /\ x \in Creature /\ k[1].do \in Acts /\ x \in k[1].by
      /\ Here(w, x) /\ Frame(w, k, 1, x) /\ Subject(k[1]) = {x} /\ k[1].by = {x} /\ 1 \in DOMAIN k
  BY CalledIs, Kinds DEF Gone, Called
<1>2. Leaving(k, x)
  BY <1>1 DEF Leaving, Gone
<1>3. /\ Pushed(k, q, 1, x) /\ 1 \in DOMAIN q /\ q[1].do = "remove" /\ q[1].by = lost /\ 1 .. 1 = {1}
  BY DEF Gone
<1>4. \A c : c # x /\ Leaving(k, c) => Leaving(q, c)
  BY <1>3, StillLeaving
<1>5. \A c : Leaving(q, c) => Leaving(k, c) \/ c \in lost
  BY <1>3, PushedLeaving
<1>6. lost \subseteq Summons(w, x)
  BY DEF Gone
<1>7. Family(w, k)
  BY <1>1 DEF Sound
<1>8. \A m \in lost : /\ lost = {m} /\ m # x /\ InGame(w, m) /\ Summons(w, m) = {}
                      /\ m \in Creature
  BY <1>1, <1>6, <1>7, OneSummon
<1>9. \A m \in lost : Leaving(q, m)
  BY <1>3 DEF Leaving
<1> QED BY <1>1, <1>2, <1>4, <1>5, <1>6, <1>8, <1>9

\* Nobody else changes,
LEMMA GoneWorld ==
  ASSUME NEW w, NEW k, NEW x, NEW v, NEW q, NEW lost, Gone(w, k, x, v, q, lost)
  PROVE  /\ Well(v) /\ v \in Worlds /\ ~InGame(v, x) /\ v[x].master = NULL
         /\ \A c \in Creature :
              /\ c # x => v[c] = w[c]
              /\ v[c].at = w[c].at /\ (Here(w, c) => Here(v, c))
              /\ InGame(v, c) => c # x /\ InGame(w, c)
              /\ c # x => InGame(v, c) = InGame(w, c)
              /\ \A a : Sees(v, c, a) = Sees(w, c, a)
              /\ Summons(v, c) \subseteq Summons(w, c)
<1>1. Well(w) /\ w \in Worlds /\ x \in Creature /\ Here(w, x)
  BY GoneIs
<1> DEFINE o == [Nobody EXCEPT !.life = "removed", !.alive = w[x].alive,
                               !.at = w[x].at, !.targets = w[x].targets]
<1>2. v = [w EXCEPT ![x] = o]
  BY DEF Gone
<1>3. w[x] \in Objects
  BY <1>1 DEF Worlds
<1>4. o \in Objects /\ o.life = "removed" /\ o.at = w[x].at /\ o.master = NULL
  BY <1>3, NobodyTyped DEF Nobody, Objects
<1> HIDE DEF o
<1>5. v \in Worlds /\ v[x] = o /\ \A c \in Creature : c # x => v[c] = w[c]
  BY <1>1, <1>2, <1>4 DEF Worlds
<1>6. ~InGame(v, x) /\ v[x].master = NULL
  BY <1>4, <1>5 DEF InGame
<1>7. \A c \in Creature : v[c].at = w[c].at /\ (Here(w, c) => Here(v, c))
  BY <1>1, <1>4, <1>5 DEF Here
<1>8. \A c \in Creature : /\ InGame(v, c) => c # x /\ InGame(w, c)
                          /\ c # x => InGame(v, c) = InGame(w, c)
  BY <1>5, <1>6 DEF InGame
<1>9. \A c \in Creature : \A a : Sees(v, c, a) = Sees(w, c, a)
  BY <1>7 DEF Sees
<1>10. \A c \in Creature : Summons(v, c) \subseteq Summons(w, c)
  BY <1>5, <1>6, Apart DEF Summons, Creature
<1>11. \A c \in Creature : IF v[c].life = "none" THEN v[c] = Nobody ELSE v[c].at \in Spots
  <2>1. \A c \in Creature : c # x => IF v[c].life = "none" THEN v[c] = Nobody ELSE v[c].at \in Spots
    BY <1>1, <1>5 DEF Well
  <2>2. v[x].at \in Spots /\ v[x].life = "removed"
    BY <1>1, <1>4, <1>5 DEF Well, Here
  <2> QED BY <2>1, <2>2
<1>12. \A m \in Creature : v[m].master # NULL => InGame(v, m)
  BY <1>1, <1>5, <1>6, <1>8 DEF Well
<1>13. Well(v)
  BY <1>5, <1>11, <1>12 DEF Well
<1> QED BY <1>5, <1>6, <1>7, <1>8, <1>9, <1>10, <1>13

\* the summon of x is to be removed,
LEMMA GoneFamily ==
  ASSUME NEW w, NEW k, NEW x, NEW v, NEW q, NEW lost, Gone(w, k, x, v, q, lost)
  PROVE  Family(v, q)
<1>1. /\ Sound(w, k) /\ x \in Creature
      /\ \A c : c # x /\ Leaving(k, c) => Leaving(q, c)
      /\ \A m \in lost : Leaving(q, m)
  BY GoneIs
<1>2. /\ v[x].master = NULL
      /\ \A c \in Creature :
           /\ c # x => v[c] = w[c]
           /\ Here(w, c) => Here(v, c)
           /\ c # x => InGame(v, c) = InGame(w, c)
  BY GoneWorld
<1>3. ASSUME NEW m \in Creature, v[m].master # NULL
      PROVE  /\ m \in Monsters /\ InGame(v, m) /\ ~v[m].wild /\ v[m].master # m
             /\ v[m].master \in Creature /\ Here(v, v[m].master)
             /\ InGame(v, v[m].master) \/ Leaving(q, m)
             /\ \A c \in Creature : v[c].master # NULL => c = m
  <2>1. m # x /\ v[m] = w[m] /\ w[m].master # NULL
    BY <1>2, <1>3
  <2>2. /\ m \in Monsters /\ InGame(w, m) /\ ~w[m].wild /\ w[m].master # m
        /\ w[m].master \in Creature /\ Here(w, w[m].master)
        /\ InGame(w, w[m].master) \/ Leaving(k, m)
        /\ \A c \in Creature : w[c].master # NULL => c = m
    BY <2>1, <1>1 DEF Sound, Family
  <2>3. \A c \in Creature : v[c].master # NULL => c = m
    BY <2>2, <1>2
  <2>4. InGame(v, v[m].master) \/ Leaving(q, m)
    <3>1. CASE w[m].master = x
      <4>1. m \in lost
        BY <3>1, <2>2 DEF Gone, Summons
      <4> QED BY <4>1, <1>1
    <3>2. CASE w[m].master # x
      BY <3>2, <2>1, <2>2, <1>1, <1>2
    <3> QED BY <3>1, <3>2
  <2> QED BY <2>1, <2>2, <2>3, <2>4, <1>2
<1> QED BY <1>3 DEF Family

\* no call that is left is about x or made to x,
LEMMA GoneFrames ==
  ASSUME NEW w, NEW k, NEW x, NEW v, NEW q, NEW lost, Gone(w, k, x, v, q, lost)
  PROVE  Frames(v, q)
<1>1. /\ Sound(w, k) /\ x \in Creature /\ x \in k[1].by
      /\ Frame(w, k, 1, x) /\ Subject(k[1]) = {x} /\ k[1].by = {x} /\ 1 \in DOMAIN k
      /\ Leaving(k, x)
      /\ \A c : Leaving(q, c) => Leaving(k, c) \/ c \in lost
      /\ \A m \in lost : lost = {m} /\ m # x /\ InGame(w, m) /\ Summons(w, m) = {} /\ m \in Creature
      /\ lost \subseteq Summons(w, x)
  BY GoneIs
<1>2. /\ Pushed(k, q, 1, x) /\ 1 \in DOMAIN q /\ q[1].do = "remove" /\ q[1].by = lost /\ 1 .. 1 = {1}
  BY DEF Gone
<1>3. \A c \in Creature :
        /\ c # x => v[c] = w[c]
        /\ v[c].at = w[c].at /\ (Here(w, c) => Here(v, c))
        /\ InGame(v, c) => c # x /\ InGame(w, c)
        /\ c # x => InGame(v, c) = InGame(w, c)
        /\ Summons(v, c) \subseteq Summons(w, c)
  BY GoneWorld
<1>4. ASSUME NEW y \in q[1].by PROVE Frame(v, q, 1, y)
  <2>1. lost = {y} /\ InGame(w, y) /\ Summons(w, y) = {} /\ y \in Creature
    BY <1>1, <1>2, <1>4
  <2>2. Addressed(v, q[1], y)
    BY <2>1, <1>2, <1>3 DEF Addressed, Notices, InGame, Here
  <2>3. OnTheMove(v, q, q[1])
    BY <1>2 DEF OnTheMove, Moving, Moves
  <2>4. GoesTo(v, q, 1, y) /\ Forgets(v, q, 1, y) /\ Withdraws(q, 1)
    BY <1>2 DEF GoesTo, Forgets, Withdraws
  <2>5. MasterLast(v, q, 1)
    <3>1. Subject(q[1]) = {y} /\ Summons(v, y) = {}
      BY <2>1, <1>2, <1>3 DEF Subject, Acts
    <3> QED BY <3>1 DEF MasterLast
  <2> QED BY <2>2, <2>3, <2>4, <2>5 DEF Frame
<1>5. ASSUME NEW j \in DOMAIN k, NEW y \in q[1 + j].by PROVE Frame(v, q, 1 + j, y)
  <2>1. q[1 + j].by \subseteq k[j].by /\ (j = 1 => q[1 + j].by = k[j].by \ {x})
    BY <1>2, PushedTo
  <2>2. j # 1 /\ y \in k[j].by
    BY <2>1, <1>1, <1>5
  <2>3. Frame(w, k, j, y)
    BY <2>2, <1>1 DEF Sound, Frames
  <2>4. ASSUME k[j].do \in Moving \ {"go"}
        PROVE  /\ InGame(v, k[j].of) /\ ~Leaving(q, k[j].of)
               /\ k[j].do \in Moves => v[k[j].of].at = w[k[j].of].at
    <3>1. k[j].do \in Notices /\ k[j].do \in Moving /\ k[j].do \notin Acts
      BY <2>4, Kinds
    <3>2. Subject(k[j]) = {k[j].of} /\ k[j].of \in Creature
      BY <3>1, <2>3 DEF Subject, Frame, Addressed
    <3>3. InGame(w, k[j].of) /\ ~Leaving(k, k[j].of)
      BY <3>1, <3>2, <2>3 DEF Frame, OnTheMove
    <3>4. k[j].of # x
      BY <3>3, <1>1
    <3>5. lost = {}
      <4>1. ASSUME Summons(w, x) # {} PROVE FALSE
        <5>1. j > 1 /\ k[j].by # {}
          BY <2>2, <1>2, PushedDomain
        <5>2. Subject(k[j]) = {x}
          BY <4>1, <5>1, <1>1 DEF Frame, MasterLast
        <5> QED BY <5>2, <3>2, <3>4
      <4> QED BY <4>1, <1>1
    <3> QED BY <3>2, <3>3, <3>4, <3>5, <1>1, <1>3
  <2>5. \A c \in Creature : /\ Here(w, c) => Here(v, c)
                            /\ InGame(v, c) => InGame(w, c) /\ v[c].wild = w[c].wild
                            /\ Summons(v, c) \subseteq Summons(w, c)
    BY <1>3
  <2> QED BY <2>2, <2>4, <2>5, <1>1, <1>2, TailFrames
<1> QED BY <1>2, <1>4, <1>5, AllFrames

\* and nobody in the game aims at x: all who saw it were told.
LEMMA GonePair ==
  ASSUME NEW w, NEW k, NEW x, NEW v, NEW q, NEW lost, Gone(w, k, x, v, q, lost),
         NEW c \in Creature, NEW t \in Creature
  PROVE  /\ Pair(w, k, c, t) => Pair(v, q, c, t)
         /\ Zone(w, k, c, t) => Zone(v, q, c, t)
<1>1. /\ Sound(w, k) /\ x \in Creature /\ k[1].do \in Acts /\ k[1].by = {x} /\ 1 \in DOMAIN k
  BY GoneIs
<1>2. /\ Pushed(k, q, 1, x) /\ q[1].do = "remove" /\ 1 .. 1 = {1} /\ k[1].do = "removed"
      /\ \A j \in DOMAIN k : j \in Nat /\ j > 0
  BY PushedDomain DEF Gone
<1>3. /\ v[c].at = w[c].at /\ v[t].at = w[t].at
      /\ t # x => InGame(v, t) = InGame(w, t)
      /\ \A a : Sees(v, c, a) = Sees(w, c, a)
  BY GoneWorld
<1>4. ASSUME Zone(w, k, c, t) PROVE Zone(v, q, c, t)
  BY <1>1, <1>2, <1>3, <1>4, ShiftsAims DEF Zone
<1>5. ASSUME Pair(w, k, c, t) PROVE Pair(v, q, c, t)
  <2>1. ~Sees(w, c, w[t].at) => \E i \in DOMAIN q : Settles(q[i], c, t)
    BY <1>1, <1>2, <1>5, ShiftsAims DEF Pair
  <2>2. ~SameFloor(w[c].at, w[t].at) =>
          \E i \in DOMAIN q : Settles(q[i], c, t) /\ ~SameFloor(q[i].from, q[i].to)
    <3>1. SUFFICES ASSUME NEW j \in DOMAIN k, Settles(k[j], c, t), ~SameFloor(k[j].from, k[j].to)
                   PROVE  \E i \in DOMAIN q : Settles(q[i], c, t) /\ ~SameFloor(q[i].from, q[i].to)
      BY <1>5 DEF Pair
    <3>2. PICK i \in DOMAIN q : Settles(q[i], c, t) /\ q[i].from = k[j].from /\ q[i].to = k[j].to
      BY <3>1, <1>1, <1>2, ShiftsAims
    <3> QED BY <3>1, <3>2
  <2>3. ~InGame(v, t) => ~Sees(w, c, w[t].at)
    <3>1. CASE t = x
      <4>1. ~WasTold(k, 1, c, t)
        BY <1>2 DEF WasTold
      <4> QED BY <3>1, <4>1, <1>1, <1>2, <1>5 DEF Pair
    <3>2. CASE t # x
      BY <3>2, <1>3, <1>5 DEF Pair
    <3> QED BY <3>1, <3>2
  <2>4. ASSUME NEW i \in DOMAIN q, q[i].do = "removed", t \in q[i].by
        PROVE  ~Sees(w, c, w[t].at) \/ WasTold(q, i, c, t)
    <3>1. i \notin 1 .. 1
      BY <2>4, <1>2
    <3>2. PICK j \in DOMAIN k : i = 1 + j
      BY <3>1, <1>2, PushedFrom
    <3>3. k[j].do = "removed" /\ t \in k[j].by
      BY <3>2, <2>4, <1>2, PushedTo
    <3>4. ~Sees(w, c, w[t].at) \/ WasTold(k, j, c, t)
      BY <3>3, <1>5 DEF Pair
    <3>5. WasTold(k, j, c, t) => WasTold(q, 1 + j, c, t)
      BY <1>1, <1>2, ShiftsAims
    <3> QED BY <3>2, <3>4, <3>5
  <2> QED BY <2>1, <2>2, <2>3, <2>4, <1>3 DEF Pair
<1> QED BY <1>4, <1>5

\* Who is left knows whom it sees.
LEMMA GoneAwake ==
  ASSUME NEW w, NEW k, NEW x, NEW v, NEW q, NEW lost, Gone(w, k, x, v, q, lost),
         NEW m \in Monsters, InGame(v, m)
  PROVE  AwakeOf(v, q, m)
<1>1. /\ Sound(w, k) /\ x \in Creature /\ k[1].do \in Acts
      /\ \A c : c # x /\ Leaving(k, c) => Leaving(q, c)
      /\ \A c \in lost : Leaving(q, c)
  BY GoneIs
<1>2. Pushed(k, q, 1, x)
  BY DEF Gone
<1>3. \A c \in Creature :
        /\ v[c].at = w[c].at
        /\ InGame(v, c) => c # x /\ InGame(w, c)
        /\ \A a : Sees(v, c, a) = Sees(w, c, a)
  BY GoneWorld
<1>4. m \in Creature /\ Players \subseteq Creature
  BY DEF Creature
<1>5. m # x /\ InGame(w, m)
  BY <1>3, <1>4
<1>6. v[m] = w[m]
  BY <1>4, <1>5, GoneWorld
<1>7. AwakeOf(w, k, m)
  BY <1>1, <1>5 DEF Sound, Awake
<1>8. Alert(v, m)
  BY <1>6, <1>7 DEF AwakeOf, Alert
<1>9. ASSUME NEW a, Known(w, k, m, a) PROVE Known(v, q, m, a)
  <2>1. CASE a \in w[m].targets
    BY <2>1, <1>6 DEF Known
  <2>2. CASE \E j \in DOMAIN k : Tells(w, k[j], m, a)
    <3>1. PICK j \in DOMAIN k : Tells(w, k[j], m, a)
      BY <2>2
    <3>2. k[j].do \notin Acts
      BY <3>1, Kinds DEF Tells
    <3>3. /\ 1 + j \in DOMAIN q /\ q[1 + j].do = k[j].do /\ q[1 + j].of = k[j].of
          /\ q[1 + j].from = k[j].from /\ q[1 + j].by = k[j].by
      BY <3>2, <1>1, <1>2, Shifts
    <3>4. Tells(v, q[1 + j], m, a)
      BY <3>1, <3>3, <1>3, <1>4 DEF Tells
    <3> QED BY <3>3, <3>4 DEF Known
  <2> QED BY <2>1, <2>2, <1>9 DEF Known
<1>10. Watches(v, q, m)
  <2>1. SUFFICES ASSUME ~Leaving(q, m), w[m].wild
                 PROVE  /\ Rests(v, m)
                        /\ \A a \in Players : InGame(v, a) /\ ~Leaving(q, a) /\ Sees(v, m, v[a].at) =>
                             Known(v, q, m, a)
    BY <1>6 DEF Watches
  <2>2. ~Leaving(k, m)
    BY <2>1, <1>1, <1>5
  <2>3. Rests(w, m)
        /\ \A a \in Players : InGame(w, a) /\ ~Leaving(k, a) /\ Sees(w, m, w[a].at) => Known(w, k, m, a)
    BY <2>1, <2>2, <1>7 DEF AwakeOf, Watches
  <2>4. Rests(v, m)
    BY <2>3, <1>6 DEF Rests
  <2>5. ASSUME NEW a \in Players, InGame(v, a), ~Leaving(q, a), Sees(v, m, v[a].at)
        PROVE  Known(v, q, m, a)
    <3>1. InGame(w, a) /\ a # x /\ Sees(w, m, w[a].at)
      BY <2>5, <1>3, <1>4
    <3>2. ~Leaving(k, a)
      BY <2>5, <3>1, <1>1
    <3> QED BY <3>1, <3>2, <2>3, <1>9
  <2> QED BY <2>4, <2>5
<1>11. Serves(v, q, m)
  <2>1. SUFFICES ASSUME ~Leaving(q, m), w[m].master \in Players, ~Leaving(q, w[m].master),
                        Sees(v, m, v[w[m].master].at)
                 PROVE  Served(v, q, m)
    BY <1>6 DEF Serves
  <2>2. w[m].master # x
    <3>1. ASSUME w[m].master = x PROVE FALSE
      <4>1. m \in lost
        BY <3>1, <1>5 DEF Gone, Summons
      <4> QED BY <4>1, <2>1, <1>1
    <3> QED BY <3>1
  <2>3. ~Leaving(k, m) /\ ~Leaving(k, w[m].master) /\ Sees(w, m, w[w[m].master].at)
    BY <2>1, <2>2, <1>1, <1>3, <1>4, <1>5
  <2>4. Served(w, k, m)
    BY <2>1, <2>3, <1>7 DEF AwakeOf, Serves
  <2>5. CASE w[m].near /\ ~w[m].idle
    BY <2>5, <1>6 DEF Served
  <2>6. CASE \E j \in DOMAIN k : Wakes(w, k[j], m)
    <3>1. PICK j \in DOMAIN k : Wakes(w, k[j], m)
      BY <2>6
    <3>2. k[j].do \notin Acts
      BY <3>1, Kinds DEF Wakes
    <3>3. /\ 1 + j \in DOMAIN q /\ q[1 + j].do = k[j].do /\ q[1 + j].of = k[j].of
          /\ q[1 + j].by = k[j].by
      BY <3>2, <1>1, <1>2, Shifts
    <3>4. Wakes(v, q[1 + j], m)
      BY <3>1, <3>3, <1>6 DEF Wakes
    <3> QED BY <3>3, <3>4 DEF Served
  <2> QED BY <2>4, <2>5, <2>6 DEF Served
<1> QED BY <1>8, <1>10, <1>11 DEF AwakeOf

\* The end of removeCreature, as a call.
LEMMA RemovedSound ==
  ASSUME NEW w, NEW k, NEW x, Called(w, k, x), k[1].do = "removed"
  PROVE  Answers(Removed(w, x), k, x)
<1> DEFINE lost == {m \in Summons(w, x) : InGame(w, m)}
           R == Act("remove", lost, NULL)
           v == [w EXCEPT ![x] = [Nobody EXCEPT !.life = "removed", !.alive = w[x].alive,
                                                !.at = w[x].at, !.targets = w[x].targets]]
           q == <<R>> \o Rest(k, x)
           r == Removed(w, x)
<1>1. r.world = v /\ r.calls = <<R>>
  BY DEF Removed, Then
<1>2. k \in Seq(AllCalls) /\ k # <<>>
  BY DEF Called, Sound
<1>3. lost \in SUBSET Creature
  BY DEF Summons, Creature
<1>4. R \in AllCalls /\ R.do = "remove" /\ R.by = lost
  BY <1>3, ActIs, Kinds
<1> HIDE DEF R
<1>5. <<R>> \in Seq(AllCalls) /\ Len(<<R>>) = 1 /\ <<R>>[1] = R
  BY <1>4, FewCalls
<1>6. Pushed(k, q, 1, x) /\ q[1] = R
  <2> DEFINE new == <<R>>
  <2>1. new \in Seq(AllCalls) /\ Len(new) = 1 /\ new[1] = R
    BY <1>5
  <2>2. q = new \o Rest(k, x)
    OBVIOUS
  <2> HIDE DEF new, q
  <2>3. Pushed(k, q, Len(new), x)
    BY <2>1, <2>2, <1>2, PushedIs
  <2>4. \A i \in 1 .. Len(new) : (new \o Rest(k, x))[i] = new[i]
    BY <2>1, <1>2, PushedIs
  <2> QED BY <2>1, <2>2, <2>3, <2>4
<1>7. 1 \in DOMAIN q
  <2>1. DOMAIN q = 1 .. 1 + Len(k) /\ Len(k) \in Nat
    BY <1>6, LenProperties DEF Pushed
  <2> QED BY <2>1
<1> HIDE DEF q
<1>8. Gone(w, k, x, v, q, lost)
  BY <1>4, <1>6, <1>7 DEF Gone
<1> HIDE DEF v, lost
<1>9. Sound(w, k) /\ \A c \in Creature : c # x => v[c] = w[c]
  BY <1>8, GoneIs, GoneWorld
<1>10. Well(v) /\ v \in Worlds /\ \A c \in Creature : InGame(v, c) => c # x /\ InGame(w, c)
  BY <1>8, GoneWorld
<1>11. Aims(v, q)
  <2>1. SUFFICES ASSUME NEW c \in Creature, InGame(v, c) PROVE AimsOf(v, q, c)
    BY DEF Aims
  <2>2. v[c] = w[c] /\ InGame(w, c)
    BY <2>1, <1>9, <1>10
  <2>3. AimsOf(w, k, c)
    BY <2>2, <1>9 DEF Sound, Aims
  <2>4. \A t \in {v[c].target, v[c].follow} \ {NULL} : t \in Creature
    BY <1>10 DEF Worlds, Objects
  <2>5. \A t \in {v[c].target, v[c].follow} \ {NULL} : Pair(v, q, c, t)
    BY <2>2, <2>3, <2>4, <1>8, GonePair DEF AimsOf
  <2>6. v[c].target # NULL => Zone(v, q, c, v[c].target)
    BY <2>2, <2>3, <2>4, <1>8, GonePair DEF AimsOf
  <2> QED BY <2>5, <2>6 DEF AimsOf
<1>12. Awake(v, q)
  BY <1>8, GoneAwake DEF Awake
<1>13. q \in Seq(AllCalls)
  BY <1>6 DEF Pushed
<1>14. Sound(v, q)
  BY <1>8, <1>10, <1>11, <1>12, <1>13, GoneFamily, GoneFrames DEF Sound
<1> QED BY <1>1, <1>14 DEF Answers, q, v, lost

-----------------------------------------------------------------------------
(* A call with all that it calls                                             *)

\* Whatever the call, the world it leaves is as good as before.
LEMMA AnswerSound ==
  ASSUME NEW w, NEW k, NEW x, Called(w, k, x), NEW luck
  PROVE  Answers(Answer(w, x, k[1], luck), k, x)
<1>1. k[1].do \in Acts \cup Notices
  BY CalledIs DEF AllCalls
<1>2. \A v : Sound(v, <<>> \o Rest(k, x)) => Answers(Then(v, <<>>), k, x)
  <2>1. ASSUME NEW v PROVE Then(v, <<>>).world = v /\ Then(v, <<>>).calls = <<>>
    BY DEF Then
  <2> QED BY <2>1 DEF Answers
<1>3. CASE k[1].do = "go"
  <2>1. Answer(w, x, k[1], luck) = Go(w, x, k[1].to)
    BY <1>3 DEF Answer
  <2> QED BY <2>1, <1>3, GoSound
<1>4. CASE k[1].do = "move"
  <2>1. Answer(w, x, k[1], luck) = LoseSummons(w, x, k[1])
    BY <1>4 DEF Answer
  <2> QED BY <2>1, <1>4, LoseSummonsSound
<1>5. CASE k[1].do = "moved"
  <2>1. Answer(w, x, k[1], luck)
          = MovedOn(Moved(w, x, k[1].of, k[1].from, k[1].to), x, k[1], luck)
    BY <1>5 DEF Answer
  <2> QED BY <2>1, <1>5, MovedSound
<1>6. CASE k[1].do = "left"
  <2>1. Answer(w, x, k[1], luck) = Then(Leave(w, x, k[1].of), <<>>)
    BY <1>6 DEF Answer
  <2>2. Sound(Leave(w, x, k[1].of), <<>> \o Rest(k, x))
    BY <1>6, LeftSound
  <2> QED BY <2>1, <2>2, <1>2
<1>7. CASE k[1].do = "seen"
  <2>1. Answer(w, x, k[1], luck) = Then(Seen(w, x, k[1].of, FALSE), <<>>)
    BY <1>7 DEF Answer
  <2>2. Sound(Seen(w, x, k[1].of, FALSE), <<>> \o Rest(k, x))
    BY <1>7, SeenSound
  <2> QED BY <2>1, <2>2, <1>2
<1>8. CASE k[1].do = "remove"
  <2>1. Answer(w, x, k[1], luck) = Withdraw(w, x)
    BY <1>8 DEF Answer
  <2> QED BY <2>1, <1>8, WithdrawSound
<1>9. CASE k[1].do = "disappear"
  <2>1. Answer(w, x, k[1], luck) = Vanished(Disappear(w, x, k[1].of), x, k[1], luck)
    BY <1>9 DEF Answer
  <2> QED BY <2>1, <1>9, DisappearSound
<1>10. CASE k[1].do = "removed"
  <2>1. Answer(w, x, k[1], luck) = Removed(w, x)
    BY <1>10 DEF Answer
  <2> QED BY <2>1, <1>10, RemovedSound
<1>11. CASE k[1].do = "appear"
  <2>1. Answer(w, x, k[1], luck) = Then(Appears(w, x, k[1]), <<>>)
    BY <1>11 DEF Answer
  <2>2. Sound(Appears(w, x, k[1]), <<>> \o Rest(k, x))
    BY <1>11, AppearSound
  <2> QED BY <2>1, <2>2, <1>2
<1>12. CASE k[1].do = "look"
  <2>1. Answer(w, x, k[1], luck) = Then(UpdateIdle(UpdateTargets(w, x), x), <<>>)
    BY <1>12 DEF Answer
  <2>2. Sound(UpdateIdle(UpdateTargets(w, x), x), <<>> \o Rest(k, x))
    BY <1>12, LookSound
  <2> QED BY <2>1, <2>2, <1>2
<1> QED BY <1>1, <1>3, <1>4, <1>5, <1>6, <1>7, <1>8, <1>9, <1>10, <1>11, <1>12 DEF Acts, Notices

\* A call that everybody has had is done.
LEMMA DropSound ==
  ASSUME NEW w, NEW k, Sound(w, k), k # <<>>, k[1].by = {}
  PROVE  Sound(w, Tail(k))
<1> DEFINE q == Tail(k)
<1>1. k \in Seq(AllCalls) /\ Family(w, k) /\ Frames(w, k) /\ Aims(w, k) /\ Awake(w, k) /\ Well(w)
  BY DEF Sound
<1>2. Len(k) \in Nat /\ Len(k) > 0 /\ DOMAIN k = 1 .. Len(k)
  BY <1>1, LenProperties, EmptySeq
<1>3. q \in Seq(AllCalls) /\ Len(q) = Len(k) - 1 /\ \A i \in 1 .. Len(q) : q[i] = k[i + 1]
  BY <1>1, HeadTailProperties
<1>4. DOMAIN q = 1 .. Len(q)
  BY <1>3, LenProperties
<1> HIDE DEF q
<1>5. ASSUME NEW i \in DOMAIN q PROVE i + 1 \in DOMAIN k /\ q[i] = k[i + 1] /\ i \in Nat /\ i > 0
  BY <1>2, <1>3, <1>4
<1>6. ASSUME NEW j \in DOMAIN k, j # 1
      PROVE  j - 1 \in DOMAIN q /\ q[j - 1] = k[j] /\ j \in Nat /\ j > 1 /\ (j - 1) + 1 = j
  <2>1. j \in Nat /\ j > 1 /\ j - 1 \in 1 .. Len(q)
    BY <1>2, <1>3, <1>6
  <2>2. q[j - 1] = k[(j - 1) + 1] /\ (j - 1) + 1 = j
    BY <2>1, <1>3
  <2> QED BY <2>1, <2>2, <1>4
<1>7. \A c : Leaving(q, c) <=> Leaving(k, c)
  <2>1. ASSUME NEW c, Leaving(q, c) PROVE Leaving(k, c)
    BY <2>1, <1>5 DEF Leaving
  <2>2. ASSUME NEW c, Leaving(k, c) PROVE Leaving(q, c)
    <3>1. PICK j \in DOMAIN k : k[j].do \in {"remove", "removed"} /\ c \in k[j].by
      BY <2>2 DEF Leaving
    <3>2. j # 1
      BY <3>1
    <3> QED BY <3>1, <3>2, <1>6 DEF Leaving
  <2> QED BY <2>1, <2>2
<1>8. Family(w, q)
  BY <1>1, <1>7 DEF Family
<1>9. ASSUME NEW i \in DOMAIN q, NEW x \in q[i].by PROVE Frame(w, q, i, x)
  <2>1. i + 1 \in DOMAIN k /\ q[i] = k[i + 1] /\ i \in Nat /\ i > 0 /\ i + 1 # 1
    BY <1>5
  <2>2. Frame(w, k, i + 1, x)
    BY <2>1, <1>1, <1>9 DEF Frames
  <2>3. Addressed(w, q[i], x)
    BY <2>1, <2>2 DEF Frame
  <2>4. OnTheMove(w, q, q[i])
    BY <2>1, <2>2, <1>7 DEF Frame, OnTheMove
  <2>5. GoesTo(w, q, i, x) /\ Forgets(w, q, i, x)
    BY <2>1, <2>2 DEF Frame, GoesTo, Forgets
  <2>6. Withdraws(q, i)
    <3>1. SUFFICES ASSUME q[i].do = "disappear"
                   PROVE  \E h \in DOMAIN q : h > i /\ q[h].do = "removed" /\ q[i].of \in q[h].by
      BY DEF Withdraws
    <3>2. PICK j \in DOMAIN k : j > i + 1 /\ k[j].do = "removed" /\ q[i].of \in k[j].by
      BY <3>1, <2>1, <2>2 DEF Frame, Withdraws
    <3>3. j # 1
      BY <3>2, <2>1, <1>2
    <3>4. j - 1 \in DOMAIN q /\ q[j - 1] = k[j] /\ j - 1 > i
      BY <3>2, <3>3, <2>1, <1>6
    <3> QED BY <3>2, <3>4
  <2>7. MasterLast(w, q, i)
    <3>1. SUFFICES ASSUME NEW c \in Subject(q[i]), Summons(w, c) # {},
                          NEW h \in DOMAIN q, h > i, q[h].by # {}
                   PROVE  Subject(q[h]) = {c}
      BY DEF MasterLast
    <3>2. h + 1 \in DOMAIN k /\ q[h] = k[h + 1] /\ h + 1 > i + 1
      BY <3>1, <2>1, <1>5
    <3> QED BY <3>1, <3>2, <2>1, <2>2 DEF Frame, MasterLast
  <2> QED BY <2>3, <2>4, <2>5, <2>6, <2>7 DEF Frame
<1>10. ASSUME NEW c, NEW t, NEW j \in DOMAIN k
       PROVE  /\ Settles(k[j], c, t) =>
                   \E i \in DOMAIN q : Settles(q[i], c, t) /\ q[i].from = k[j].from /\ q[i].to = k[j].to
              /\ Spares(k[j], c, t) => \E i \in DOMAIN q : Spares(q[i], c, t)
  <2>1. CASE j = 1
    BY <2>1 DEF Settles, Spares
  <2>2. CASE j # 1
    BY <2>2, <1>6
  <2> QED BY <2>1, <2>2
<1>11. ASSUME NEW c, NEW t, Pair(w, k, c, t) PROVE Pair(w, q, c, t)
  <2>1. ~Sees(w, c, w[t].at) => \E i \in DOMAIN q : Settles(q[i], c, t)
    BY <1>10, <1>11 DEF Pair
  <2>2. ~SameFloor(w[c].at, w[t].at) =>
          \E i \in DOMAIN q : Settles(q[i], c, t) /\ ~SameFloor(q[i].from, q[i].to)
    <3>1. SUFFICES ASSUME NEW j \in DOMAIN k, Settles(k[j], c, t), ~SameFloor(k[j].from, k[j].to)
                   PROVE  \E i \in DOMAIN q : Settles(q[i], c, t) /\ ~SameFloor(q[i].from, q[i].to)
      BY <1>11 DEF Pair
    <3>2. PICK i \in DOMAIN q : Settles(q[i], c, t) /\ q[i].from = k[j].from /\ q[i].to = k[j].to
      BY <3>1, <1>10
    <3> QED BY <3>1, <3>2
  <2>3. ASSUME NEW i \in DOMAIN q, q[i].do = "removed", t \in q[i].by
        PROVE  ~Sees(w, c, w[t].at) \/ WasTold(q, i, c, t)
    <3>1. i + 1 \in DOMAIN k /\ q[i] = k[i + 1] /\ i \in Nat
      BY <1>5
    <3>2. ~Sees(w, c, w[t].at) \/ WasTold(k, i + 1, c, t)
      BY <3>1, <2>3, <1>11 DEF Pair
    <3>3. ASSUME WasTold(k, i + 1, c, t) PROVE WasTold(q, i, c, t)
      <4>1. PICK j \in DOMAIN k : j < i + 1 /\ k[j].do = "disappear" /\ k[j].of = t /\ c \in k[j].by
        BY <3>3 DEF WasTold
      <4>2. j # 1
        BY <4>1
      <4>3. j - 1 \in DOMAIN q /\ q[j - 1] = k[j] /\ j - 1 < i
        BY <4>1, <4>2, <3>1, <1>6
      <4> QED BY <4>1, <4>3 DEF WasTold
    <3> QED BY <3>2, <3>3
  <2> QED BY <2>1, <2>2, <2>3, <1>11 DEF Pair
<1>12. \A c : \A t : Zone(w, k, c, t) => Zone(w, q, c, t)
  BY <1>10 DEF Zone
<1>13. Aims(w, q)
  BY <1>1, <1>11, <1>12 DEF Aims, AimsOf
<1>14. ASSUME NEW m
       PROVE  /\ \A p : Known(w, k, m, p) => Known(w, q, m, p)
              /\ Served(w, k, m) => Served(w, q, m)
  <2>1. ASSUME NEW j \in DOMAIN k, NEW p, Tells(w, k[j], m, p)
        PROVE  \E i \in DOMAIN q : Tells(w, q[i], m, p)
    <3>1. j # 1
      BY <2>1 DEF Tells
    <3> QED BY <3>1, <2>1, <1>6
  <2>2. ASSUME NEW j \in DOMAIN k, Wakes(w, k[j], m)
        PROVE  \E i \in DOMAIN q : Wakes(w, q[i], m)
    <3>1. j # 1
      BY <2>2 DEF Wakes
    <3> QED BY <3>1, <2>2, <1>6
  <2> QED BY <2>1, <2>2 DEF Known, Served
<1>15. Awake(w, q)
  BY <1>1, <1>7, <1>14 DEF Awake, AwakeOf, Watches, Serves
<1> QED BY <1>1, <1>3, <1>8, <1>9, <1>13, <1>15 DEF Sound, Frames, q


-----------------------------------------------------------------------------
(* Induction                                                                 *)

\* Every set of numbers has a least one.
LEMMA LeastNumber ==
  ASSUME NEW T \in SUBSET Nat, T # {}
  PROVE  \E x \in T : \A y \in T : x <= y
<1> DEFINE R == {ss \in Nat \X Nat : ss[1] < ss[2]}
<1>1. IsWellFoundedOn(R, Nat)
  BY NatLessThanWellFounded DEF OpToRel
<1>2. PICK x \in T : \A y \in T : <<y, x>> \notin R
  <2> HIDE DEF R
  <2> QED BY <1>1, WFMin
<1>3. ASSUME NEW y \in T, y < x PROVE FALSE
  <2>1. <<y, x>> \in Nat \X Nat /\ <<y, x>>[1] = y /\ <<y, x>>[2] = x
    OBVIOUS
  <2> QED BY <2>1, <1>2, <1>3
<1> QED BY <1>3

\* A set that holds 0 and is closed under successor holds every number.
LEMMA NatBySuccessor ==
  ASSUME NEW T, 0 \in T, \A n \in Nat : n \in T => n + 1 \in T
  PROVE  Nat \subseteq T
<1> DEFINE R == {n \in Nat : n \notin T}
<1>1. SUFFICES ASSUME R # {} PROVE FALSE
  OBVIOUS
<1>2. PICK x \in R : \A y \in R : x <= y
  BY <1>1, LeastNumber
<1>3. x # 0 /\ x - 1 \in Nat /\ x - 1 \in T
  BY <1>2
<1> QED BY <1>3

\* Everybody has his place in the order in which they are told.
Lucky(luck) == luck.order \in [Creature -> Nat]

\* An order of the spectators gives each a number.
LEMMA LuckIsLucky ==
  ASSUME NEW w \in Worlds, NEW c, NEW luck \in Luck(w, c)
  PROVE  Lucky(luck)
<1> DEFINE summons == {m \in Monsters : w[m].master # NULL}
           family == summons \cup {w[m].master : m \in summons}
           N == Cardinality(family)
<1>1. luck.order \in Orders(family)
  BY DEF Luck
<1>2. family \subseteq Creature
  BY DEF Worlds, Objects, Creature
<1>3. IsFiniteSet(Creature)
  BY TargetsAssumption, FS_Union DEF Creature
<1>4. N \in Nat
  BY <1>2, <1>3, FS_Subset, FS_CardinalityType
<1> HIDE DEF family
<1>5. PICK f \in Injection(family, 1 .. N) :
        luck.order = [d \in Creature |-> IF d \in family THEN f[d] ELSE N + 1]
  BY <1>1 DEF Orders
<1>6. f \in [family -> 1 .. N]
  BY DEF Injection
<1>7. \A d \in Creature : (IF d \in family THEN f[d] ELSE N + 1) \in Nat
  BY <1>4, <1>6
<1> QED BY <1>5, <1>7 DEF Lucky

\* Of any who are to be told, one is first.
LEMMA FirstIsIn ==
  ASSUME NEW luck, Lucky(luck), NEW S \in SUBSET Creature, S # {}
  PROVE  First(luck, S) \in S
<1> DEFINE T == {luck.order[c] : c \in S}
<1>1. T \in SUBSET Nat /\ T # {}
  BY DEF Lucky
<1>2. PICK t \in T : \A u \in T : t <= u
  BY <1>1, LeastNumber
<1>3. PICK c \in S : t = luck.order[c]
  BY <1>2
<1>4. \A d \in S : luck.order[c] <= luck.order[d]
  BY <1>2, <1>3
<1> QED BY <1>3, <1>4 DEF First

\* One step of what is left to be done.
LEMMA MadeSound ==
  ASSUME NEW s, Sound(s.world, s.calls), NEW luck, Lucky(luck)
  PROVE  Sound(Made(s, luck).world, Made(s, luck).calls)
<1> DEFINE w == s.world
           k == s.calls
           n == Head(k)
           x == First(luck, n.by)
<1>1. k \in Seq(AllCalls)
  BY DEF Sound
<1>2. CASE k = <<>>
  BY <1>2 DEF Made
<1>3. CASE k # <<>> /\ n.by = {}
  <2>1. n = k[1]
    BY <1>1, <1>3, HeadTailProperties
  <2>2. Made(s, luck) = Then(w, Tail(k))
    BY <1>3 DEF Made
  <2>3. Sound(w, Tail(k))
    BY <2>1, <1>3, DropSound
  <2> QED BY <2>2, <2>3 DEF Then
<1>4. CASE k # <<>> /\ n.by # {}
  <2> DEFINE r == Answer(w, x, n, luck)
  <2>1. n = k[1]
    BY <1>1, <1>4, HeadTailProperties
  <2>2. k[1] \in AllCalls
    <3>1. Len(k) \in Nat /\ Len(k) > 0 /\ DOMAIN k = 1 .. Len(k)
      BY <1>1, <1>4, LenProperties, EmptySeq
    <3> QED BY <3>1, <1>1, ElementOfSeq
  <2>3. x \in k[1].by
    <3>1. n.by \in SUBSET Creature
      BY <2>1, <2>2 DEF AllCalls
    <3>2. x \in n.by
      BY <3>1, <1>4, FirstIsIn
    <3> QED BY <3>2, <2>1
  <2>4. Called(w, k, x)
    BY <2>3, <1>4 DEF Called
  <2>5. Answers(r, k, x)
    <3>1. Answers(Answer(w, x, k[1], luck), k, x)
      BY <2>4, AnswerSound
    <3> QED BY <3>1, <2>1
  <2>6. Made(s, luck) = Then(r.world, r.calls \o Rest(k, x))
    BY <1>4 DEF Made, Rest
  <2> QED BY <2>5, <2>6 DEF Answers, Then
<1> QED BY <1>2, <1>3, <1>4

\* What is left after n steps.
Steps(f, w, calls, luck, n) ==
  f = [m \in 0 .. n |-> IF m = 0 THEN Then(w, calls) ELSE Made(f[m - 1], luck)]

\* The first n steps of a call are a function of their number, for any n.
LEMMA StepsExist ==
  ASSUME NEW w, NEW calls, NEW luck, NEW n \in Nat
  PROVE  \E f : Steps(f, w, calls, luck, n)
<1> DEFINE S == {k \in Nat : \E f : Steps(f, w, calls, luck, k)}
           first == Then(w, calls)
           After(s) == Made(s, luck)
<1>1. 0 \in S
  <2> DEFINE f == [m \in 0 .. 0 |-> first]
  <2>1. \A m \in 0 .. 0 : f[m] = IF m = 0 THEN first ELSE After(f[m - 1])
    OBVIOUS
  <2>2. f = [m \in 0 .. 0 |-> IF m = 0 THEN first ELSE After(f[m - 1])]
    <3> HIDE DEF first, After
    <3> QED BY <2>1
  <2>3. Steps(f, w, calls, luck, 0)
    BY <2>2 DEF Steps
  <2> QED BY <2>3
<1>2. ASSUME NEW k \in Nat, k \in S PROVE k + 1 \in S
  <2>1. PICK f : Steps(f, w, calls, luck, k)
    BY <1>2
  <2> DEFINE more == After(f[k])
             g == [m \in 0 .. (k + 1) |-> IF m = k + 1 THEN more ELSE f[m]]
  <2>2. f = [m \in 0 .. k |-> IF m = 0 THEN first ELSE After(f[m - 1])]
    BY <2>1 DEF Steps
  <2>3. \A m \in 0 .. (k + 1) : g[m] = IF m = 0 THEN first ELSE After(g[m - 1])
    <3> SUFFICES ASSUME NEW m \in 0 .. (k + 1)
                 PROVE  g[m] = IF m = 0 THEN first ELSE After(g[m - 1])
      OBVIOUS
    <3>1. CASE m = k + 1
      <4>1. m # 0 /\ m - 1 = k /\ g[m] = After(f[k])
        BY <3>1
      <4>2. g[m - 1] = f[k]
        BY <4>1
      <4> HIDE DEF g, first, After
      <4> QED BY <4>1, <4>2
    <3>2. CASE m # k + 1
      <4>1. m \in 0 .. k /\ g[m] = f[m]
        BY <3>2
      <4>2. m # 0 => m - 1 \in 0 .. (k + 1) /\ m - 1 # k + 1 /\ g[m - 1] = f[m - 1]
        BY <4>1
      <4>3. f[m] = IF m = 0 THEN first ELSE After(f[m - 1])
        <5> HIDE DEF first, After
        <5> QED BY <2>2, <4>1
      <4> HIDE DEF g, first, After
      <4> QED BY <4>1, <4>2, <4>3
    <3> QED BY <3>1, <3>2
  <2>4. g = [m \in 0 .. (k + 1) |-> IF m = 0 THEN first ELSE After(g[m - 1])]
    <3>1. g = [m \in 0 .. (k + 1) |-> g[m]]
      OBVIOUS
    <3> HIDE DEF g, first, After
    <3> QED BY <2>3, <3>1
  <2>5. Steps(g, w, calls, luck, k + 1)
    <3> HIDE DEF g
    <3> QED BY <2>4 DEF Steps
  <2> QED BY <2>5
<1>3. Nat \subseteq S
  <2> HIDE DEF S
  <2> QED BY <1>1, <1>2, NatBySuccessor
<1> QED BY <1>3

\* A call from a sound world leaves sound worlds.
LEMMA DoneIsSound ==
  ASSUME NEW w, NEW calls, Sound(w, calls), NEW luck, Lucky(luck), NEW v \in Done(w, calls, luck)
  PROVE  Sound(v, <<>>)
<1> DEFINE f == CHOOSE f : Steps(f, w, calls, luck, MaxSteps)
<1>1. MaxSteps \in Nat
  <2>1. IsFiniteSet(Creature)
    BY TargetsAssumption, FS_Union DEF Creature
  <2>2. Cardinality(Creature) \in Nat
    BY <2>1, FS_CardinalityType
  <2> QED BY <2>2 DEF MaxSteps
<1>2. Steps(f, w, calls, luck, MaxSteps)
  BY <1>1, StepsExist
<1>3. f[MaxSteps].calls = <<>> /\ v = f[MaxSteps].world
  BY DEF Done, Steps
<1> HIDE DEF f
<1>4. f[0] = Then(w, calls) /\ \A m \in 1 .. MaxSteps : f[m] = Made(f[m - 1], luck)
  BY <1>1, <1>2 DEF Steps
<1> DEFINE G == {m \in Nat : m <= MaxSteps => Sound(f[m].world, f[m].calls)}
<1>5. 0 \in G
  <2>1. f[0].world = w /\ f[0].calls = calls
    BY <1>4 DEF Then
  <2> QED BY <2>1
<1>6. ASSUME NEW m \in Nat, m \in G PROVE m + 1 \in G
  <2>1. SUFFICES ASSUME m + 1 <= MaxSteps PROVE Sound(f[m + 1].world, f[m + 1].calls)
    OBVIOUS
  <2>2. m + 1 \in 1 .. MaxSteps /\ (m + 1) - 1 = m /\ Sound(f[m].world, f[m].calls)
    BY <1>1, <1>6, <2>1
  <2>3. f[m + 1] = Made(f[m], luck)
    BY <1>4, <2>2
  <2> QED BY <2>2, <2>3, MadeSound
<1>7. Nat \subseteq G
  <2> HIDE DEF G
  <2> QED BY <1>5, <1>6, NatBySuccessor
<1> QED BY <1>1, <1>3, <1>7

-----------------------------------------------------------------------------
(* Between the calls                                                         *)

Kin(w) ==
  \A m \in Creature : w[m].master # NULL =>
    /\ m \in Monsters /\ InGame(w, m) /\ ~w[m].wild /\ w[m].master # m
    /\ w[m].master \in Creature /\ InGame(w, w[m].master)
    /\ \A n \in Creature : w[n].master # NULL => n = m
Eyes(w, c) ==
  /\ \A t \in {w[c].target, w[c].follow} \ {NULL} : InGame(w, t) /\ CanAim(w, c, t)
  /\ w[c].target # NULL => w[w[c].target].at \notin Protected
Mind(w, m) ==
  /\ Alert(w, m)
  /\ w[m].wild => /\ Rests(w, m)
                  /\ \A p \in Players : InGame(w, p) /\ Sees(w, m, w[p].at) => p \in w[m].targets
  /\ w[m].master \in Players /\ Sees(w, m, w[w[m].master].at) => w[m].near /\ ~w[m].idle
Quiet(w) ==
  /\ Well(w) /\ Kin(w)
  /\ \A c \in Creature : InGame(w, c) => Eyes(w, c)
  /\ \A m \in Monsters : InGame(w, m) => Mind(w, m)

\* With no call left, what is broken is repaired.
LEMMA QuietIsSound ==
  ASSUME NEW w
  PROVE  Quiet(w) <=> Sound(w, <<>>)
<1>1. <<>> \in Seq(AllCalls) /\ DOMAIN <<>> = {}
  BY NoMore, LenProperties
<1>2. \A c : ~Leaving(<<>>, c)
  BY <1>1 DEF Leaving
<1>3. Frames(w, <<>>)
  BY <1>1 DEF Frames
<1>4. Well(w) => (Kin(w) <=> Family(w, <<>>))
  <2>1. \A c : InGame(w, c) => Here(w, c)
    BY DEF InGame, Here
  <2> QED BY <2>1, <1>2 DEF Kin, Family
<1>5. ASSUME NEW c, NEW t
      PROVE  /\ Pair(w, <<>>, c, t) <=> InGame(w, t) /\ CanAim(w, c, t)
             /\ Zone(w, <<>>, c, t) <=> w[t].at \notin Protected
  BY <1>1 DEF Pair, Zone, CanAim
<1>6. \A c : AimsOf(w, <<>>, c) <=> Eyes(w, c)
  BY <1>5 DEF AimsOf, Eyes
<1>7. \A m : AwakeOf(w, <<>>, m) <=> Mind(w, m)
  <2>1. \A m : \A p : Known(w, <<>>, m, p) <=> p \in w[m].targets
    BY <1>1 DEF Known
  <2>2. \A m : Served(w, <<>>, m) <=> w[m].near /\ ~w[m].idle
    BY <1>1 DEF Served
  <2>3. \A m : Watches(w, <<>>, m) <=>
          (w[m].wild => /\ Rests(w, m)
                        /\ \A p \in Players : InGame(w, p) /\ Sees(w, m, w[p].at) => p \in w[m].targets)
    BY <2>1, <1>2 DEF Watches
  <2>4. \A m : Serves(w, <<>>, m) <=>
          (w[m].master \in Players /\ Sees(w, m, w[w[m].master].at) => w[m].near /\ ~w[m].idle)
    BY <2>2, <1>2 DEF Serves
  <2> QED BY <2>3, <2>4 DEF AwakeOf, Mind
<1> QED BY <1>1, <1>3, <1>4, <1>6, <1>7 DEF Quiet, Sound, Aims, Awake

\* One call is to be made.
LEMMA StartSound ==
  ASSUME NEW w, Well(w), Kin(w), NEW a \in AllCalls, a.do # "removed",
         \A x \in a.by : Frame(w, <<a>>, 1, x),
         \A c \in Creature : InGame(w, c) => Eyes(w, c),
         \A m \in Monsters : InGame(w, m) => Mind(w, m) \/ AwakeOf(w, <<a>>, m)
  PROVE  Sound(w, <<a>>)
<1> DEFINE k == <<a>>
<1>1. k \in Seq(AllCalls) /\ DOMAIN k = {1} /\ k[1] = a
  OBVIOUS
<1> HIDE DEF k
<1>2. Family(w, k)
  BY DEF Kin, Family, InGame, Here
<1>3. Frames(w, k)
  BY <1>1 DEF Frames, k
<1>4. Aims(w, k)
  BY <1>1 DEF Aims, AimsOf, Eyes, Pair, Zone, CanAim
<1>5. ASSUME NEW m \in Monsters, Mind(w, m) PROVE AwakeOf(w, k, m)
  BY <1>5 DEF Mind, AwakeOf, Watches, Serves, Known, Served
<1>6. Awake(w, k)
  BY <1>5 DEF Awake, k
<1> QED BY <1>1, <1>2, <1>3, <1>4, <1>6 DEF Sound, k

\* Who is deleted is of no interest to anybody.
LEMMA BecomesQuiet ==
  ASSUME NEW w, Quiet(w), Becomes(w)
  PROVE  Quiet(creature')
<1> DEFINE v == creature'
           listed == UNION {w[m].targets : m \in Monsters}
<1>1. v = [c \in Creature |-> IF w[c].life = "removed" /\ c \notin listed THEN Nobody ELSE w[c]]
  BY DEF Becomes
<1>2. Well(w) /\ w \in Worlds /\ Kin(w)
  BY DEF Quiet, Well
<1> HIDE DEF v, listed
<1>3. ASSUME NEW c \in Creature
      PROVE  /\ v[c] \in {w[c], Nobody} /\ InGame(v, c) = InGame(w, c)
             /\ InGame(w, c) => v[c] = w[c]
  BY <1>1 DEF InGame, Nobody
<1>4. v \in Worlds
  <2>1. \A c \in Creature : v[c] \in Objects
    BY <1>2, <1>3, NobodyTyped DEF Worlds
  <2> QED BY <2>1, <1>1 DEF Worlds
<1>5. \A c \in Creature : v[c].master # NULL => v[c] = w[c]
  BY <1>3 DEF Nobody
<1>6. Well(v)
  <2>1. \A c \in Creature : IF v[c].life = "none" THEN v[c] = Nobody ELSE v[c].at \in Spots
    <3>1. SUFFICES ASSUME NEW c \in Creature
                   PROVE  IF v[c].life = "none" THEN v[c] = Nobody ELSE v[c].at \in Spots
      OBVIOUS
    <3>2. CASE v[c] = w[c]
      BY <3>2, <1>2 DEF Well
    <3>3. CASE v[c] = Nobody
      BY <3>3 DEF Nobody
    <3> QED BY <3>2, <3>3, <1>3
  <2>2. \A m \in Creature : v[m].master # NULL => InGame(v, m)
    BY <1>2, <1>3, <1>5 DEF Well
  <2> QED BY <2>1, <2>2, <1>4 DEF Well
<1>7. Kin(v)
  BY <1>2, <1>3, <1>5 DEF Kin
<1>8. ASSUME NEW c \in Creature, InGame(v, c) PROVE Eyes(v, c)
  <2>1. v[c] = w[c] /\ InGame(w, c) /\ Eyes(w, c)
    BY <1>3, <1>8 DEF Quiet
  <2>2. ASSUME NEW t \in {v[c].target, v[c].follow} \ {NULL}
        PROVE  InGame(v, t) /\ CanAim(v, c, t) /\ v[t] = w[t]
    <3>1. t \in Creature /\ InGame(w, t) /\ CanAim(w, c, t)
      BY <2>1, <1>4 DEF Eyes, Worlds, Objects
    <3>2. v[t] = w[t] /\ InGame(v, t)
      BY <3>1, <1>3
    <3> QED BY <3>1, <3>2, <2>1 DEF CanAim, Sees
  <2> QED BY <2>1, <2>2 DEF Eyes
<1>9. ASSUME NEW m \in Monsters, InGame(v, m) PROVE Mind(v, m)
  <2>1. m \in Creature /\ Players \subseteq Creature
    BY DEF Creature
  <2>2. v[m] = w[m] /\ InGame(w, m) /\ Mind(w, m)
    BY <2>1, <1>3, <1>9 DEF Quiet
  <2>3. \A p : Sees(v, m, p) = Sees(w, m, p)
    BY <2>2 DEF Sees
  <2>4. \A p \in Players : InGame(v, p) => InGame(w, p) /\ v[p] = w[p]
    BY <2>1, <1>3
  <2>5. w[m].master \in Players => v[w[m].master] = w[w[m].master]
    BY <2>1, <1>2, <1>3, Apart DEF Kin
  <2> QED BY <2>2, <2>3, <2>4, <2>5 DEF Mind, Alert, Rests
<1> QED BY <1>6, <1>7, <1>8, <1>9 DEF Quiet, v

\* A call that is made to the end.
LEMMA CallsQuiet ==
  ASSUME NEW w, NEW calls, Sound(w, calls), NEW c, NEW luck \in Luck(w, c), Calls(w, calls, luck)
  PROVE  Quiet(creature')
<1>1. PICK v \in Done(w, calls, luck) : Becomes(v)
  BY DEF Calls
<1>2. Lucky(luck)
  BY LuckIsLucky DEF Sound, Well
<1>3. Quiet(v)
  BY <1>2, DoneIsSound, QuietIsSound
<1> QED BY <1>1, <1>3, BecomesQuiet

-----------------------------------------------------------------------------
(* What the game and its creatures do                                        *)

\* What is known between the calls.
LEMMA QuietIs ==
  ASSUME NEW w, Quiet(w)
  PROVE  /\ Well(w) /\ w \in Worlds /\ Kin(w)
         /\ \A c \in Creature : InGame(w, c) => Eyes(w, c) /\ Here(w, c)
         /\ \A m \in Monsters : InGame(w, m) => Mind(w, m)
         /\ Monsters \subseteq Creature /\ Players \subseteq Creature
         /\ \A c \in Creature : c # NULL
         /\ \A p \in Players : p \notin Monsters
BY TargetsAssumption, Apart DEF Quiet, Well, InGame, Here, Creature

\* Who aims at somebody in the game, and attacks nobody in a protection zone.
LEMMA TurnedQuiet ==
  ASSUME NEW w, Quiet(w), NEW v, NEW t \in Creature \cup {NULL}, Turned(w, v, t),
         t # NULL => InGame(w, t),
         \A c \in Creature : v[c].target \in {w[c].target, NULL} \/ w[t].at \notin Protected
  PROVE  Quiet(v)
<1>1. Well(w) /\ w \in Worlds /\ Kin(w) /\ Monsters \subseteq Creature /\ Players \subseteq Creature
  BY QuietIs
<1>2. Well(v) /\ v \in Worlds
  BY <1>1, TurnOn DEF Well
<1>3. \A c \in Creature :
        /\ InGame(v, c) = InGame(w, c) /\ v[c].at = w[c].at /\ v[c].alive = w[c].alive
        /\ v[c].master = w[c].master /\ v[c].wild = w[c].wild
        /\ v[c].targets = w[c].targets /\ v[c].idle = w[c].idle /\ v[c].near = w[c].near
        /\ \A p : Sees(v, c, p) = Sees(w, c, p)
        /\ \A u \in Creature : CanAim(v, c, u) = CanAim(w, c, u)
  BY SameSees DEF Turned, Same
<1>4. Kin(v)
  BY <1>1, <1>3 DEF Kin
<1>5. ASSUME NEW c \in Creature, InGame(v, c) PROVE Eyes(v, c)
  <2>1. Eyes(w, c)
    BY <1>3, <1>5 DEF Quiet
  <2>2. Keeps(w, c, w[c].target, v[c].target, t) /\ Keeps(w, c, w[c].follow, v[c].follow, t)
    BY DEF Turned, Aimed
  <2>3. ASSUME NEW u \in {v[c].target, v[c].follow} \ {NULL} PROVE InGame(v, u) /\ CanAim(v, c, u)
    <3>1. u \in Creature
      BY <1>2 DEF Worlds, Objects
    <3>2. InGame(w, u) /\ CanAim(w, c, u)
      BY <2>1, <2>2, <2>3 DEF Keeps, Eyes
    <3> QED BY <3>1, <3>2, <1>3
  <2>4. ASSUME v[c].target # NULL PROVE v[v[c].target].at \notin Protected
    <3>1. v[c].target \in Creature
      BY <2>4, <1>2 DEF Worlds, Objects
    <3>2. CASE v[c].target = w[c].target
      BY <3>1, <3>2, <2>1, <2>4, <1>3 DEF Eyes
    <3>3. CASE v[c].target # w[c].target
      <4>1. v[c].target = t
        BY <3>3, <2>2, <2>4 DEF Keeps
      <4> QED BY <4>1, <3>1, <3>3, <2>4, <1>3
    <3> QED BY <3>2, <3>3
  <2> QED BY <2>3, <2>4 DEF Eyes
<1>6. ASSUME NEW m \in Monsters, InGame(v, m) PROVE Mind(v, m)
  <2>1. Mind(w, m)
    BY <1>1, <1>3, <1>6 DEF Quiet
  <2>2. /\ v[m].alive = w[m].alive /\ v[m].idle = w[m].idle /\ v[m].targets = w[m].targets
        /\ v[m].wild = w[m].wild /\ v[m].master = w[m].master /\ v[m].near = w[m].near
        /\ \A p : Sees(v, m, p) = Sees(w, m, p)
    BY <1>1, <1>3
  <2>3. \A p \in Players : InGame(v, p) = InGame(w, p) /\ v[p].at = w[p].at
    BY <1>1, <1>3
  <2> QED BY <2>1, <2>2, <2>3 DEF Mind, Alert, Rests
<1> QED BY <1>2, <1>4, <1>5, <1>6 DEF Quiet

\* Upon following, nobody new comes under attack.
LEMMA FollowTargets ==
  ASSUME NEW w, Well(w), NEW c \in Creature, Here(w, c), NEW t \in Creature \cup {NULL}
  PROVE  \A d \in Creature : SetFollow(w, c, t)[d].target \in {w[d].target, NULL}
<1>1. w \in Worlds
  BY DEF Well
<1>2. \A d \in Creature : Pursue(w, c, t)[d].target = w[d].target
  BY <1>1 DEF Pursue, Worlds, Objects
<1>3. \A d \in Creature : PlayerPursue(w, c, t)[d].target \in {w[d].target, NULL}
  <2> DEFINE v == [w EXCEPT ![c].follow = NULL]
             u == Aim(v, c, NULL)
  <2>1. CASE FollowOf(w, c, t) = t
    BY <2>1, <1>2 DEF PlayerPursue
  <2>2. CASE FollowOf(w, c, t) # t
    <3>1. Turned(w, v, NULL)
      BY FollowTurns
    <3>2. Well(v) /\ Here(v, c)
      BY <3>1, TurnOn
    <3>3. Turned(v, u, NULL)
      BY <3>2, AimTurns
    <3>4. Turned(w, u, NULL)
      BY <3>1, <3>3, TurnedTurned
    <3>5. PlayerPursue(w, c, t) = u
      BY <2>2 DEF PlayerPursue
    <3> HIDE DEF u
    <3> QED BY <3>4, <3>5, TurnedLess
  <2> QED BY <2>1, <2>2
<1> QED BY <1>2, <1>3 DEF SetFollow

\* Between the calls anybody may follow one in the game,
LEMMA FollowQuiet ==
  ASSUME NEW w, Quiet(w), NEW c \in Creature, Here(w, c), NEW t \in Creature \cup {NULL},
         t # NULL => InGame(w, t)
  PROVE  Quiet(SetFollow(w, c, t))
<1>1. Well(w)
  BY QuietIs
<1>2. Turned(w, SetFollow(w, c, t), t)
  BY <1>1, SetFollowTurns
<1>3. \A d \in Creature : SetFollow(w, c, t)[d].target \in {w[d].target, NULL}
  BY <1>1, FollowTargets
<1> QED BY <1>2, <1>3, TurnedQuiet

\* Turning away.
LEMMA AwayQuiet ==
  ASSUME NEW w, Quiet(w), NEW v, Turned(w, v, NULL)
  PROVE  Quiet(v)
<1>1. \A c \in Creature : v[c].target \in {w[c].target, NULL}
  BY TurnedLess
<1> QED BY <1>1, TurnedQuiet

\* and a monster may pick one as its target.
LEMMA SelectQuiet ==
  ASSUME NEW w, Quiet(w), NEW c \in Creature, Here(w, c), NEW t \in Creature
  PROVE  Quiet(Select(w, c, t))
<1>1. Well(w)
  BY QuietIs
<1>2. Turned(w, Select(w, c, t), IF IsTarget(w, c, t) THEN t ELSE NULL)
  BY <1>1, SelectTurns
<1>3. CASE IsTarget(w, c, t)
  <2>1. InGame(w, t) /\ w[t].at \notin Protected
    BY <1>3 DEF IsTarget
  <2>2. Turned(w, Select(w, c, t), t)
    BY <1>2, <1>3
  <2> QED BY <2>1, <2>2, TurnedQuiet
<1>4. CASE ~IsTarget(w, c, t)
  BY <1>2, <1>4, AwayQuiet
<1> QED BY <1>3, <1>4

\* A monster makes up its mind.
LEMMA MindedQuiet ==
  ASSUME NEW w, Quiet(w), NEW v, NEW m \in Monsters, Minded(w, v, m),
         InGame(w, m) => Calm(w, v, m, {}) /\ Stays(w, v, m)
  PROVE  Quiet(v)
<1>1. Well(w) /\ w \in Worlds /\ Kin(w) /\ Monsters \subseteq Creature /\ Players \subseteq Creature
  BY QuietIs
<1>2. Well(v) /\ v \in Worlds
  BY <1>1, SameWell DEF Minded, Well
<1>3. \A c \in Creature :
        /\ InGame(v, c) = InGame(w, c) /\ v[c].at = w[c].at /\ v[c].alive = w[c].alive
        /\ v[c].master = w[c].master /\ v[c].wild = w[c].wild
        /\ v[c].target = w[c].target /\ v[c].follow = w[c].follow
        /\ \A p : Sees(v, c, p) = Sees(w, c, p)
        /\ \A u \in Creature : CanAim(v, c, u) = CanAim(w, c, u)
  BY SameSees DEF Minded, Same
<1>4. \A c \in Creature : c # m => v[c] = w[c]
  BY DEF Minded
<1>5. Kin(v)
  BY <1>1, <1>3 DEF Kin
<1>6. ASSUME NEW c \in Creature, InGame(v, c) PROVE Eyes(v, c)
  <2>1. Eyes(w, c)
    BY <1>3, <1>6 DEF Quiet
  <2>2. \A u \in {v[c].target, v[c].follow} \ {NULL} : u \in Creature
    BY <1>2 DEF Worlds, Objects
  <2> QED BY <2>1, <2>2, <1>3 DEF Eyes
<1>7. ASSUME NEW d \in Monsters, InGame(v, d) PROVE Mind(v, d)
  <2>1. InGame(w, d) /\ Mind(w, d)
    BY <1>1, <1>3, <1>7 DEF Quiet
  <2>2. /\ v[d].alive = w[d].alive /\ v[d].wild = w[d].wild /\ v[d].master = w[d].master
        /\ \A p : Sees(v, d, p) = Sees(w, d, p)
    BY <1>1, <1>3
  <2>3. \A p \in Players : InGame(v, p) = InGame(w, p) /\ v[p].at = w[p].at
    BY <1>1, <1>3
  <2>4. CASE d # m
    <3>1. v[d] = w[d]
      BY <2>4, <1>1, <1>4
    <3> QED BY <3>1, <2>1, <2>2, <2>3 DEF Mind, Alert, Rests
  <2>5. CASE d = m
    <3>1. Calm(w, v, m, {}) /\ Stays(w, v, m) /\ Alert(w, m)
      BY <2>1, <2>5 DEF Mind
    <3>2. w[m].wild => w[m].master = NULL
      BY <1>1 DEF Kin
    <3>3. Alert(v, m)
      BY <3>1 DEF Calm
    <3>4. ASSUME w[m].wild
          PROVE  /\ Rests(v, m)
                 /\ \A p \in Players : InGame(v, p) /\ Sees(v, m, v[p].at) => p \in v[m].targets
      BY <3>1, <3>2, <3>4, <2>1, <2>2, <2>3, <2>5 DEF Calm, Mind
    <3>5. w[m].master \in Players /\ Sees(w, m, w[w[m].master].at) => v[m].near /\ ~v[m].idle
      BY <3>1, <2>1, <2>5 DEF Mind, Stays
    <3> QED BY <3>3, <3>4, <3>5, <2>2, <2>3, <2>5 DEF Mind
  <2> QED BY <2>4, <2>5
<1> QED BY <1>2, <1>5, <1>6, <1>7 DEF Quiet

\* A player attacks, or stops to,
LEMMA AttackQuiet ==
  ASSUME Quiet(creature), NEW p \in Players, NEW t \in Creature \cup {NULL}, Attack(p, t)
  PROVE  Quiet(creature')
<1>1. Well(creature) /\ p \in Creature /\ Here(creature, p)
  BY QuietIs DEF Attack
<1>2. PICK chase \in BOOLEAN : Becomes(PlayerAim(creature, p, t, chase))
  BY DEF Attack
<1> DEFINE v == PlayerAim(creature, p, t, chase)
<1>3. Turned(creature, v, t)
  BY <1>1, PlayerAimTurns
<1> HIDE DEF v
<1>4. CASE t = NULL
  <2>1. Turned(creature, v, NULL)
    BY <1>3, <1>4
  <2>2. Quiet(v)
    BY <2>1, AwayQuiet
  <2> QED BY <2>2, <1>2, BecomesQuiet DEF v
<1>5. CASE t # NULL
  <2>1. InGame(creature, t) /\ creature[t].at \notin Protected
    BY <1>5 DEF Attack, MayAttack
  <2>2. Quiet(v)
    BY <2>1, <1>3, TurnedQuiet
  <2> QED BY <2>2, <1>2, BecomesQuiet DEF v
<1> QED BY <1>4, <1>5

\* follows or stops,
LEMMA FollowActQuiet ==
  ASSUME Quiet(creature), NEW p \in Players, NEW t \in Creature \cup {NULL}, Follow(p, t)
  PROVE  Quiet(creature')
<1> DEFINE v == SetAttacked(creature, p, NULL)
<1>1. Well(creature) /\ p \in Creature /\ Here(creature, p)
  BY QuietIs DEF Follow
<1>2. Turned(creature, v, NULL)
  BY <1>1, SetAttackedTurns
<1> HIDE DEF v
<1>3. Quiet(v)
  BY <1>2, AwayQuiet
<1>4. Here(v, p)
  BY <1>1, <1>2, TurnOn
<1>5. t # NULL => InGame(v, t)
  BY <1>2, SameSees DEF Turned, Follow
<1>6. Quiet(SetFollow(v, p, t))
  BY <1>1, <1>3, <1>4, <1>5, FollowQuiet
<1> QED BY <1>6, BecomesQuiet DEF Follow, v

\* and changes how he fights.
LEMMA ChaseQuiet ==
  ASSUME Quiet(creature), NEW p \in Players, Chase(p)
  PROVE  Quiet(creature')
<1>1. Well(creature) /\ creature \in Worlds /\ p \in Creature /\ Here(creature, p) /\ Eyes(creature, p)
  BY QuietIs DEF Chase
<1>2. creature[p].target \in Creature /\ InGame(creature, creature[p].target)
  BY <1>1 DEF Worlds, Objects, Chase, Eyes
<1>3. Quiet(SetFollow(creature, p, NULL))
  BY <1>1, FollowQuiet
<1>4. Quiet(SetFollow(creature, p, creature[p].target))
  BY <1>1, <1>2, FollowQuiet
<1> QED BY <1>3, <1>4, BecomesQuiet DEF Chase

\* Who cannot be seen is not pursued.
LEMMA LoseQuiet ==
  ASSUME Quiet(creature), NEW c \in Creature, Lose(c)
  PROVE  Quiet(creature')
<1>1. Well(creature) /\ creature \in Worlds /\ Here(creature, c)
  BY QuietIs DEF Lose
<1>2. CASE creature[c].follow # NULL /\ Becomes(Disappear(creature, c, creature[c].follow))
  <2>1. creature[c].follow \in Creature
    BY <1>1, <1>2 DEF Worlds, Objects
  <2>2. Turned(creature, Disappear(creature, c, creature[c].follow), NULL)
    BY <1>1, <2>1, DisappearTurns
  <2>3. Quiet(Disappear(creature, c, creature[c].follow))
    BY <2>2, AwayQuiet
  <2> QED BY <1>2, <2>3, BecomesQuiet
<1>3. CASE Becomes(SetAttacked(creature, c, NULL))
  <2>1. Turned(creature, SetAttacked(creature, c, NULL), NULL)
    BY <1>1, SetAttackedTurns
  <2>2. Quiet(SetAttacked(creature, c, NULL))
    BY <2>1, AwayQuiet
  <2> QED BY <1>3, <2>2, BecomesQuiet
<1> QED BY <1>2, <1>3 DEF Lose

\* Who cannot be reached is taken off the list of a summon.
LEMMA NoWayQuiet ==
  ASSUME Quiet(creature), NEW m \in Monsters, NoWay(m)
  PROVE  Quiet(creature')
<1> DEFINE T == creature[m].targets \ {creature[m].follow}
           v == [creature EXCEPT ![m].targets = T]
<1>1. Well(creature) /\ creature \in Worlds /\ m \in Creature /\ Here(creature, m) /\ Kin(creature)
  BY QuietIs DEF NoWay
<1>2. T \in SUBSET Creature /\ creature[m].master # NULL
  BY <1>1 DEF Worlds, Objects, NoWay
<1> HIDE DEF T
<1>3. Minded(creature, v, m) /\ v[m].near = creature[m].near /\ v[m].idle = creature[m].idle
  BY <1>1, <1>2, ListMinds
<1> HIDE DEF v
<1>4. v[m].alive = creature[m].alive
  BY <1>1, <1>3, MindOn
<1>5. Calm(creature, v, m, {}) /\ Stays(creature, v, m)
  BY <1>2, <1>3, <1>4 DEF Calm, Stays, Alert
<1>6. Quiet(v)
  BY <1>3, <1>5, MindedQuiet
<1>7. Becomes(v)
  BY DEF NoWay, v, T
<1> QED BY <1>6, <1>7, BecomesQuiet

\* Who lives or dies.
LEMMA LivesQuiet ==
  ASSUME NEW w, Quiet(w), NEW m \in Monsters, InGame(w, m), NEW b \in BOOLEAN, b \/ ~w[m].idle
  PROVE  Quiet([w EXCEPT ![m].alive = b])
<1> DEFINE v == [w EXCEPT ![m].alive = b]
<1>1. Well(w) /\ w \in Worlds /\ Kin(w) /\ m \in Creature /\ Monsters \subseteq Creature /\ Players \subseteq Creature
  BY QuietIs
<1>2. v \in Worlds /\ v[m].alive = b
  BY <1>1 DEF Worlds, Objects
<1>3. \A c \in Creature :
        /\ v[c].life = w[c].life /\ v[c].at = w[c].at
        /\ v[c].master = w[c].master /\ v[c].wild = w[c].wild
        /\ v[c].target = w[c].target /\ v[c].follow = w[c].follow
        /\ v[c].targets = w[c].targets /\ v[c].idle = w[c].idle /\ v[c].near = w[c].near
        /\ c # m => v[c] = w[c]
  BY <1>1 DEF Worlds, Objects
<1> HIDE DEF v
<1>4. \A c \in Creature : InGame(v, c) = InGame(w, c) /\ \A p : Sees(v, c, p) = Sees(w, c, p)
  BY <1>3 DEF InGame, Sees
<1>5. Well(v)
  <2>1. \A c \in Creature : IF v[c].life = "none" THEN v[c] = Nobody ELSE v[c].at \in Spots
    BY <1>1, <1>3 DEF Well, InGame
  <2> QED BY <2>1, <1>1, <1>2, <1>3, <1>4 DEF Well
<1>6. Kin(v)
  BY <1>1, <1>3, <1>4 DEF Kin
<1>7. ASSUME NEW c \in Creature, InGame(v, c) PROVE Eyes(v, c)
  <2>1. Eyes(w, c)
    BY <1>4, <1>7 DEF Quiet
  <2>2. \A u \in {v[c].target, v[c].follow} \ {NULL} : u \in Creature
    BY <1>2 DEF Worlds, Objects
  <2>3. \A u \in Creature : CanAim(v, c, u) = CanAim(w, c, u)
    BY <1>3, <1>4 DEF CanAim
  <2> QED BY <2>1, <2>2, <2>3, <1>3, <1>4 DEF Eyes
<1>8. ASSUME NEW d \in Monsters, InGame(v, d) PROVE Mind(v, d)
  <2>1. InGame(w, d) /\ Mind(w, d)
    BY <1>1, <1>4, <1>8 DEF Quiet
  <2>2. /\ v[d].wild = w[d].wild /\ v[d].master = w[d].master
        /\ v[d].targets = w[d].targets /\ v[d].idle = w[d].idle /\ v[d].near = w[d].near
        /\ \A p : Sees(v, d, p) = Sees(w, d, p)
    BY <1>1, <1>3, <1>4
  <2>3. \A p \in Players : InGame(v, p) = InGame(w, p) /\ v[p].at = w[p].at
    BY <1>1, <1>3, <1>4
  <2>4. Alert(v, d)
    BY <2>1, <2>2, <1>1, <1>2, <1>3 DEF Mind, Alert
  <2> QED BY <2>1, <2>2, <2>3, <2>4 DEF Mind, Rests
<1> QED BY <1>5, <1>6, <1>7, <1>8 DEF Quiet, v

\* A monster wakes up to die.
LEMMA KillQuiet ==
  ASSUME Quiet(creature), NEW m \in Monsters, Kill(m)
  PROVE  Quiet(creature')
<1> DEFINE v == SetIdle(creature, m, FALSE)
<1>1. Well(creature) /\ m \in Creature /\ Here(creature, m) /\ InGame(creature, m) /\ creature[m].alive
  BY QuietIs DEF Kill
<1>2. /\ Minded(creature, v, m) /\ v[m].near = creature[m].near
      /\ v[m].idle = FALSE /\ v[m].targets = creature[m].targets
  BY <1>1, SetIdleMinds
<1>3. Becomes([v EXCEPT ![m].alive = FALSE])
  BY DEF Kill
<1> HIDE DEF v
<1>4. v[m].alive = creature[m].alive /\ InGame(v, m)
  <2>1. Minded(creature, v, m)
    BY <1>2
  <2>2. v[m].life = creature[m].life /\ v[m].alive = creature[m].alive
    BY <2>1, <1>1 DEF Minded, Same
  <2>3. v[m].alive = creature[m].alive
    BY <2>2
  <2>4. InGame(v, m)
    BY <2>2, <1>1 DEF InGame
  <2> QED BY <2>3, <2>4
<1>5. Calm(creature, v, m, {}) /\ Stays(creature, v, m)
  BY <1>2, <1>4 DEF Calm, Stays, Alert, Rests
<1>6. Quiet(v)
  BY <1>2, <1>5, MindedQuiet
<1>7. Quiet([v EXCEPT ![m].alive = FALSE])
  BY <1>2, <1>4, <1>6, LivesQuiet
<1> QED BY <1>3, <1>7, BecomesQuiet

\* It is healed in time.
LEMMA HealQuiet ==
  ASSUME Quiet(creature), NEW m \in Monsters, Heal(m)
  PROVE  Quiet(creature')
<1>1. Quiet([creature EXCEPT ![m].alive = TRUE])
  BY LivesQuiet DEF Heal
<1> QED BY <1>1, BecomesQuiet DEF Heal

\* Somebody is to go or to be removed.
LEMMA ActFrame ==
  ASSUME NEW w \in Worlds, NEW c \in Creature, InGame(w, c), NEW a \in {"go", "remove"},
         NEW q \in Spots \cup {NULL}, a = "go" => q \in Spots
  PROVE  /\ Act(a, {c}, q) \in AllCalls /\ Act(a, {c}, q).do = a /\ Act(a, {c}, q).by = {c}
         /\ Frame(w, <<Act(a, {c}, q)>>, 1, c)
<1> DEFINE n == Act(a, {c}, q)
           k == <<n>>
<1>1. a \in Acts
  BY DEF Acts
<1>2. n \in AllCalls /\ n.do = a /\ n.by = {c} /\ n.to = q
  BY <1>1, ActIs
<1> HIDE DEF n
<1>3. DOMAIN k = {1} /\ k[1] = n
  OBVIOUS
<1> HIDE DEF k
<1>4. Addressed(w, n, c)
  BY <1>1, <1>2, Kinds DEF Addressed, InGame, Here
<1>5. OnTheMove(w, k, n)
  <2>1. CASE a = "go"
    BY <2>1, <1>1, <1>2, <1>3, Kinds DEF OnTheMove, Subject, Leaving
  <2>2. CASE a = "remove"
    BY <2>2, <1>2 DEF OnTheMove, Moving, Moves
  <2> QED BY <2>1, <2>2
<1>6. GoesTo(w, k, 1, c)
  BY <1>1, <1>2, <1>3, Kinds DEF GoesTo
<1>7. Forgets(w, k, 1, c) /\ Withdraws(k, 1)
  BY <1>2, <1>3 DEF Forgets, Withdraws
<1>8. MasterLast(w, k, 1)
  BY <1>3 DEF MasterLast
<1> QED BY <1>2, <1>3, <1>4, <1>5, <1>6, <1>7, <1>8 DEF Frame, n, k

\* Such a call may be made between the calls.
LEMMA ActStarts ==
  ASSUME NEW w, Quiet(w), NEW c \in Creature, InGame(w, c), NEW a \in {"go", "remove"},
         NEW q \in Spots \cup {NULL}, a = "go" => q \in Spots
  PROVE  Sound(w, <<Act(a, {c}, q)>>)
<1>1. w \in Worlds
  BY QuietIs
<1> DEFINE n == Act(a, {c}, q)
<1>5. a \in Acts
  BY DEF Acts
<1>2. n \in AllCalls /\ n.do = a /\ n.by = {c} /\ n.to = q
  BY <1>5, ActIs
<1>4. Frame(w, <<n>>, 1, c)
  BY <1>1, ActFrame
<1> HIDE DEF n
<1>3. Sound(w, <<n>>)
  BY <1>2, <1>4, StartSound DEF Quiet
<1> QED BY <1>3 DEF n

\* Going anywhere.
LEMMA MoveQuiet ==
  ASSUME Quiet(creature), NEW c \in Creature, NEW q \in Spots, Move(c, q)
  PROVE  Quiet(creature')
<1>1. PICK luck \in Luck(creature, c) : Calls(creature, <<Act("go", {c}, q)>>, luck)
  BY DEF Move
<1>2. Sound(creature, <<Act("go", {c}, q)>>)
  BY ActStarts DEF Move
<1> QED BY <1>1, <1>2, CallsQuiet

\* Being removed.
LEMMA RemovalQuiet ==
  ASSUME Quiet(creature), NEW c \in Creature, Removal(c)
  PROVE  Quiet(creature')
<1>1. PICK luck \in Luck(creature, c) : Calls(creature, <<Act("remove", {c}, NULL)>>, luck)
  BY DEF Removal
<1>2. Sound(creature, <<Act("remove", {c}, NULL)>>)
  BY ActStarts DEF Removal
<1> QED BY <1>1, <1>2, CallsQuiet

\* A call is made upon the appearing of c.
LEMMA AppearStarts ==
  ASSUME NEW w, Quiet(w), NEW c \in Creature, ~Here(w, c), NEW q \in Spots,
         NEW v \in Worlds, \A d \in Creature : d # c => v[d] = w[d],
         v[c].life = "game", v[c].at = q, v[c].alive, v[c].target = NULL, v[c].follow = NULL,
         v[c].targets = {}, v[c].idle,
         \/ v[c].master = NULL
         \/ /\ c \in Monsters /\ ~v[c].wild /\ v[c].master \in Creature /\ InGame(w, v[c].master)
            /\ \A n \in Creature : w[n].master = NULL
  PROVE  Sound(v, <<Call("appear", Spectators(v, q), c, NULL, NULL)>>)
<1> DEFINE told == Spectators(v, q)
           n == Call("appear", told, c, NULL, NULL)
           k == <<n>>
<1>1. /\ Well(w) /\ w \in Worlds /\ Kin(w)
      /\ \A d \in Creature : InGame(w, d) => Eyes(w, d) /\ Here(w, d)
      /\ \A m \in Monsters : InGame(w, m) => Mind(w, m)
      /\ Monsters \subseteq Creature /\ Players \subseteq Creature
  BY QuietIs
<1>2. told \in SUBSET Creature /\ \A y \in told : InGame(v, y)
  BY DEF Spectators
<1>3. \A d \in Creature : InGame(v, d) /\ (Sees(v, d, q) \/ d = c) => d \in told
  BY TargetsAssumption DEF Spectators, Sees
<1> HIDE DEF told
<1>4. n \in AllCalls /\ n.do = "appear" /\ n.by = told /\ n.of = c
  BY <1>2 DEF Call, AllCalls, Notices
<1> HIDE DEF n
<1>5. DOMAIN k = {1} /\ k[1] = n
  OBVIOUS
<1> HIDE DEF k
<1>6. InGame(v, c) /\ ~InGame(w, c) /\ \A d \in Creature : d # c => InGame(v, d) = InGame(w, d)
  BY DEF InGame, Here
<1>7. Well(v)
  <2>1. \A d \in Creature : IF v[d].life = "none" THEN v[d] = Nobody ELSE v[d].at \in Spots
    <3>1. \A d \in Creature : d # c => IF v[d].life = "none" THEN v[d] = Nobody ELSE v[d].at \in Spots
      BY <1>1 DEF Well
    <3> QED BY <3>1
  <2>2. \A m \in Creature : v[m].master # NULL => InGame(v, m)
    BY <1>1, <1>6 DEF Well
  <2> QED BY <2>1, <2>2 DEF Well
<1>8. Kin(v)
  <2>1. ASSUME NEW m \in Creature, v[m].master # NULL
        PROVE  /\ m \in Monsters /\ InGame(v, m) /\ ~v[m].wild /\ v[m].master # m
               /\ v[m].master \in Creature /\ InGame(v, v[m].master)
               /\ \A d \in Creature : v[d].master # NULL => d = m
    <3>1. CASE m = c
      <4>1. /\ c \in Monsters /\ ~v[c].wild /\ v[c].master \in Creature /\ InGame(w, v[c].master)
            /\ \A d \in Creature : w[d].master = NULL
        BY <3>1, <2>1
      <4>2. v[c].master # c
        BY <4>1, <1>6
      <4>3. \A d \in Creature : v[d].master # NULL => d = m
        BY <4>1, <3>1
      <4> QED BY <3>1, <4>1, <4>2, <4>3, <1>6
    <3>2. CASE m # c
      <4>1. v[m] = w[m] /\ w[m].master # NULL
        BY <3>2, <2>1
      <4>2. /\ m \in Monsters /\ InGame(w, m) /\ ~w[m].wild /\ w[m].master # m
            /\ w[m].master \in Creature /\ InGame(w, w[m].master)
            /\ \A d \in Creature : w[d].master # NULL => d = m
        BY <4>1, <1>1 DEF Kin
      <4>3. v[c].master = NULL
        BY <4>1
      <4>4. \A d \in Creature : v[d].master # NULL => d = m
        BY <4>2, <4>3
      <4> QED BY <3>2, <4>1, <4>2, <4>4, <1>6
    <3> QED BY <3>1, <3>2
  <2> QED BY <2>1 DEF Kin
<1>9. ASSUME NEW y \in n.by PROVE Frame(v, k, 1, y)
  <2>1. y \in Creature /\ Here(v, y)
    BY <1>2, <1>4, <1>9 DEF InGame, Here
  <2>2. Addressed(v, n, y)
    BY <2>1, <1>4 DEF Addressed, Acts
  <2>3. OnTheMove(v, k, n)
    BY <1>4 DEF OnTheMove, Moving, Moves
  <2>4. GoesTo(v, k, 1, y) /\ Forgets(v, k, 1, y) /\ Withdraws(k, 1)
    BY <1>4, <1>5 DEF GoesTo, Forgets, Withdraws
  <2>5. MasterLast(v, k, 1)
    BY <1>5 DEF MasterLast
  <2> QED BY <2>2, <2>3, <2>4, <2>5, <1>5 DEF Frame
<1>10. ASSUME NEW d \in Creature, InGame(v, d) PROVE Eyes(v, d)
  <2>1. CASE d = c
    BY <2>1 DEF Eyes
  <2>2. CASE d # c
    <3>1. v[d] = w[d] /\ InGame(w, d) /\ Eyes(w, d)
      BY <2>2, <1>1, <1>6, <1>10
    <3>2. ASSUME NEW t \in {v[d].target, v[d].follow} \ {NULL}
          PROVE  InGame(v, t) /\ CanAim(v, d, t) /\ v[t] = w[t]
      <4>1. t \in Creature /\ InGame(w, t) /\ CanAim(w, d, t)
        BY <3>1, <3>2 DEF Eyes, Worlds, Objects
      <4>2. v[t] = w[t] /\ InGame(v, t)
        BY <4>1, <1>6
      <4> QED BY <4>1, <4>2, <3>1 DEF CanAim, Sees
    <3> QED BY <3>1, <3>2 DEF Eyes
  <2> QED BY <2>1, <2>2
<1>11. ASSUME NEW m \in Monsters, InGame(v, m) PROVE AwakeOf(v, k, m)
  <2>1. CASE m = c
    <3>1. Alert(v, m) /\ Rests(v, m)
      BY <2>1 DEF Alert, Rests
    <3>2. m \in n.by
      BY <2>1, <1>3, <1>4, <1>6
    <3>3. \A p : Tells(v, n, m, p)
      BY <2>1, <3>2, <1>4 DEF Tells
    <3>4. Wakes(v, n, m)
      BY <2>1, <3>2, <1>4 DEF Wakes
    <3> QED BY <3>1, <3>3, <3>4, <1>5 DEF AwakeOf, Watches, Serves, Known, Served
  <2>2. CASE m # c
    <3>1. m \in Creature /\ v[m] = w[m] /\ InGame(w, m) /\ Mind(w, m)
      BY <2>2, <1>1, <1>6, <1>11
    <3>2. \A p : Sees(v, m, p) = Sees(w, m, p)
      BY <3>1 DEF Sees
    <3>3. Alert(v, m)
      BY <3>1 DEF Mind, Alert
    <3>4. Watches(v, k, m)
      <4>1. SUFFICES ASSUME w[m].wild
                     PROVE  /\ Rests(v, m)
                            /\ \A p \in Players : InGame(v, p) /\ Sees(v, m, v[p].at) => Known(v, k, m, p)
        BY <3>1 DEF Watches
      <4>2. Rests(w, m) /\ \A p \in Players : InGame(w, p) /\ Sees(w, m, w[p].at) => p \in w[m].targets
        BY <4>1, <3>1 DEF Mind
      <4>3. Rests(v, m)
        BY <4>2, <3>1 DEF Rests
      <4>4. ASSUME NEW p \in Players, InGame(v, p), Sees(v, m, v[p].at) PROVE Known(v, k, m, p)
        <5>1. CASE p = c
          <6>1. m \in n.by
            BY <5>1, <4>4, <3>1, <1>3, <1>4, <1>11
          <6>2. Tells(v, k[1], m, p)
            BY <5>1, <6>1, <1>4, <1>5 DEF Tells
          <6> QED BY <6>2, <1>5 DEF Known
        <5>2. CASE p # c
          <6>1. InGame(w, p) /\ Sees(w, m, w[p].at)
            BY <5>2, <4>4, <3>2, <1>1, <1>6
          <6> QED BY <6>1, <4>2, <3>1 DEF Known
        <5> QED BY <5>1, <5>2
      <4> QED BY <4>3, <4>4
    <3>5. Serves(v, k, m)
      <4>1. SUFFICES ASSUME w[m].master \in Players, Sees(v, m, v[w[m].master].at)
                     PROVE  w[m].near /\ ~w[m].idle
        BY <3>1 DEF Serves, Served
      <4>2. InGame(w, w[m].master)
        BY <4>1, <3>1, <1>1, Apart DEF Kin
      <4>3. w[m].master # c
        BY <4>2, <1>6
      <4>4. Sees(w, m, w[w[m].master].at)
        BY <4>1, <4>3, <3>2, <1>1
      <4> QED BY <4>1, <4>4, <3>1 DEF Mind
    <3> QED BY <3>3, <3>4, <3>5 DEF AwakeOf
  <2> QED BY <2>1, <2>2
<1>12. Sound(v, <<n>>)
  <2>1. n.do # "removed"
    BY <1>4
  <2> QED BY <2>1, <1>4, <1>7, <1>8, <1>9, <1>10, <1>11, StartSound DEF k
<1> QED BY <1>12 DEF n, told

\* A player or a monster appears,
LEMMA AppearQuiet ==
  ASSUME Quiet(creature), NEW c \in Creature, NEW q \in Spots, Appear(c, q)
  PROVE  Quiet(creature')
<1> DEFINE v == [creature EXCEPT ![c] = [@ EXCEPT !.life = "game", !.at = q]]
           k == <<Call("appear", Spectators(v, q), c, NULL, NULL)>>
<1>1. Well(creature) /\ creature \in Worlds
  BY QuietIs
<1>2. creature[c] = Nobody /\ ~Here(creature, c)
  BY <1>1 DEF Well, Appear, Here
<1>3. PICK luck \in Luck(v, NULL) : Calls(v, k, luck)
  BY DEF Appear, Place
<1>4. /\ v \in Worlds /\ \A d \in Creature : d # c => v[d] = creature[d]
      /\ v[c].life = "game" /\ v[c].at = q /\ v[c].alive /\ v[c].target = NULL /\ v[c].follow = NULL
      /\ v[c].targets = {} /\ v[c].idle /\ v[c].master = NULL
  <2>1. v[c] = [Nobody EXCEPT !.life = "game", !.at = q] /\ \A d \in Creature : d # c => v[d] = creature[d]
    BY <1>1, <1>2 DEF Worlds
  <2>5. v = [d \in Creature |-> v[d]]
    BY <1>1 DEF Worlds
  <2> HIDE DEF v
  <2>2. v[c] \in Objects
    BY <2>1, NobodyTyped DEF Objects
  <2>6. \A d \in Creature : v[d] \in Objects
    BY <1>1, <2>1, <2>2 DEF Worlds
  <2>3. v \in Worlds
    BY <2>5, <2>6 DEF Worlds
  <2>4. /\ v[c].life = "game" /\ v[c].at = q /\ v[c].alive /\ v[c].target = NULL /\ v[c].follow = NULL
        /\ v[c].targets = {} /\ v[c].idle /\ v[c].master = NULL
    BY <2>1 DEF Nobody
  <2> QED BY <2>1, <2>3, <2>4
<1> HIDE DEF v
<1>5. Sound(v, k)
  BY <1>2, <1>4, AppearStarts
<1> QED BY <1>3, <1>5, CallsQuiet

\* or a summon beside its master.
LEMMA SummonQuiet ==
  ASSUME Quiet(creature), NEW c \in Creature, NEW m \in Monsters, Summon(c, m)
  PROVE  Quiet(creature')
<1> DEFINE q == creature[c].at
           w == Owned(creature, c, m)
           v == [w EXCEPT ![m] = [@ EXCEPT !.life = "game", !.at = q]]
           k == <<Call("appear", Spectators(v, q), m, NULL, NULL)>>
<1>1. Well(creature) /\ creature \in Worlds /\ m \in Creature /\ Kin(creature) /\ InGame(creature, c)
      /\ Players \subseteq Creature
  BY QuietIs DEF Summon
<1>2. creature[m] = Nobody /\ ~Here(creature, m) /\ q \in Spots
  BY <1>1 DEF Well, Summon, Here, InGame
<1>3. PICK luck \in Luck(v, NULL) : Calls(v, k, luck)
  BY DEF Summon, Place
<1>4. /\ v \in Worlds /\ \A d \in Creature : d # m => v[d] = creature[d]
      /\ v[m].life = "game" /\ v[m].at = q /\ v[m].alive /\ v[m].target = NULL /\ v[m].follow = NULL
      /\ v[m].targets = {} /\ v[m].idle /\ v[m].master = c /\ ~v[m].wild
  <2>1. w \in Worlds /\ w[m] = [Nobody EXCEPT !.master = c, !.wild = FALSE]
        /\ \A d \in Creature : d # m => w[d] = creature[d]
    BY <1>1, <1>2 DEF Owned, Worlds, Objects, Nobody
  <2> HIDE DEF w
  <2> QED BY <2>1, <1>1, <1>2 DEF Worlds, Objects, Nobody
<1> HIDE DEF v
<1>5. \A n \in Creature : creature[n].master = NULL
  <2>1. SUFFICES ASSUME NEW n \in Creature, creature[n].master # NULL PROVE FALSE
    OBVIOUS
  <2>2. n \in Monsters /\ InGame(creature, creature[n].master)
    BY <2>1, <1>1 DEF Kin
  <2>3. creature[n].master = m
    BY <2>1, <2>2 DEF Summon, NoOther
  <2> QED BY <2>2, <2>3, <1>2 DEF InGame, Here
<1>6. Sound(v, k)
  BY <1>1, <1>2, <1>4, <1>5, AppearStarts
<1> QED BY <1>3, <1>6, CallsQuiet

-----------------------------------------------------------------------------
(* Who dies or is convinced: summons and aims are let go, and m's own list    *)
(* may be.                                                                    *)

Loosens(w, v, m) ==
  /\ v \in Worlds
  /\ \A d \in Creature :
       /\ v[d].life = w[d].life /\ v[d].at = w[d].at /\ v[d].wild = w[d].wild /\ v[d].near = w[d].near
       /\ v[d].target \in {w[d].target, NULL} /\ v[d].follow \in {w[d].follow, NULL}
       /\ v[d].master \in {w[d].master, NULL}
       /\ w[d].life = "none" => v[d] = w[d]
       /\ Alert(w, d) => Alert(v, d)
       /\ d # m /\ v[d].master = w[d].master => v[d].idle = w[d].idle /\ v[d].targets = w[d].targets

\* Quiet, but for what m knows.
Nearly(w, m) ==
  /\ Well(w) /\ Kin(w)
  /\ \A c \in Creature : InGame(w, c) => Eyes(w, c)
  /\ \A d \in Monsters : InGame(w, d) => IF d = m THEN Alert(w, m) ELSE Mind(w, d)

\* What is let go twice is let go.
LEMMA LoosensLoosens ==
  ASSUME NEW w, NEW v, NEW u, NEW m, Loosens(w, v, m), Loosens(v, u, m)
  PROVE  Loosens(w, u, m)
<1>1. ASSUME NEW d \in Creature
      PROVE  /\ u[d].life = w[d].life /\ u[d].at = w[d].at /\ u[d].wild = w[d].wild /\ u[d].near = w[d].near
             /\ u[d].target \in {w[d].target, NULL} /\ u[d].follow \in {w[d].follow, NULL}
             /\ u[d].master \in {w[d].master, NULL}
             /\ w[d].life = "none" => u[d] = w[d]
             /\ Alert(w, d) => Alert(u, d)
             /\ d # m /\ u[d].master = w[d].master => u[d].idle = w[d].idle /\ u[d].targets = w[d].targets
  BY DEF Loosens
<1> QED BY <1>1 DEF Loosens

\* Letting go leaves the world in order, and everybody where he is.
LEMMA LoosensWell ==
  ASSUME NEW w, Well(w), NEW v, NEW m, Loosens(w, v, m)
  PROVE  /\ Well(v) /\ \A d \in Creature : InGame(v, d) = InGame(w, d) /\ Here(v, d) = Here(w, d)
         /\ \A d \in Creature : \A p : Sees(v, d, p) = Sees(w, d, p)
<1>1. \A d \in Creature : InGame(v, d) = InGame(w, d) /\ Here(v, d) = Here(w, d)
  BY DEF Loosens, InGame, Here
<1>2. \A d \in Creature : \A p : Sees(v, d, p) = Sees(w, d, p)
  BY DEF Loosens, Sees
<1>3. \A d \in Creature : IF v[d].life = "none" THEN v[d] = Nobody ELSE v[d].at \in Spots
  BY DEF Loosens, Well
<1>4. \A d \in Creature : v[d].master # NULL => InGame(v, d)
  BY <1>1 DEF Loosens, Well
<1> QED BY <1>1, <1>2, <1>3, <1>4 DEF Well, Loosens

\* What is let go troubles nobody else.
LEMMA LoosensNearly ==
  ASSUME NEW w, Quiet(w), NEW v, NEW m, Loosens(w, v, m)
  PROVE  Nearly(v, m)
<1>1. Well(w) /\ w \in Worlds /\ Kin(w) /\ Monsters \subseteq Creature /\ Players \subseteq Creature
  BY QuietIs
<1>2. /\ Well(v) /\ \A d \in Creature : InGame(v, d) = InGame(w, d) /\ Here(v, d) = Here(w, d)
      /\ \A d \in Creature : \A p : Sees(v, d, p) = Sees(w, d, p)
  BY <1>1, LoosensWell
<1>3. \A d \in Creature :
        /\ v[d].at = w[d].at /\ v[d].wild = w[d].wild /\ v[d].near = w[d].near
        /\ v[d].target \in {w[d].target, NULL} /\ v[d].follow \in {w[d].follow, NULL}
        /\ v[d].master \in {w[d].master, NULL}
        /\ Alert(w, d) => Alert(v, d)
        /\ d # m /\ v[d].master = w[d].master => v[d].idle = w[d].idle /\ v[d].targets = w[d].targets
  BY DEF Loosens
<1>4. Kin(v)
  <2>1. ASSUME NEW d \in Creature, v[d].master # NULL
        PROVE  /\ d \in Monsters /\ InGame(v, d) /\ ~v[d].wild /\ v[d].master # d
               /\ v[d].master \in Creature /\ InGame(v, v[d].master)
               /\ \A n \in Creature : v[n].master # NULL => n = d
    <3>1. v[d].master = w[d].master /\ w[d].master # NULL
      BY <2>1, <1>3
    <3>2. /\ d \in Monsters /\ InGame(w, d) /\ ~w[d].wild /\ w[d].master # d
          /\ w[d].master \in Creature /\ InGame(w, w[d].master)
          /\ \A n \in Creature : w[n].master # NULL => n = d
      BY <3>1, <1>1 DEF Kin
    <3>3. \A n \in Creature : v[n].master # NULL => n = d
      BY <3>2, <1>3
    <3> QED BY <3>1, <3>2, <3>3, <1>2, <1>3
  <2> QED BY <2>1 DEF Kin
<1>5. ASSUME NEW c \in Creature, InGame(v, c) PROVE Eyes(v, c)
  <2>1. Eyes(w, c)
    BY <1>2, <1>5 DEF Quiet
  <2>2. ASSUME NEW t \in {v[c].target, v[c].follow} \ {NULL}
        PROVE  InGame(v, t) /\ CanAim(v, c, t)
    <3>1. t \in {w[c].target, w[c].follow} \ {NULL}
      BY <2>2, <1>3
    <3>2. t \in Creature /\ InGame(w, t) /\ CanAim(w, c, t)
      BY <3>1, <2>1, <1>1 DEF Eyes, Worlds, Objects
    <3> QED BY <3>2, <1>2, <1>3 DEF CanAim
  <2>3. ASSUME v[c].target # NULL PROVE v[v[c].target].at \notin Protected
    <3>1. v[c].target = w[c].target /\ w[c].target \in Creature
      BY <2>3, <1>1, <1>3 DEF Worlds, Objects
    <3> QED BY <3>1, <2>1, <2>3, <1>3 DEF Eyes
  <2> QED BY <2>2, <2>3 DEF Eyes
<1>6. ASSUME NEW d \in Monsters, InGame(v, d), d # m PROVE Mind(v, d)
  <2>1. d \in Creature /\ Mind(w, d) /\ InGame(w, d)
    BY <1>1, <1>2, <1>6 DEF Quiet
  <2>2. Alert(v, d)
    BY <2>1, <1>3 DEF Mind
  <2>3. CASE v[d].master = w[d].master
    <3>1. v[d].idle = w[d].idle /\ v[d].targets = w[d].targets
      BY <2>1, <2>3, <1>3, <1>6
    <3>2. v[d].wild => /\ Rests(v, d)
                       /\ \A p \in Players : InGame(v, p) /\ Sees(v, d, v[p].at) => p \in v[d].targets
      BY <3>1, <2>1, <1>1, <1>2, <1>3 DEF Mind, Rests
    <3>3. v[d].master \in Players /\ Sees(v, d, v[v[d].master].at) => v[d].near /\ ~v[d].idle
      BY <3>1, <2>1, <2>3, <1>1, <1>2, <1>3 DEF Mind
    <3> QED BY <2>2, <3>2, <3>3 DEF Mind
  <2>4. CASE v[d].master # w[d].master
    <3>1. v[d].master = NULL /\ w[d].master # NULL
      BY <2>1, <2>4, <1>3
    <3>2. ~v[d].wild
      BY <3>1, <2>1, <1>1, <1>3 DEF Kin
    <3>3. v[d].master \notin Players
      BY <3>1, <1>1, Apart
    <3> QED BY <2>2, <3>2, <3>3 DEF Mind
  <2> QED BY <2>3, <2>4
<1>7. ASSUME m \in Monsters, InGame(v, m) PROVE Alert(v, m)
  <2>1. m \in Creature /\ InGame(w, m)
    BY <1>1, <1>2, <1>7
  <2>2. Alert(w, m)
    BY <2>1, <1>7 DEF Quiet, Mind
  <2> QED BY <2>1, <2>2, <1>3
<1> QED BY <1>2, <1>4, <1>5, <1>6, <1>7 DEF Nearly

\* Who turns away lets go.
LEMMA TurnedLoosens ==
  ASSUME NEW w, Well(w), NEW v, Turned(w, v, NULL), NEW m
  PROVE  Loosens(w, v, m)
<1>1. v \in Worlds
  BY DEF Turned, Same
<1>2. ASSUME NEW d \in Creature
      PROVE  /\ v[d].life = w[d].life /\ v[d].at = w[d].at /\ v[d].wild = w[d].wild /\ v[d].near = w[d].near
             /\ v[d].master = w[d].master /\ v[d].alive = w[d].alive
             /\ w[d].life = "none" => v[d] = w[d]
             /\ v[d].idle = w[d].idle /\ v[d].targets = w[d].targets
  BY DEF Turned, Same
<1>3. \A d \in Creature : v[d].target \in {w[d].target, NULL} /\ v[d].follow \in {w[d].follow, NULL}
  BY TurnedLess
<1>4. \A d \in Creature : Alert(w, d) => Alert(v, d)
  BY <1>2 DEF Alert
<1> QED BY <1>1, <1>2, <1>3, <1>4 DEF Loosens

\* So does who has no master any more, or who follows nobody, or forgets.
LEMMA EditLoosens ==
  ASSUME NEW w, Well(w), NEW m \in Creature, Here(w, m), NEW a \in Objects,
         a.life = w[m].life, a.at = w[m].at, a.wild = w[m].wild, a.near = w[m].near,
         a.target = w[m].target, a.follow \in {w[m].follow, NULL}, a.master \in {w[m].master, NULL},
         a.alive = w[m].alive, a.idle = w[m].idle
  PROVE  Loosens(w, [w EXCEPT ![m] = a], m)
<1> DEFINE v == [w EXCEPT ![m] = a]
<1>1. w \in Worlds
  BY DEF Well
<1>2. v \in Worlds /\ v[m] = a /\ \A d \in Creature : d # m => v[d] = w[d]
  BY <1>1 DEF Worlds
<1> HIDE DEF v
<1>3. Alert(w, m) => Alert(v, m)
  BY <1>2 DEF Alert
<1>4. ASSUME NEW d \in Creature
      PROVE  /\ v[d].life = w[d].life /\ v[d].at = w[d].at /\ v[d].wild = w[d].wild /\ v[d].near = w[d].near
             /\ v[d].target \in {w[d].target, NULL} /\ v[d].follow \in {w[d].follow, NULL}
             /\ v[d].master \in {w[d].master, NULL}
             /\ w[d].life = "none" => v[d] = w[d]
             /\ Alert(w, d) => Alert(v, d)
             /\ d # m /\ v[d].master = w[d].master => v[d].idle = w[d].idle /\ v[d].targets = w[d].targets
  <2>1. CASE d = m
    BY <2>1, <1>2, <1>3 DEF Here
  <2>2. CASE d # m
    <3>1. v[d] = w[d]
      BY <2>2, <1>2
    <3> QED BY <3>1 DEF Alert
  <2> QED BY <2>1, <2>2
<1>5. Loosens(w, v, m)
  BY <1>2, <1>4 DEF Loosens
<1> QED BY <1>5 DEF v

\* The summons that are destroyed are awake.
LEMMA DestroyLoosens ==
  ASSUME NEW w, Well(w), NEW c \in Creature, NEW m
  PROVE  /\ Loosens(w, DestroySummons(w, c), m)
         /\ \A d \in Creature : DestroySummons(w, c)[d].master =
                                  IF d \in Summons(w, c) THEN NULL ELSE w[d].master
<1> DEFINE v == DestroySummons(w, c)
           awake(d) == SetIdle(w, d, FALSE)[d]
<1>1. w \in Worlds /\ NULL \notin Creature /\ Monsters \subseteq Creature
  BY Apart DEF Well, Creature
<1>2. /\ \A d \in Creature : d \in Summons(w, c) =>
           v[d] = [awake(d) EXCEPT !.target = NULL, !.alive = FALSE, !.master = NULL]
      /\ \A d \in Creature : d \notin Summons(w, c) => v[d] = w[d]
      /\ v = [d \in Creature |-> v[d]]
  BY <1>1 DEF DestroySummons
<1>3. ASSUME NEW d \in Summons(w, c)
      PROVE  /\ d \in Creature /\ InGame(w, d) /\ awake(d) \in Objects
             /\ awake(d).life = w[d].life /\ awake(d).at = w[d].at /\ awake(d).wild = w[d].wild
             /\ awake(d).near = w[d].near /\ awake(d).follow = w[d].follow
             /\ Alert(w, d) => ~awake(d).idle
  <2>1. d \in Creature /\ w[d].master # NULL
    BY <1>1, <1>3 DEF Summons
  <2>2. InGame(w, d) /\ Here(w, d)
    BY <2>1 DEF Well, InGame, Here
  <2> DEFINE u == SetIdle(w, d, FALSE)
  <2>3. /\ Minded(w, u, d) /\ u[d].near = w[d].near
        /\ IF InGame(w, d) /\ w[d].alive
           THEN u[d].idle = FALSE /\ u[d].targets = w[d].targets
           ELSE u = w
    BY <2>1, <2>2, SetIdleMinds
  <2> HIDE DEF u
  <2>4. u \in Worlds /\ u[d].life = w[d].life /\ u[d].at = w[d].at /\ u[d].wild = w[d].wild
        /\ u[d].follow = w[d].follow
    BY <2>1, <2>3 DEF Minded, Same
  <2>5. u[d] \in Objects
    BY <2>1, <2>4 DEF Worlds
  <2>6. Alert(w, d) => ~u[d].idle
    BY <2>2, <2>3 DEF Alert
  <2> QED BY <2>1, <2>2, <2>3, <2>4, <2>5, <2>6 DEF u
<1> HIDE DEF v, awake
<1>4. ASSUME NEW d \in Creature, d \in Summons(w, c)
      PROVE  /\ v[d] \in Objects
             /\ v[d].life = w[d].life /\ v[d].at = w[d].at /\ v[d].wild = w[d].wild /\ v[d].near = w[d].near
             /\ v[d].target = NULL /\ v[d].follow = w[d].follow /\ v[d].master = NULL
             /\ v[d].idle = awake(d).idle /\ w[d].life # "none" /\ w[d].master # NULL
  <2> DEFINE o == awake(d)
  <2>1. v[d] = [o EXCEPT !.target = NULL, !.alive = FALSE, !.master = NULL] /\ o \in Objects
    BY <1>2, <1>3, <1>4
  <2>2. /\ o.life = w[d].life /\ o.at = w[d].at /\ o.wild = w[d].wild
        /\ o.near = w[d].near /\ o.follow = w[d].follow
    BY <1>3, <1>4
  <2>3. w[d].life # "none" /\ w[d].master # NULL
    BY <1>1, <1>3, <1>4 DEF InGame, Summons
  <2> HIDE DEF o
  <2>4. /\ v[d] \in Objects /\ v[d].life = o.life /\ v[d].at = o.at /\ v[d].wild = o.wild
        /\ v[d].near = o.near /\ v[d].target = NULL /\ v[d].follow = o.follow
        /\ v[d].master = NULL /\ v[d].idle = o.idle
    BY <2>1 DEF Objects
  <2> QED BY <2>2, <2>3, <2>4 DEF o
<1>5. \A d \in Creature : v[d] \in Objects
  <2>1. \A d \in Creature : w[d] \in Objects
    BY <1>1 DEF Worlds
  <2> QED BY <2>1, <1>2, <1>4
<1>6. v \in Worlds
  BY <1>2, <1>5 DEF Worlds
<1>7. ASSUME NEW d \in Creature
      PROVE  /\ v[d].life = w[d].life /\ v[d].at = w[d].at /\ v[d].wild = w[d].wild /\ v[d].near = w[d].near
             /\ v[d].target \in {w[d].target, NULL} /\ v[d].follow \in {w[d].follow, NULL}
             /\ v[d].master = IF d \in Summons(w, c) THEN NULL ELSE w[d].master
             /\ w[d].life = "none" => v[d] = w[d]
             /\ Alert(w, d) => Alert(v, d)
             /\ d # m /\ v[d].master = w[d].master => v[d].idle = w[d].idle /\ v[d].targets = w[d].targets
  <2>1. CASE d \in Summons(w, c)
    <3>1. Alert(w, d) => Alert(v, d)
      BY <2>1, <1>3, <1>4 DEF Alert
    <3> QED BY <2>1, <3>1, <1>4
  <2>2. CASE d \notin Summons(w, c)
    <3>1. v[d] = w[d]
      BY <2>2, <1>2
    <3> QED BY <2>2, <3>1 DEF Alert
  <2> QED BY <2>1, <2>2
<1>8. Loosens(w, v, m)
  <2>1. \A d \in Creature : v[d].master \in {w[d].master, NULL}
    BY <1>7
  <2> QED BY <2>1, <1>6, <1>7 DEF Loosens
<1> QED BY <1>7, <1>8 DEF v

\* Who knows more stays almost quiet.
LEMMA MindedNearly ==
  ASSUME NEW w, NEW m \in Monsters, Nearly(w, m), NEW v, Minded(w, v, m), Alert(w, m) => Alert(v, m)
  PROVE  Nearly(v, m)
<1>1. Well(w) /\ w \in Worlds /\ Kin(w) /\ Monsters \subseteq Creature /\ Players \subseteq Creature
  BY DEF Nearly, Well, Creature
<1>2. Well(v) /\ v \in Worlds
  BY <1>1, SameWell DEF Minded, Well
<1>3. \A c \in Creature :
        /\ InGame(v, c) = InGame(w, c) /\ v[c].at = w[c].at
        /\ v[c].master = w[c].master /\ v[c].wild = w[c].wild
        /\ v[c].target = w[c].target /\ v[c].follow = w[c].follow
        /\ \A p : Sees(v, c, p) = Sees(w, c, p)
        /\ \A u \in Creature : CanAim(v, c, u) = CanAim(w, c, u)
  BY SameSees DEF Minded, Same
<1>4. \A c \in Creature : c # m => v[c] = w[c]
  BY DEF Minded
<1>5. Kin(v)
  BY <1>1, <1>3 DEF Kin
<1>6. ASSUME NEW c \in Creature, InGame(v, c) PROVE Eyes(v, c)
  <2>1. Eyes(w, c)
    BY <1>3, <1>6 DEF Nearly
  <2>2. \A u \in {v[c].target, v[c].follow} \ {NULL} : u \in Creature
    BY <1>2 DEF Worlds, Objects
  <2> QED BY <2>1, <2>2, <1>3 DEF Eyes
<1>7. ASSUME NEW d \in Monsters, InGame(v, d), d # m PROVE Mind(v, d)
  <2>1. d \in Creature /\ InGame(w, d) /\ Mind(w, d)
    BY <1>1, <1>3, <1>7 DEF Nearly
  <2>2. v[d] = w[d] /\ \A p : Sees(v, d, p) = Sees(w, d, p)
    BY <2>1, <1>3, <1>4, <1>7
  <2>3. \A p \in Players : InGame(v, p) = InGame(w, p) /\ v[p].at = w[p].at
    BY <1>1, <1>3
  <2> QED BY <2>1, <2>2, <2>3 DEF Mind, Alert, Rests
<1>8. InGame(v, m) => Alert(v, m)
  BY <1>1, <1>3 DEF Nearly
<1> QED BY <1>2, <1>5, <1>6, <1>7, <1>8 DEF Nearly

\* A call is made to set m right.
LEMMA NearlyStarts ==
  ASSUME NEW w, NEW m \in Monsters, Nearly(w, m), NEW a \in AllCalls, a.do # "removed",
         \A x \in a.by : Frame(w, <<a>>, 1, x), InGame(w, m) /\ Alert(w, m) => AwakeOf(w, <<a>>, m)
  PROVE  Sound(w, <<a>>)
<1>1. Well(w) /\ Kin(w)
  BY DEF Nearly
<1>2. \A c \in Creature : InGame(w, c) => Eyes(w, c)
  BY DEF Nearly
<1>3. ASSUME NEW d \in Monsters, InGame(w, d) PROVE Mind(w, d) \/ AwakeOf(w, <<a>>, d)
  BY <1>3 DEF Nearly
<1> QED BY <1>1, <1>2, <1>3, StartSound

\* A monster lets go of its summons, its list and its target, and is
\* removed.
LEMMA DieQuiet ==
  ASSUME Quiet(creature), NEW m \in Monsters, Die(m)
  PROVE  Quiet(creature')
<1> DEFINE u == [creature EXCEPT ![m].master = NULL]
           y == DestroySummons(u, m)
           z == [y EXCEPT ![m].targets = {}]
           v == Aim(z, m, NULL)
           n == Act("remove", {m}, NULL)
           k == <<n>>
<1>1. /\ Well(creature) /\ creature \in Worlds /\ m \in Creature /\ InGame(creature, m) /\ Here(creature, m)
      /\ m \notin Players
  BY QuietIs DEF Die
<1>2. PICK luck \in Luck(v, m) : Calls(v, k, luck)
  BY <1>1 DEF Die
<1>3. Loosens(creature, u, m)
  <2> DEFINE a == [creature[m] EXCEPT !.master = NULL]
  <2>1. /\ a \in Objects /\ a.life = creature[m].life /\ a.at = creature[m].at
        /\ a.wild = creature[m].wild /\ a.near = creature[m].near /\ a.target = creature[m].target
        /\ a.follow = creature[m].follow /\ a.master = NULL
        /\ a.alive = creature[m].alive /\ a.idle = creature[m].idle
    BY <1>1 DEF Worlds, Objects
  <2>2. u = [creature EXCEPT ![m] = a]
    BY <1>1 DEF Worlds
  <2> HIDE DEF a, u
  <2>3. Loosens(creature, [creature EXCEPT ![m] = a], m)
    BY <2>1, <1>1, EditLoosens
  <2> QED BY <2>2, <2>3
<1> HIDE DEF u
<1>4. Well(u)
  BY <1>1, <1>3, LoosensWell
<1>5. Loosens(u, y, m)
  BY <1>1, <1>4, DestroyLoosens
<1> HIDE DEF y
<1>6. Loosens(creature, y, m)
  BY <1>3, <1>5, LoosensLoosens
<1>7. Well(y) /\ Here(y, m) /\ y \in Worlds
  BY <1>1, <1>6, LoosensWell DEF Loosens
<1>8. Loosens(y, z, m)
  <2> DEFINE a == [y[m] EXCEPT !.targets = {}]
  <2>1. /\ a \in Objects /\ a.life = y[m].life /\ a.at = y[m].at
        /\ a.wild = y[m].wild /\ a.near = y[m].near /\ a.target = y[m].target
        /\ a.follow = y[m].follow /\ a.master = y[m].master
        /\ a.alive = y[m].alive /\ a.idle = y[m].idle
    BY <1>1, <1>7 DEF Worlds, Objects
  <2>2. z = [y EXCEPT ![m] = a]
    BY <1>1, <1>7 DEF Worlds
  <2> HIDE DEF a, z
  <2>3. Loosens(y, [y EXCEPT ![m] = a], m)
    BY <2>1, <1>1, <1>7, EditLoosens
  <2> QED BY <2>2, <2>3
<1> HIDE DEF z
<1>9. Well(z) /\ Here(z, m)
  BY <1>1, <1>7, <1>8, LoosensWell
<1>10. Loosens(z, v, m)
  BY <1>1, <1>9, AimTurns, TurnedLoosens
<1> HIDE DEF v
<1>11. Loosens(creature, v, m)
  BY <1>6, <1>8, <1>10, LoosensLoosens
<1>12. Nearly(v, m)
  BY <1>11, LoosensNearly
<1>13. v \in Worlds /\ InGame(v, m)
  BY <1>1, <1>11, LoosensWell DEF Loosens
<1>14. n \in AllCalls /\ n.do = "remove" /\ n.by = {m}
  <2>1. "remove" \in Acts
    BY Kinds
  <2> QED BY <2>1, <1>1, ActIs
<1>15. Frame(v, k, 1, m)
  BY <1>1, <1>13, ActFrame
<1> HIDE DEF n
<1>16. Leaving(k, m)
  BY <1>14 DEF Leaving
<1>17. Alert(v, m) => AwakeOf(v, k, m)
  BY <1>16 DEF AwakeOf, Watches, Serves
<1>18. Sound(v, k)
  <2>1. n.do # "removed" /\ \A x \in n.by : Frame(v, k, 1, x)
    BY <1>14, <1>15
  <2> QED BY <2>1, <1>12, <1>14, <1>17, NearlyStarts
<1> QED BY <1>2, <1>18, CallsQuiet

\* Who belongs to a player, and to him only.
LEMMA OwnedNearly ==
  ASSUME NEW w, NEW m \in Monsters, Nearly(w, m), InGame(w, m), NEW c \in Players, InGame(w, c),
         \A d \in Creature : w[d].master = NULL
  PROVE  /\ Nearly(Owned(w, c, m), m) /\ InGame(Owned(w, c, m), m) /\ InGame(Owned(w, c, m), c)
         /\ Owned(w, c, m)[m].master = c /\ ~Owned(w, c, m)[m].wild
<1> DEFINE v == Owned(w, c, m)
<1>1. /\ Well(w) /\ w \in Worlds /\ m \in Creature /\ c \in Creature /\ c # m /\ c # NULL
      /\ Monsters \subseteq Creature /\ Players \subseteq Creature
  BY TargetsAssumption DEF Nearly, Well, Creature
<1>2. /\ v[m] = [w[m] EXCEPT !.master = c, !.wild = FALSE] /\ \A d \in Creature : d # m => v[d] = w[d]
      /\ v = [d \in Creature |-> v[d]]
  BY <1>1 DEF Owned, Worlds
<1> HIDE DEF v
<1>3. w[m] \in Objects
  BY <1>1 DEF Worlds
<1>4. /\ v[m] \in Objects /\ v[m].life = w[m].life /\ v[m].at = w[m].at /\ v[m].alive = w[m].alive
      /\ v[m].target = w[m].target /\ v[m].follow = w[m].follow /\ v[m].idle = w[m].idle
      /\ v[m].master = c /\ v[m].wild = FALSE
  BY <1>1, <1>2, <1>3 DEF Objects
<1>5. v \in Worlds
  <2>1. \A d \in Creature : v[d] \in Objects
    BY <1>1, <1>2, <1>4 DEF Worlds
  <2> QED BY <2>1, <1>2 DEF Worlds
<1>6. \A d \in Creature : /\ v[d].life = w[d].life /\ v[d].at = w[d].at
                          /\ v[d].target = w[d].target /\ v[d].follow = w[d].follow
                          /\ d # m => v[d].master = NULL
  BY <1>2, <1>4
<1>7. \A d \in Creature : InGame(v, d) = InGame(w, d) /\ \A p : Sees(v, d, p) = Sees(w, d, p)
  BY <1>6 DEF InGame, Sees
<1>8. Well(v)
  <2>1. \A d \in Creature : IF v[d].life = "none" THEN v[d] = Nobody ELSE v[d].at \in Spots
    <3>1. SUFFICES ASSUME NEW d \in Creature
                   PROVE  IF v[d].life = "none" THEN v[d] = Nobody ELSE v[d].at \in Spots
      OBVIOUS
    <3>2. CASE d = m
      BY <3>2, <1>1, <1>6 DEF Well, InGame
    <3>3. CASE d # m
      BY <3>3, <1>1, <1>2 DEF Well
    <3> QED BY <3>2, <3>3
  <2>2. \A d \in Creature : v[d].master # NULL => InGame(v, d)
    BY <1>1, <1>6, <1>7
  <2> QED BY <2>1, <2>2, <1>5 DEF Well
<1>9. Kin(v)
  BY <1>1, <1>4, <1>6, <1>7 DEF Kin
<1>10. ASSUME NEW d \in Creature, InGame(v, d) PROVE Eyes(v, d)
  <2>1. Eyes(w, d)
    BY <1>7, <1>10 DEF Nearly
  <2>2. \A u \in {v[d].target, v[d].follow} \ {NULL} : u \in Creature
    BY <1>5 DEF Worlds, Objects
  <2>3. \A u \in Creature : CanAim(v, d, u) = CanAim(w, d, u)
    BY <1>6, <1>7 DEF CanAim
  <2> QED BY <2>1, <2>2, <2>3, <1>6, <1>7 DEF Eyes
<1>11. ASSUME NEW d \in Monsters, InGame(v, d), d # m PROVE Mind(v, d)
  <2>1. d \in Creature /\ v[d] = w[d] /\ Mind(w, d) /\ v[d].master = NULL
    BY <1>1, <1>2, <1>6, <1>7, <1>11 DEF Nearly
  <2>2. \A p \in Players : InGame(v, p) = InGame(w, p) /\ v[p].at = w[p].at
    BY <1>1, <1>6, <1>7
  <2>3. \A p : Sees(v, d, p) = Sees(w, d, p)
    BY <2>1, <1>7
  <2>4. v[d].master \notin Players
    BY <2>1, <1>1, Apart
  <2> QED BY <2>1, <2>2, <2>3, <2>4 DEF Mind, Alert, Rests
<1>12. Alert(v, m)
  BY <1>4 DEF Nearly, Alert
<1>13. Nearly(v, m)
  BY <1>8, <1>9, <1>10, <1>11, <1>12 DEF Nearly
<1> QED BY <1>1, <1>4, <1>7, <1>13 DEF v

\* A monster gets another master, lets go of its summons and looks around;
\* the others look at it.
LEMMA ConvinceQuiet ==
  ASSUME Quiet(creature), NEW c \in Players, NEW m \in Monsters, Convince(c, m)
  PROVE  Quiet(creature')
<1> DEFINE s == [creature EXCEPT ![m].follow = NULL, ![m].master = NULL]
           u == Aim(s, m, NULL)
           y == DestroySummons(u, m)
           z == Owned(y, c, m)
           x == UpdateTargets(z, m)
           v == UpdateIdle(x, m)
           r == [v EXCEPT ![m].near = TRUE]
           told == (Spectators(v, v[m].at) \cup Spectators(v, v[c].at)) \cap Monsters
           n == Call("look", told, m, NULL, NULL)
           k == <<n>>
<1>1. /\ Well(creature) /\ creature \in Worlds /\ Kin(creature) /\ m \in Creature /\ c \in Creature
      /\ InGame(creature, m) /\ InGame(creature, c) /\ Here(creature, m) /\ c # m /\ Monsters \subseteq Creature
  BY QuietIs DEF Convince
<1>2. PICK luck \in Luck(v, NULL) : Calls(r, k, luck)
  BY DEF Convince
<1>3. Loosens(creature, s, m)
  <2> DEFINE a == [creature[m] EXCEPT !.follow = NULL, !.master = NULL]
  <2>1. /\ a \in Objects /\ a.life = creature[m].life /\ a.at = creature[m].at
        /\ a.wild = creature[m].wild /\ a.near = creature[m].near /\ a.target = creature[m].target
        /\ a.follow = NULL /\ a.master = NULL
        /\ a.alive = creature[m].alive /\ a.idle = creature[m].idle
    BY <1>1 DEF Worlds, Objects
  <2>2. s = [creature EXCEPT ![m] = a]
    BY <1>1 DEF Worlds, Objects
  <2> HIDE DEF a, s
  <2>3. Loosens(creature, [creature EXCEPT ![m] = a], m)
    BY <2>1, <1>1, EditLoosens
  <2> QED BY <2>2, <2>3
<1>4. s[m].master = NULL
  BY <1>1 DEF Worlds, Objects
<1> HIDE DEF s
<1>5. Well(s) /\ Here(s, m)
  BY <1>1, <1>3, LoosensWell
<1>6. Turned(s, u, NULL)
  BY <1>1, <1>5, AimTurns
<1> HIDE DEF u
<1>7. Loosens(s, u, m) /\ u[m].master = NULL
  <2>1. Loosens(s, u, m)
    BY <1>5, <1>6, TurnedLoosens
  <2>2. u[m].master = NULL
    BY <2>1, <1>1, <1>4 DEF Loosens
  <2> QED BY <2>1, <2>2
<1>8. Loosens(creature, u, m)
  BY <1>3, <1>7, LoosensLoosens
<1>9. Well(u)
  BY <1>1, <1>8, LoosensWell
<1>10. /\ Loosens(u, y, m)
       /\ \A d \in Creature : y[d].master = IF d \in Summons(u, m) THEN NULL ELSE u[d].master
  BY <1>1, <1>9, DestroyLoosens
<1> HIDE DEF y
<1>11. Loosens(creature, y, m)
  BY <1>8, <1>10, LoosensLoosens
<1>12. Nearly(y, m)
  BY <1>11, LoosensNearly
<1>13. InGame(y, m) /\ InGame(y, c)
  BY <1>1, <1>11, LoosensWell
<1>14. \A d \in Creature : y[d].master = NULL
  <2>1. SUFFICES ASSUME NEW d \in Creature, y[d].master # NULL PROVE FALSE
    OBVIOUS
  <2>2. d \notin Summons(u, m) /\ u[d].master # NULL
    BY <2>1, <1>10
  <2>3. u[d].master = creature[d].master
    BY <2>2, <1>8 DEF Loosens
  <2>4. d \in Monsters
    BY <2>2, <2>3, <1>1 DEF Kin
  <2>5. creature[d].master = m
    BY <2>2, <2>3, <2>4 DEF Convince, NoOther
  <2> QED BY <2>2, <2>3, <2>4, <2>5 DEF Summons
<1>15. /\ Nearly(z, m) /\ InGame(z, m) /\ InGame(z, c)
       /\ z[m].master = c /\ ~z[m].wild
  BY <1>12, <1>13, <1>14, OwnedNearly
<1> HIDE DEF z
<1>16. Well(z) /\ Alert(z, m)
  BY <1>15 DEF Nearly
<1>17. Minded(z, v, m) /\ Decided(v, m)
  BY <1>15, <1>16, LooksMinds
<1> HIDE DEF x, v
<1>18. Alert(v, m)
  BY <1>17 DEF Decided
<1>19. Nearly(v, m)
  BY <1>15, <1>17, <1>18, MindedNearly
<1>20. InGame(v, m) /\ v[m].master = c /\ ~v[m].wild
  BY <1>1, <1>15, <1>17 DEF Minded, Same, InGame
<1>21. Well(v) /\ Here(v, m)
  BY <1>19, <1>20 DEF Nearly, InGame, Here
<1>22. Minded(v, r, m) /\ r[m].near = TRUE /\ r[m].idle = v[m].idle
  <2>1. Minded(v, r, m)
    BY <1>1, <1>21, NearMinds
  <2>2. r[m].near = TRUE /\ r[m].idle = v[m].idle
    BY <1>1, <1>21, NearMinds
  <2> QED BY <2>1, <2>2
<1>23. told \in SUBSET Monsters /\ m \in told /\ \A d \in told : InGame(v, d)
  <2>1. v[m].at \in Spots
    BY <1>1, <1>20, <1>21 DEF Well, InGame
  <2>2. <<v[m].at, v[m].at>> \in Viewport
    BY <2>1, TargetsAssumption
  <2>3. m \in Spectators(v, v[m].at)
    BY <2>2, <1>1, <1>20 DEF Spectators
  <2> QED BY <2>3 DEF Spectators
<1> HIDE DEF told, r
<1>24. n \in AllCalls /\ n.do = "look" /\ n.by = told /\ n.of = m
  BY <1>1, <1>23 DEF Call, AllCalls, Notices
<1> HIDE DEF n
<1>25. \A d \in Creature : InGame(v, d) => InGame(r, d) /\ Here(r, d)
  BY <1>22 DEF Minded, Same, InGame, Here
<1>26. r[m].master = c /\ ~r[m].wild /\ InGame(r, m) /\ Alert(r, m)
  BY <1>1, <1>18, <1>20, <1>22 DEF Minded, Same, InGame, Alert
<1>27. Nearly(r, m)
  BY <1>19, <1>22, <1>26, MindedNearly
<1>28. DOMAIN k = {1} /\ k[1] = n
  OBVIOUS
<1> HIDE DEF k
<1>29. ASSUME NEW d \in n.by PROVE Frame(r, k, 1, d)
  <2>1. d \in Monsters /\ d \in Creature /\ Here(r, d)
    BY <1>1, <1>23, <1>24, <1>25, <1>29
  <2>2. Addressed(r, n, d)
    BY <2>1, <1>1, <1>24 DEF Addressed, Acts
  <2>3. OnTheMove(r, k, n)
    BY <1>24 DEF OnTheMove, Moving, Moves
  <2>4. GoesTo(r, k, 1, d) /\ Forgets(r, k, 1, d) /\ Withdraws(k, 1)
    BY <1>24, <1>28 DEF GoesTo, Forgets, Withdraws
  <2>5. MasterLast(r, k, 1)
    BY <1>28 DEF MasterLast
  <2> QED BY <2>2, <2>3, <2>4, <2>5, <1>28 DEF Frame
<1>30. AwakeOf(r, k, m)
  <2>1. Wakes(r, k[1], m)
    BY <1>22, <1>23, <1>24, <1>28 DEF Wakes
  <2>2. Served(r, k, m)
    BY <2>1, <1>28 DEF Served
  <2> QED BY <2>2, <1>26 DEF AwakeOf, Watches, Serves
<1>31. Sound(r, k)
  <2>1. n.do # "removed"
    BY <1>24
  <2> QED BY <2>1, <1>24, <1>27, <1>29, <1>30, NearlyStarts DEF k
<1>32. PICK o \in Done(r, k, luck) : Becomes(o)
  BY <1>2 DEF Calls
<1>33. Lucky(luck)
  <2>1. v \in Worlds
    BY <1>21 DEF Well
  <2> QED BY <2>1, LuckIsLucky
<1>34. Quiet(o)
  BY <1>31, <1>33, DoneIsSound, QuietIsSound
<1> QED BY <1>32, <1>34, BecomesQuiet

\* Upon thinking, a monster aims at one it has in its list, or as its master
\* does, or follows him.
LEMMA ThinkAgainQuiet ==
  ASSUME NEW w, Quiet(w), NEW m \in Monsters, NEW u \in ThinkAgain(w, m)
  PROVE  Quiet(u)
<1> DEFINE master == w[m].master
           target == w[m].target
<1>1. /\ Well(w) /\ w \in Worlds /\ Kin(w) /\ m \in Creature
      /\ \A c \in Creature : InGame(w, c) => Eyes(w, c) /\ Here(w, c)
  BY QuietIs
<1>2. CASE ~Here(w, m)
  <2>1. w[m] = Nobody
    BY <1>1, <1>2 DEF Well, Here
  <2>2. w[m].master = NULL /\ w[m].targets = {}
    BY <2>1 DEF Nobody
  <2>3. u = w
    BY <2>2 DEF ThinkAgain
  <2> QED BY <2>3
<1>3. CASE Here(w, m) /\ master = NULL
  <2>1. u = w \/ \E t \in w[m].targets : u = Select(w, m, t)
    BY <1>3 DEF ThinkAgain
  <2>2. \A t \in w[m].targets : t \in Creature
    BY <1>1 DEF Worlds, Objects
  <2> QED BY <2>1, <2>2, <1>1, <1>3, SelectQuiet
<1>4. CASE Here(w, m) /\ master # NULL
  <2>1. InGame(w, m) /\ master \in Creature /\ InGame(w, master)
    BY <1>1, <1>4 DEF Kin
  <2>2. Eyes(w, m) /\ Eyes(w, master)
    BY <2>1, <1>1
  <2>3. CASE target = NULL /\ w[master].target # NULL
    <3>1. u = Select(w, m, w[master].target)
      BY <1>4, <2>3 DEF ThinkAgain
    <3>2. w[master].target \in Creature
      BY <2>1, <2>3, <1>1 DEF Worlds, Objects
    <3> QED BY <3>1, <3>2, <1>1, <1>4, SelectQuiet
  <2>4. CASE target = NULL /\ w[master].target = NULL
    <3>1. u = SetFollow(w, m, master)
      BY <1>4, <2>4 DEF ThinkAgain
    <3> QED BY <3>1, <2>1, <1>1, <1>4, FollowQuiet
  <2>5. CASE target # NULL
    <3> DEFINE t == IF target = m THEN NULL ELSE target
    <3>1. u = SetFollow(w, m, t)
      BY <1>4, <2>5 DEF ThinkAgain
    <3>2. target \in Creature /\ InGame(w, target)
      BY <2>2, <2>5, <1>1 DEF Worlds, Objects, Eyes
    <3>3. t \in Creature \cup {NULL} /\ (t # NULL => InGame(w, t))
      BY <3>2
    <3> HIDE DEF t
    <3> QED BY <3>1, <3>3, <1>1, <1>4, FollowQuiet
  <2> QED BY <2>3, <2>4, <2>5
<1> QED BY <1>2, <1>3, <1>4

\* onThink, with the teleport to the master.
LEMMA ThinkQuiet ==
  ASSUME Quiet(creature), NEW m \in Monsters, Think(m)
  PROVE  Quiet(creature')
<1> DEFINE w == UpdateIdle(creature, m)
           q == w[w[m].master].at
           k == <<Act("go", {m}, q)>>
<1>1. /\ Well(creature) /\ m \in Creature /\ InGame(creature, m) /\ Here(creature, m)
  BY QuietIs DEF Think
<1>2. Minded(creature, w, m)
  BY <1>1, UpdateIdleMinds
<1>3. Calm(creature, w, m, {}) /\ Stays(creature, w, m)
  BY <1>1, UpdateIdleIsCalm
<1>4. Quiet(w)
  BY <1>2, <1>3, MindedQuiet
<1>5. \/ Becomes(w)
      \/ \E u \in ThinkAgain(w, m) : Becomes(u)
      \/ /\ w[m].master # NULL
         /\ \E luck \in Luck(w, NULL) :
              \E v \in Done(w, k, luck) :
                \E u \in ThinkAgain([v EXCEPT ![m].comes = FALSE], m) : Becomes(u)
  BY DEF Think
<1>6. InGame(w, m)
  BY <1>1, <1>2 DEF Minded, Same, InGame
<1> HIDE DEF w
<1>7. CASE Becomes(w)
  BY <1>4, <1>7, BecomesQuiet
<1>8. CASE \E u \in ThinkAgain(w, m) : Becomes(u)
  <2>1. PICK u \in ThinkAgain(w, m) : Becomes(u)
    BY <1>8
  <2>2. Quiet(u)
    BY <1>4, ThinkAgainQuiet
  <2> QED BY <2>1, <2>2, BecomesQuiet
<1>9. CASE /\ w[m].master # NULL
           /\ \E luck \in Luck(w, NULL) :
                \E v \in Done(w, k, luck) :
                  \E u \in ThinkAgain([v EXCEPT ![m].comes = FALSE], m) : Becomes(u)
  <2>10. PICK luck \in Luck(w, NULL) :
          \E v \in Done(w, k, luck) :
            \E u \in ThinkAgain([v EXCEPT ![m].comes = FALSE], m) : Becomes(u)
    BY <1>9
  <2>1. PICK v \in Done(w, k, luck) :
          \E u \in ThinkAgain([v EXCEPT ![m].comes = FALSE], m) : Becomes(u)
    BY <2>10
  <2> DEFINE x == [v EXCEPT ![m].comes = FALSE]
  <2>2. PICK u \in ThinkAgain(x, m) : Becomes(u)
    BY <2>1
  <2>3. q \in Spots
    <3>1. w[m].master \in Creature /\ InGame(w, w[m].master)
      BY <1>1, <1>4, <1>9 DEF Quiet, Kin
    <3> QED BY <3>1, <1>4 DEF Quiet, Well, InGame
  <2>4. Sound(w, k)
    <3>1. "go" \in {"go", "remove"}
      OBVIOUS
    <3> HIDE DEF q
    <3> QED BY <3>1, <2>3, <1>1, <1>4, <1>6, ActStarts
  <2>5. Lucky(luck)
    BY <1>4, QuietIs, LuckIsLucky
  <2> HIDE DEF k, q
  <2>6. Quiet(v)
    BY <2>4, <2>5, DoneIsSound, QuietIsSound
  <2>7. Well(v) /\ v \in Worlds
    BY <2>6, QuietIs
  <2>8. Quiet(x)
    <3>1. CASE Here(v, m)
      <4>1. Minded(v, x, m)
        BY <1>1, <2>7, <3>1, ComesMinds
      <4>2. x[m].near = v[m].near /\ x[m].targets = v[m].targets /\ x[m].idle = v[m].idle
        BY <1>1, <2>7, <3>1, ComesMinds
      <4> HIDE DEF x
      <4>3. x[m].alive = v[m].alive
        BY <4>1, <1>1 DEF Minded, Same
      <4>4. Calm(v, x, m, {}) /\ Stays(v, x, m)
        BY <4>2, <4>3 DEF Calm, Stays, Alert, Rests
      <4> QED BY <4>1, <4>4, <2>6, MindedQuiet
    <3>2. CASE ~Here(v, m)
      <4>1. v[m] = Nobody
        BY <1>1, <2>7, <3>2 DEF Well, Here
      <4>2. v[m].comes = FALSE
        BY <4>1 DEF Nobody
      <4>3. [v[m] EXCEPT !.comes = FALSE] = v[m]
        BY <4>2, <2>7, <1>1 DEF Worlds, Objects
      <4>4. x = v
        BY <4>3, <2>7 DEF Worlds
      <4> QED BY <4>4, <2>6
    <3> QED BY <3>1, <3>2
  <2> HIDE DEF x
  <2>9. Quiet(u)
    BY <2>8, ThinkAgainQuiet
  <2> QED BY <2>2, <2>9, BecomesQuiet
<1> QED BY <1>5, <1>7, <1>8, <1>9

-----------------------------------------------------------------------------
(* The theorems                                                              *)

\* Nobody is there yet.
LEMMA InitQuiet == Init => Quiet(creature)
<1> SUFFICES ASSUME Init PROVE Quiet(creature)
  OBVIOUS
<1>1. \A c \in Creature : creature[c] = Nobody
  BY DEF Init
<1>2. creature \in Worlds
  BY NobodyTyped DEF Init, Worlds
<1>3. \A c \in Creature : ~InGame(creature, c) /\ creature[c].life = "none" /\ creature[c].master = NULL
  BY <1>1 DEF InGame, Nobody
<1>4. Well(creature) /\ Kin(creature)
  BY <1>1, <1>2, <1>3 DEF Well, Kin
<1>5. Monsters \subseteq Creature
  BY DEF Creature
<1> QED BY <1>3, <1>4, <1>5 DEF Quiet

\* Every call is made to the end, and leaves nothing broken.
LEMMA NextQuiet == Quiet(creature) /\ [Next]_vars => Quiet(creature')
<1> SUFFICES ASSUME Quiet(creature), [Next]_vars PROVE Quiet(creature')
  OBVIOUS
<1>1. Monsters \subseteq Creature /\ Players \subseteq Creature
  BY DEF Creature
<1>2. CASE Game
  <2>1. PICK c \in Creature :
          \/ Removal(c) \/ Lose(c)
          \/ \E q \in Spots : Appear(c, q) \/ Move(c, q)
          \/ \E m \in Monsters : Summon(c, m)
    BY <1>2 DEF Game
  <2> QED BY <2>1, RemovalQuiet, LoseQuiet, AppearQuiet, MoveQuiet, SummonQuiet
<1>3. CASE PlayerOrders
  <2>1. PICK p \in Players :
          \/ Chase(p)
          \/ \E t \in Creature \cup {NULL} : Attack(p, t) \/ Follow(p, t)
          \/ \E m \in Monsters : Convince(p, m)
    BY <1>3 DEF PlayerOrders
  <2> QED BY <2>1, ChaseQuiet, AttackQuiet, FollowActQuiet, ConvinceQuiet
<1>4. CASE MonstersTurn
  <2>1. PICK m \in Monsters : Kill(m) \/ Heal(m) \/ Die(m) \/ NoWay(m) \/ Think(m)
    BY <1>4 DEF MonstersTurn
  <2> QED BY <2>1, KillQuiet, HealQuiet, DieQuiet, NoWayQuiet, ThinkQuiet
<1>5. CASE UNCHANGED vars
  <2>1. creature' = creature
    BY <1>5 DEF vars
  <2> QED BY <2>1
<1> QED BY <1>2, <1>3, <1>4, <1>5 DEF Next

\* What is sound between the calls is what the runs check of it.
LEMMA QuietTypes == Quiet(creature) => TypeOK
BY DEF Quiet, Well, TypeOK

\* Between the calls all see whom they aim at,
LEMMA QuietSees == Quiet(creature) => TargetsAreInSight
BY DEF Quiet, Eyes, TargetsAreInSight

\* and nobody sleeps who is needed.
LEMMA QuietWakes == Quiet(creature) => AwakeWhenNeeded
<1> SUFFICES ASSUME Quiet(creature), NEW m \in Monsters, InGame(creature, m), creature[m].alive
             PROVE  /\ creature[m].wild =>
                         \A p \in Players : InGame(creature, p) /\ Sees(creature, m, creature[p].at) =>
                           p \in creature[m].targets /\ ~creature[m].idle
                    /\ creature[m].master \in Players /\ Sees(creature, m, creature[creature[m].master].at) =>
                         ~creature[m].idle
  BY DEF AwakeWhenNeeded
<1>1. Mind(creature, m)
  BY DEF Quiet
<1>2. ASSUME creature[m].wild, NEW p \in Players, InGame(creature, p), Sees(creature, m, creature[p].at)
      PROVE  p \in creature[m].targets /\ ~creature[m].idle
  <2>1. p \in creature[m].targets /\ Rests(creature, m)
    BY <1>1, <1>2 DEF Mind
  <2>2. creature[m].targets # {}
    BY <2>1
  <2>3. ~creature[m].idle
    BY <2>1, <2>2 DEF Rests
  <2> QED BY <2>1, <2>3
<1>3. creature[m].master \in Players /\ Sees(creature, m, creature[creature[m].master].at) => ~creature[m].idle
  BY <1>1 DEF Mind
<1> QED BY <1>2, <1>3

\* The game's objects are always what they are declared to be.
THEOREM TypeCorrect == Spec => []TypeOK
<1>1. Init => Quiet(creature)
  BY InitQuiet
<1>2. Quiet(creature) /\ [Next]_vars => Quiet(creature)'
  BY NextQuiet
<1>3. Quiet(creature) => TypeOK
  BY QuietTypes
<1> QED BY <1>1, <1>2, <1>3, PTL DEF Spec

\* However the notices of a move or a removal are nested, and whatever the order
\* in which the spectators are told, attackedCreature and followCreature point
\* to somebody in the game and in sight when the call is over, and nobody in a
\* protection zone is under attack.
THEOREM AimsAreSafe == Spec => []TargetsAreInSight
<1>1. Init => Quiet(creature)
  BY InitQuiet
<1>2. Quiet(creature) /\ [Next]_vars => Quiet(creature)'
  BY NextQuiet
<1>3. Quiet(creature) => TargetsAreInSight
  BY QuietSees
<1> QED BY <1>1, <1>2, <1>3, PTL DEF Spec

\* A monster that was never a summon knows every player it sees and is awake, and
\* the summon of a player is awake while it sees him: what Monster::updateIdleStatus
\* is called for by every notice.
THEOREM NobodyOversleeps == Spec => []AwakeWhenNeeded
<1>1. Init => Quiet(creature)
  BY InitQuiet
<1>2. Quiet(creature) /\ [Next]_vars => Quiet(creature)'
  BY NextQuiet
<1>3. Quiet(creature) => AwakeWhenNeeded
  BY QuietWakes
<1> QED BY <1>1, <1>2, <1>3, PTL DEF Spec

=============================================================================
