---------------------------- MODULE SessionProofs ----------------------------
(***************************************************************************)
(* Proofs about the login of a player: about Session, and about WaitList,  *)
(* which a login passes first and which shares no state with it.           *)
(*                                                                         *)
(* Session, for any connections and characters: a character is in the game *)
(* once and is played by his owner, the watchers of a cast are alive,      *)
(* output waits only while a flush is pending, a player who is being       *)
(* connected has a connect that is due, and references are exact.  The     *)
(* methods of the protocol take a world to a world, and so does the        *)
(* invariant: Good(w) is kept by every method and by every task.           *)
(*                                                                         *)
(* WaitList, for any number of players and of visits.  Valid is a          *)
(* recursive function of the length of the list.  What it returns is       *)
(* proved by induction: a set of numbers that holds 0, and with each       *)
(* number the next one, is Nat (NatBySuccessor).                           *)
(***************************************************************************)
EXTENDS Session, WaitList, FiniteSetTheorems, SequenceTheorems, WellFoundedInduction, TLAPS

ConnSet ==
  [net : {"idle", "open", "closed"}, linked : BOOLEAN, asked : BOOLEAN,
   player : Conns \cup {NULL}, spectator : BOOLEAN, accepts : BOOLEAN,
   target : Conns \cup {NULL}, attempt : {"none", "due", "done", "gave_up"},
   released : BOOLEAN, late : BOOLEAN]

\* What is proved here does not need references to be counted right.
ObjSet ==
  [name : Names \cup {NULL}, life : {"none", "loaded", "game", "removed", "deleted"},
   refs : Int, held : BOOLEAN, owner : Conns \cup {NULL}, watchers : SUBSET Conns,
   cast : BOOLEAN, connecting : BOOLEAN]

Worlds ==
  [conn : [Conns -> ConnSet], obj : [Conns -> ObjSet], tasks : Seq(Tasks),
   autosend : SUBSET Conns, flushes : Nat]

-----------------------------------------------------------------------------
(* The inductive invariant                                                   *)

IsRequest(t) == t.op \in {"login", "spectate"}

\* What a protocol is before its request is answered.
Fresh(w, c) ==
  /\ w.conn[c].attempt = "none" /\ w.conn[c].player = NULL /\ ~w.conn[c].spectator
  /\ w.obj[c].life = "none"

\* The release of a connection is the last of its tasks.
ReleaseIsLast(w) ==
  \A i, j \in DOMAIN w.tasks :
    i < j /\ w.tasks[i].op = "release" => w.tasks[j].of # w.tasks[i].of

\* It is queued when the connection is closed.
ReleaseIsDue(w) ==
  \A i \in DOMAIN w.tasks :
    w.tasks[i].op = "release" =>
      w.conn[w.tasks[i].of].net = "closed" /\ ~w.conn[w.tasks[i].of].released

\* After it nothing comes.
ReleasedAreGone(w) ==
  \A c \in Conns : w.conn[c].released =>
    /\ w.conn[c].net = "closed"
    /\ \A i \in DOMAIN w.tasks : w.tasks[i].of # c

\* A connection asks once, and is fresh until it is answered.
RequestsAreFresh(w) ==
  \A i \in DOMAIN w.tasks : IsRequest(w.tasks[i]) =>
    w.conn[w.tasks[i].of].asked /\ Fresh(w, w.tasks[i].of)

AsksOnce(w) ==
  \A i, j \in DOMAIN w.tasks :
    i # j /\ IsRequest(w.tasks[i]) /\ IsRequest(w.tasks[j]) => w.tasks[i].of # w.tasks[j].of

\* Only spectators turn; who takes a player over is none.
Roles(w) ==
  /\ \A i \in DOMAIN w.tasks : w.tasks[i].op = "turn" =>
       w.conn[w.tasks[i].of].player # NULL /\ w.conn[w.tasks[i].of].spectator
  /\ \A c \in Conns :
       /\ ~w.conn[c].asked => Fresh(w, c)
       /\ w.conn[c].attempt # "none" => ~w.conn[c].spectator /\ w.conn[c].target \in Conns
       /\ w.conn[c].attempt = "due" => w.conn[c].player = NULL

Queue(w) ==
  /\ ReleaseIsLast(w) /\ ReleaseIsDue(w) /\ ReleasedAreGone(w)
  /\ RequestsAreFresh(w) /\ AsksOnce(w) /\ Roles(w)

\* WatchersAreAlive, FlushIsPending and ConnectingIsDue of a world.
Watched(w) ==
  \A o \in Conns : \A c \in w.obj[o].watchers :
    /\ w.conn[c].player = o /\ w.conn[c].spectator /\ ~w.conn[c].released
    /\ w.obj[o].cast

Flushing(w) ==
  /\ w.autosend # {} => w.flushes > 0
  /\ \A c \in w.autosend : ~w.conn[c].released

Due(w) ==
  \A o \in Conns : w.obj[o].connecting =>
    \E c \in Conns : w.conn[c].target = o /\ w.conn[c].attempt \in {"due", "gave_up"}

\* OwnerPlays: who plays a player is his owner, and the other way round.
Played(w) ==
  /\ \A c \in Conns : w.conn[c].player # NULL =>
       /\ w.obj[w.conn[c].player].life # "none"
       /\ ~w.conn[c].spectator =>
            /\ w.obj[w.conn[c].player].owner = c
            /\ w.conn[c].released => w.conn[c].late
  /\ \A o \in Conns : w.obj[o].owner # NULL =>
       w.conn[w.obj[o].owner].player = o /\ ~w.conn[w.obj[o].owner].spectator

Once(w) ==
  \A o, p \in Conns :
    w.obj[o].life = "game" /\ w.obj[p].life = "game" /\ w.obj[o].name = w.obj[p].name => o = p

Good(w) ==
  /\ w \in Worlds
  /\ Queue(w) /\ Watched(w) /\ Flushing(w) /\ Due(w) /\ Played(w) /\ Once(w)

-----------------------------------------------------------------------------
(* Lemmas about lists of tasks                                               *)

LEMMA TaskOf ==
  ASSUME NEW t \in Tasks
  PROVE  t.of \in Conns
BY DEF Tasks, Requests

LEMMA AppendTask ==
  ASSUME NEW s \in Seq(Tasks), NEW t \in Tasks
  PROVE  /\ Append(s, t) \in Seq(Tasks)
         /\ DOMAIN Append(s, t) = 1 .. Len(s) + 1
         /\ DOMAIN s = 1 .. Len(s) /\ Len(s) \in Nat
         /\ Append(s, t)[Len(s) + 1] = t
         /\ \A i \in DOMAIN s : Append(s, t)[i] = s[i]
BY AppendProperties

LEMMA TailTasks ==
  ASSUME NEW s \in Seq(Tasks), s # <<>>
  PROVE  /\ Tail(s) \in Seq(Tasks) /\ Head(s) = s[1] /\ 1 \in DOMAIN s
         /\ \A i \in DOMAIN Tail(s) :
              i \in Nat /\ i > 0 /\ i + 1 \in DOMAIN s /\ Tail(s)[i] = s[i + 1]
<1>1. /\ Len(s) \in Nat /\ Len(s) # 0 /\ DOMAIN s = 1 .. Len(s)
      /\ Tail(s) \in Seq(Tasks) /\ Len(Tail(s)) = Len(s) - 1
      /\ \A i \in 1 .. Len(Tail(s)) : Tail(s)[i] = s[i + 1]
  BY HeadTailProperties
<1>2. DOMAIN Tail(s) = 1 .. Len(s) - 1
  BY <1>1
<1> QED  BY <1>1, <1>2

\* The releases that Disconnect queues, one for each of the connections.
LEMMA ReleaseTasks ==
  ASSUME NEW open \in SUBSET Conns
  PROVE  LET s == SetToSeq([op : {"release"}, of : open])
         IN  /\ s \in Seq(Tasks)
             /\ \A i \in DOMAIN s : s[i].op = "release" /\ s[i].of \in open
             /\ \A i, j \in DOMAIN s : i # j => s[i].of # s[j].of
<1> DEFINE R == [op : {"release"}, of : open]
           f == [c \in open |-> [op |-> "release", of |-> c]]
           s == SetToSeq(R)
<1>1. IsFiniteSet(open)
  BY FS_Subset, SessionAssumption
<1>2. f \in [open -> R]
  OBVIOUS
<1>3. \A r \in R : \E c \in open : f[c] = r
  <2> SUFFICES ASSUME NEW r \in R PROVE f[r.of] = r /\ r.of \in open
    OBVIOUS
  <2>1. r = [op |-> r.op, of |-> r.of] /\ r.op = "release" /\ r.of \in open
    OBVIOUS
  <2> QED  BY <2>1
<1>4. f \in Surjection(open, R)
  BY <1>2, <1>3 DEF Surjection
<1>5. IsFiniteSet(R)
  BY <1>1, <1>4, FS_Surjection
<1>6. Cardinality(R) \in Nat /\ ExistsBijection(1 .. Cardinality(R), R)
  BY <1>5, FS_CardinalityType
<1>7. \E g \in [1 .. Cardinality(R) -> R] : IsInjective(g)
  BY <1>6 DEF ExistsBijection, Bijection, Injection
<1>8. s \in [1 .. Cardinality(R) -> R] /\ IsInjective(s)
  BY <1>7 DEF SetToSeq
<1>10. R \subseteq Tasks
  BY DEF Tasks
<1>14. \A r \in R : r.op = "release" /\ r.of \in open
  OBVIOUS
<1>16. \A r \in R : r = [op |-> "release", of |-> r.of]
  OBVIOUS
<1> HIDE DEF R, s
<1>9. DOMAIN s = 1 .. Cardinality(R) /\ s \in [1 .. Cardinality(R) -> Tasks]
  BY <1>6, <1>8, <1>10
<1>11. s \in Seq(Tasks)
  BY <1>6, <1>9
<1>12. ASSUME NEW i \in DOMAIN s PROVE s[i] \in R
  BY <1>8, <1>9
<1>13. ASSUME NEW i \in DOMAIN s, NEW j \in DOMAIN s, i # j PROVE s[i].of # s[j].of
  <2>1. s[i] # s[j]
    BY <1>8, <1>9, <1>13 DEF IsInjective
  <2>3. s[i] = [op |-> "release", of |-> s[i].of] /\ s[j] = [op |-> "release", of |-> s[j].of]
    BY <1>12, <1>16
  <2> QED  BY <2>1, <2>3
<1>15. /\ s \in Seq(Tasks)
       /\ \A i \in DOMAIN s : s[i].op = "release" /\ s[i].of \in open
       /\ \A i, j \in DOMAIN s : i # j => s[i].of # s[j].of
  BY <1>11, <1>12, <1>13, <1>14
<1> QED  BY <1>15 DEF R, s

LEMMA ConcatTasks ==
  ASSUME NEW s \in Seq(Tasks), NEW t \in Seq(Tasks)
  PROVE  /\ s \o t \in Seq(Tasks)
         /\ \A i \in DOMAIN s : i \in DOMAIN (s \o t) /\ (s \o t)[i] = s[i]
         /\ \A i \in DOMAIN (s \o t) :
              \/ i \in DOMAIN s /\ (s \o t)[i] = s[i]
              \/ /\ i \in Nat /\ i - Len(s) \in DOMAIN t /\ (s \o t)[i] = t[i - Len(s)]
                 /\ \A j \in DOMAIN s : j < i
<1>1. /\ Len(s) \in Nat /\ Len(t) \in Nat
      /\ DOMAIN s = 1 .. Len(s) /\ DOMAIN t = 1 .. Len(t)
      /\ s \o t \in Seq(Tasks) /\ DOMAIN (s \o t) = 1 .. Len(s) + Len(t)
      /\ \A i \in 1 .. Len(s) + Len(t) :
           (s \o t)[i] = IF i <= Len(s) THEN s[i] ELSE t[i - Len(s)]
  BY ConcatProperties
<1> QED  BY <1>1

-----------------------------------------------------------------------------
(* What the methods keep                                                     *)

\* No request of c is queued.
Answered(w, c) == \A i \in DOMAIN w.tasks : IsRequest(w.tasks[i]) => w.tasks[i].of # c

\* Two states of a protocol that the invariant does not tell apart.
Same(x, y) ==
  /\ x.asked = y.asked /\ x.player = y.player /\ x.spectator = y.spectator
  /\ x.target = y.target /\ x.attempt = y.attempt /\ x.released = y.released
  /\ x.late = y.late

\* A world that differs in what the invariant does not speak of, or has fewer
\* watchers.
LEMMA FrameGood ==
  ASSUME NEW w, NEW v, Good(w), v \in Worlds,
         v.tasks = w.tasks, v.autosend = w.autosend, v.flushes = w.flushes,
         \A c \in Conns : /\ Same(v.conn[c], w.conn[c])
                          /\ w.conn[c].net = "closed" => v.conn[c].net = "closed",
         \A o \in Conns : /\ v.obj[o].watchers \subseteq w.obj[o].watchers
                          /\ v.obj[o].watchers = {} \/ (w.obj[o].cast => v.obj[o].cast)
                          /\ v.obj[o].connecting => w.obj[o].connecting
                          /\ v.obj[o].owner = w.obj[o].owner
                          /\ v.obj[o].life = "none" <=> w.obj[o].life = "none"
                          /\ v.obj[o].life = "game" =>
                               w.obj[o].life = "game" /\ v.obj[o].name = w.obj[o].name
  PROVE  Good(v)
<1>1. \A i \in DOMAIN w.tasks : w.tasks[i].of \in Conns
  BY TaskOf DEF Good, Worlds
<1>2. ReleaseIsLast(v) /\ AsksOnce(v)
  BY DEF Good, Queue, ReleaseIsLast, AsksOnce
<1>3. ReleaseIsDue(v)
  BY <1>1 DEF Good, Queue, ReleaseIsDue, Same
<1>4. ReleasedAreGone(v)
  BY DEF Good, Queue, ReleasedAreGone, Same
<1>5. RequestsAreFresh(v)
  <2>1. RequestsAreFresh(w)
    BY DEF Good, Queue
  <2> QED  BY <1>1, <2>1 DEF RequestsAreFresh, Same, Fresh
<1>6. Roles(v)
  BY <1>1 DEF Good, Queue, Roles, Same, Fresh
<1>7. Watched(v)
  <2> SUFFICES ASSUME NEW o \in Conns, NEW c \in v.obj[o].watchers
               PROVE  /\ v.conn[c].player = o /\ v.conn[c].spectator /\ ~v.conn[c].released
                      /\ v.obj[o].cast
    BY DEF Watched
  <2>1. c \in w.obj[o].watchers /\ c \in Conns
    BY DEF Worlds, ObjSet
  <2>2. /\ w.conn[c].player = o /\ w.conn[c].spectator /\ ~w.conn[c].released
        /\ w.obj[o].cast
    BY <2>1 DEF Good, Watched
  <2>3. v.obj[o].cast
    BY <2>2
  <2> QED  BY <2>1, <2>2, <2>3 DEF Same
<1>8. Flushing(v)
  BY DEF Good, Flushing, Same, Worlds
<1>9. Due(v)
  BY DEF Good, Due, Same
<1>10. Played(v)
  <2>1. \A c \in Conns : w.conn[c].player \in Conns \cup {NULL}
    BY DEF Good, Worlds, ConnSet
  <2>2. \A o \in Conns : w.obj[o].owner \in Conns \cup {NULL}
    BY DEF Good, Worlds, ObjSet
  <2>3. ASSUME NEW c \in Conns, v.conn[c].player # NULL
        PROVE  /\ v.obj[v.conn[c].player].life # "none"
               /\ ~v.conn[c].spectator =>
                    /\ v.obj[v.conn[c].player].owner = c
                    /\ v.conn[c].released => v.conn[c].late
    <3>1. v.conn[c].player = w.conn[c].player /\ w.conn[c].player \in Conns
      BY <2>1, <2>3 DEF Same
    <3> QED  BY <3>1, <2>3 DEF Good, Played, Same
  <2>4. ASSUME NEW o \in Conns, v.obj[o].owner # NULL
        PROVE  v.conn[v.obj[o].owner].player = o /\ ~v.conn[v.obj[o].owner].spectator
    <3>1. v.obj[o].owner = w.obj[o].owner /\ w.obj[o].owner \in Conns
      BY <2>2, <2>4
    <3>2. w.conn[w.obj[o].owner].player = o /\ ~w.conn[w.obj[o].owner].spectator
      BY <2>4, <3>1 DEF Good, Played
    <3> QED  BY <3>1, <3>2 DEF Same
  <2> QED  BY <2>3, <2>4 DEF Played
<1>11. Once(v)
  BY DEF Good, Once
<1> QED  BY <1>2, <1>3, <1>4, <1>5, <1>6, <1>7, <1>8, <1>9, <1>10, <1>11 DEF Good, Queue

\* Connection::close of some connections.
LEMMA DisconnectGood ==
  ASSUME NEW w, Good(w), NEW C \in SUBSET Conns
  PROVE  LET v == Disconnect(w, C)
         IN  /\ Good(v)
             /\ v.obj = w.obj /\ v.autosend = w.autosend /\ v.flushes = w.flushes
             /\ \A c \in Conns : Same(v.conn[c], w.conn[c]) /\ (Answered(w, c) => Answered(v, c))
<1> DEFINE open == {c \in C : w.conn[c].net = "open"}
           s == SetToSeq([op : {"release"}, of : open])
           v == Disconnect(w, C)
<1>1. /\ s \in Seq(Tasks)
      /\ \A i \in DOMAIN s : s[i].op = "release" /\ s[i].of \in open
      /\ \A i, j \in DOMAIN s : i # j => s[i].of # s[j].of
  BY ReleaseTasks
<1>2. w \in Worlds /\ w.tasks \in Seq(Tasks) /\ w.conn \in [Conns -> ConnSet]
  BY DEF Good, Worlds
<1>3. v = [w EXCEPT
            !.conn = [c \in Conns |-> [w.conn[c] EXCEPT !.net = IF c \in open THEN "closed" ELSE w.conn[c].net]],
            !.tasks = w.tasks \o s]
  BY DEF Disconnect
<1> HIDE DEF s, v, open
<1>4. /\ v.tasks = w.tasks \o s /\ v.obj = w.obj /\ v.autosend = w.autosend
      /\ v.flushes = w.flushes
      /\ v.conn = [c \in Conns |-> [w.conn[c] EXCEPT !.net = IF c \in open THEN "closed" ELSE w.conn[c].net]]
  BY <1>2, <1>3 DEF Worlds
<1>5. ASSUME NEW c \in Conns
      PROVE  /\ Same(v.conn[c], w.conn[c]) /\ v.conn[c] \in ConnSet
             /\ v.conn[c].net = IF c \in open THEN "closed" ELSE w.conn[c].net
  <2>1. w.conn[c] \in ConnSet
    BY <1>2
  <2>2. v.conn[c] = [w.conn[c] EXCEPT !.net = IF c \in open THEN "closed" ELSE w.conn[c].net]
    BY <1>4
  <2> QED  BY <2>1, <2>2 DEF ConnSet, Same
<1>6. /\ v.tasks \in Seq(Tasks)
      /\ \A i \in DOMAIN v.tasks :
           \/ i \in DOMAIN w.tasks /\ v.tasks[i] = w.tasks[i]
           \/ /\ i \in Nat /\ i - Len(w.tasks) \in DOMAIN s /\ v.tasks[i] = s[i - Len(w.tasks)]
              /\ \A j \in DOMAIN w.tasks : j < i
  BY <1>1, <1>2, <1>4, ConcatTasks
<1>7. v \in Worlds
  <2>1. v.conn \in [Conns -> ConnSet]
    BY <1>4, <1>5
  <2> QED  BY <1>2, <1>3, <1>6, <2>1, <1>4 DEF Worlds
<1>8. \A c \in open : c \in Conns /\ w.conn[c].net = "open" /\ ~w.conn[c].released
  BY DEF open, Good, Queue, ReleasedAreGone
<1>9. \A i \in DOMAIN v.tasks :
         \/ i \in DOMAIN w.tasks /\ v.tasks[i] = w.tasks[i]
         \/ v.tasks[i].op = "release" /\ v.tasks[i].of \in open
  BY <1>1, <1>6
<1>10. \A i \in DOMAIN w.tasks : w.tasks[i].of \in Conns /\ w.tasks[i].op # "none"
  BY <1>2, TaskOf DEF Tasks, Requests
<1>11. ReleaseIsLast(v)
  <2> SUFFICES ASSUME NEW i \in DOMAIN v.tasks, NEW j \in DOMAIN v.tasks,
                      i < j, v.tasks[i].op = "release"
               PROVE  v.tasks[j].of # v.tasks[i].of
    BY DEF ReleaseIsLast
  <2>0. Len(w.tasks) \in Nat /\ DOMAIN w.tasks = 1 .. Len(w.tasks)
    BY <1>2
  <2>1. CASE i \in DOMAIN w.tasks /\ v.tasks[i] = w.tasks[i]
    <3>1. CASE j \in DOMAIN w.tasks /\ v.tasks[j] = w.tasks[j]
      BY <2>1, <3>1 DEF Good, Queue, ReleaseIsLast
    <3>2. CASE v.tasks[j].op = "release" /\ v.tasks[j].of \in open
      <4>1. w.conn[v.tasks[i].of].net = "closed"
        BY <2>1 DEF Good, Queue, ReleaseIsDue
      <4> QED  BY <4>1, <3>2, <1>8
    <3> QED  BY <1>9, <3>1, <3>2
  <2>2. CASE /\ i \in Nat /\ i - Len(w.tasks) \in DOMAIN s
             /\ v.tasks[i] = s[i - Len(w.tasks)]
             /\ \A h \in DOMAIN w.tasks : h < i
    <3>1. j \notin DOMAIN w.tasks
      BY <2>0, <2>2
    <3>2. j \in Nat /\ j - Len(w.tasks) \in DOMAIN s /\ v.tasks[j] = s[j - Len(w.tasks)]
      BY <3>1, <1>6
    <3>3. i - Len(w.tasks) # j - Len(w.tasks)
      BY <2>0, <2>2, <3>2
    <3> QED  BY <1>1, <2>2, <3>2, <3>3
  <2> QED  BY <1>6, <2>1, <2>2
<1>12. ReleaseIsDue(v)
  BY <1>5, <1>8, <1>9, <1>10 DEF Good, Queue, ReleaseIsDue, Same
<1>13. ReleasedAreGone(v)
  BY <1>5, <1>8, <1>9 DEF Good, Queue, ReleasedAreGone, Same
<1>14. RequestsAreFresh(v)
  <2> SUFFICES ASSUME NEW i \in DOMAIN v.tasks, IsRequest(v.tasks[i])
               PROVE  v.conn[v.tasks[i].of].asked /\ Fresh(v, v.tasks[i].of)
    BY DEF RequestsAreFresh
  <2>1. i \in DOMAIN w.tasks /\ v.tasks[i] = w.tasks[i] /\ v.tasks[i].of \in Conns
    BY <1>9, <1>10 DEF IsRequest
  <2>2. w.conn[v.tasks[i].of].asked /\ Fresh(w, v.tasks[i].of)
    BY <2>1 DEF Good, Queue, RequestsAreFresh
  <2> QED  BY <1>4, <1>5, <2>1, <2>2 DEF Same, Fresh
<1>15. AsksOnce(v)
  BY <1>9 DEF Good, Queue, AsksOnce, IsRequest
<1>16. Roles(v)
  <2>1. \A i \in DOMAIN v.tasks : v.tasks[i].op = "turn" =>
          v.conn[v.tasks[i].of].player # NULL /\ v.conn[v.tasks[i].of].spectator
    BY <1>5, <1>9, <1>10 DEF Good, Queue, Roles, Same
  <2>2. \A c \in Conns : ~v.conn[c].asked => Fresh(v, c)
    BY <1>4, <1>5 DEF Good, Queue, Roles, Same, Fresh
  <2>3. \A c \in Conns :
          /\ v.conn[c].attempt # "none" => ~v.conn[c].spectator /\ v.conn[c].target \in Conns
          /\ v.conn[c].attempt = "due" => v.conn[c].player = NULL
    BY <1>5 DEF Good, Queue, Roles, Same
  <2> QED  BY <2>1, <2>2, <2>3 DEF Roles
<1>17. Watched(v)
  <2> SUFFICES ASSUME NEW o \in Conns, NEW c \in v.obj[o].watchers
               PROVE  /\ v.conn[c].player = o /\ v.conn[c].spectator /\ ~v.conn[c].released
                      /\ v.obj[o].cast
    BY DEF Watched
  <2>1. c \in w.obj[o].watchers /\ c \in Conns
    BY <1>4, <1>7 DEF Worlds, ObjSet
  <2> QED  BY <2>1, <1>4, <1>5 DEF Good, Watched, Same
<1>18. Flushing(v)
  BY <1>4, <1>5, <1>7 DEF Good, Flushing, Same, Worlds
<1>19. Due(v)
  BY <1>4, <1>5 DEF Good, Due, Same
<1>20. \A c \in Conns : Answered(w, c) => Answered(v, c)
  BY <1>9 DEF Answered, IsRequest
<1>21. Played(v)
  <2>1. \A c \in Conns : w.conn[c].player \in Conns \cup {NULL}
    BY DEF Good, Worlds, ConnSet
  <2>2. \A o \in Conns : w.obj[o].owner \in Conns \cup {NULL}
    BY DEF Good, Worlds, ObjSet
  <2>3. Played(w)
    BY DEF Good
  <2>4. ASSUME NEW d \in Conns, v.conn[d].player # NULL
        PROVE  /\ v.obj[v.conn[d].player].life # "none"
               /\ ~v.conn[d].spectator =>
                    /\ v.obj[v.conn[d].player].owner = d
                    /\ v.conn[d].released => v.conn[d].late
    <3>1. Same(v.conn[d], w.conn[d]) /\ w.conn[d].player \in Conns
      BY <1>5, <2>1, <2>4 DEF Same
    <3> QED  BY <1>4, <2>3, <2>4, <3>1 DEF Played, Same
  <2>5. ASSUME NEW p \in Conns, v.obj[p].owner # NULL
        PROVE  v.conn[v.obj[p].owner].player = p /\ ~v.conn[v.obj[p].owner].spectator
    <3>1. v.obj[p].owner = w.obj[p].owner /\ w.obj[p].owner \in Conns
      BY <1>4, <2>2, <2>5
    <3>2. w.conn[w.obj[p].owner].player = p /\ ~w.conn[w.obj[p].owner].spectator
      BY <2>3, <2>5, <3>1 DEF Played
    <3> QED  BY <1>5, <3>1, <3>2 DEF Same
  <2> QED  BY <2>4, <2>5 DEF Played
<1>22. Once(v)
  BY <1>4 DEF Good, Once
<1>23. Good(v)
  BY <1>7, <1>11, <1>12, <1>13, <1>14, <1>15, <1>16, <1>17, <1>18, <1>19, <1>21, <1>22
  DEF Good, Queue
<1> QED  BY <1>4, <1>5, <1>20, <1>23 DEF v

\* A world in which the protocol c has changed, and players with it.
LEMMA EditGood ==
  ASSUME NEW w, NEW v, NEW c \in Conns, Good(w), v \in Worlds,
         v.tasks = w.tasks, v.autosend \subseteq w.autosend, v.flushes = w.flushes,
         Answered(w, c),
         \A d \in Conns \ {c} : v.conn[d] = w.conn[d]
                             /\ (w.obj[d].life = "none" => v.obj[d].life = "none"),
         w.conn[c].net = "closed" => v.conn[c].net = "closed",
         v.conn[c].released =>
           \/ w.conn[c].released
           \/ /\ v.conn[c].net = "closed" /\ c \notin v.autosend
              /\ \A i \in DOMAIN w.tasks : w.tasks[i].of # c,
         \A i \in DOMAIN w.tasks : w.tasks[i].op = "turn" /\ w.tasks[i].of = c =>
           v.conn[c].player # NULL /\ v.conn[c].spectator,
         ~v.conn[c].asked => Fresh(v, c),
         v.conn[c].attempt # "none" => ~v.conn[c].spectator /\ v.conn[c].target \in Conns,
         v.conn[c].attempt = "due" => v.conn[c].player = NULL,
         Watched(v), Due(v), Played(v), Once(v)
  PROVE  Good(v)
<1>1. \A i \in DOMAIN w.tasks : w.tasks[i].of \in Conns
  BY TaskOf DEF Good, Worlds
<1>2. ReleaseIsLast(v) /\ AsksOnce(v)
  BY DEF Good, Queue, ReleaseIsLast, AsksOnce
<1>3. ReleaseIsDue(v)
  <2> SUFFICES ASSUME NEW i \in DOMAIN v.tasks, v.tasks[i].op = "release"
               PROVE  v.conn[v.tasks[i].of].net = "closed" /\ ~v.conn[v.tasks[i].of].released
    BY DEF ReleaseIsDue
  <2>1. w.conn[v.tasks[i].of].net = "closed" /\ ~w.conn[v.tasks[i].of].released
    BY DEF Good, Queue, ReleaseIsDue
  <2> QED  BY <1>1, <2>1
<1>4. ReleasedAreGone(v)
  <2> SUFFICES ASSUME NEW d \in Conns, v.conn[d].released
               PROVE  /\ v.conn[d].net = "closed"
                      /\ \A i \in DOMAIN v.tasks : v.tasks[i].of # d
    BY DEF ReleasedAreGone
  <2>1. w.conn[d].released =>
          w.conn[d].net = "closed" /\ \A i \in DOMAIN w.tasks : w.tasks[i].of # d
    BY DEF Good, Queue, ReleasedAreGone
  <2> QED  BY <2>1
<1>5. RequestsAreFresh(v)
  <2> SUFFICES ASSUME NEW i \in DOMAIN v.tasks, IsRequest(v.tasks[i])
               PROVE  v.conn[v.tasks[i].of].asked /\ Fresh(v, v.tasks[i].of)
    BY DEF RequestsAreFresh
  <2>1. v.tasks[i].of \in Conns \ {c}
    BY <1>1 DEF Answered
  <2>2. w.conn[v.tasks[i].of].asked /\ Fresh(w, v.tasks[i].of)
    BY DEF Good, Queue, RequestsAreFresh
  <2> QED  BY <2>1, <2>2 DEF Fresh
<1>6. Roles(v)
  <2>1. \A i \in DOMAIN v.tasks : v.tasks[i].op = "turn" =>
          v.conn[v.tasks[i].of].player # NULL /\ v.conn[v.tasks[i].of].spectator
    BY <1>1 DEF Good, Queue, Roles
  <2>2. \A d \in Conns \ {c} : ~v.conn[d].asked => Fresh(v, d)
    BY DEF Good, Queue, Roles, Fresh
  <2>3. \A d \in Conns \ {c} :
          /\ v.conn[d].attempt # "none" => ~v.conn[d].spectator /\ v.conn[d].target \in Conns
          /\ v.conn[d].attempt = "due" => v.conn[d].player = NULL
    BY DEF Good, Queue, Roles
  <2> QED  BY <2>1, <2>2, <2>3 DEF Roles
<1>7. Flushing(v)
  <2>1. \A d \in v.autosend : d \in Conns /\ ~w.conn[d].released
    BY DEF Good, Flushing, Worlds
  <2> QED  BY <2>1 DEF Good, Flushing, Worlds
<1> QED  BY <1>2, <1>3, <1>4, <1>5, <1>6, <1>7 DEF Good, Queue

\* A task that is queued for an open connection.
LEMMA AppendGood ==
  ASSUME NEW w, Good(w), NEW t \in Tasks, t.op # "release", w.conn[t.of].net = "open",
         IsRequest(t) => w.conn[t.of].asked /\ Fresh(w, t.of) /\ Answered(w, t.of),
         t.op = "turn" => w.conn[t.of].player # NULL /\ w.conn[t.of].spectator
  PROVE  Good([w EXCEPT !.tasks = Append(@, t)])
<1> DEFINE v == [w EXCEPT !.tasks = Append(@, t)]
<1>1. w \in Worlds /\ w.tasks \in Seq(Tasks)
  BY DEF Good, Worlds
<1>2. /\ v.tasks = Append(w.tasks, t) /\ v.conn = w.conn /\ v.obj = w.obj
      /\ v.autosend = w.autosend /\ v.flushes = w.flushes
  BY <1>1 DEF Worlds
<1>3. /\ v.tasks \in Seq(Tasks) /\ Len(w.tasks) \in Nat
      /\ DOMAIN v.tasks = 1 .. Len(w.tasks) + 1 /\ DOMAIN w.tasks = 1 .. Len(w.tasks)
      /\ v.tasks[Len(w.tasks) + 1] = t
      /\ \A i \in DOMAIN w.tasks : v.tasks[i] = w.tasks[i]
  BY <1>1, <1>2, AppendTask
<1>4. v \in Worlds
  BY <1>1, <1>3 DEF Worlds
<1> HIDE DEF v
<1>5. \A i \in DOMAIN v.tasks : \/ i \in DOMAIN w.tasks /\ v.tasks[i] = w.tasks[i]
                                \/ i = Len(w.tasks) + 1 /\ v.tasks[i] = t
  BY <1>3
<1>6. ReleaseIsLast(v)
  <2> SUFFICES ASSUME NEW i \in DOMAIN v.tasks, NEW j \in DOMAIN v.tasks,
                      i < j, v.tasks[i].op = "release"
               PROVE  v.tasks[j].of # v.tasks[i].of
    BY DEF ReleaseIsLast
  <2>1. i \in DOMAIN w.tasks /\ v.tasks[i] = w.tasks[i]
    BY <1>5
  <2>2. w.conn[v.tasks[i].of].net = "closed"
    BY <2>1 DEF Good, Queue, ReleaseIsDue
  <2> QED  BY <1>5, <2>1, <2>2 DEF Good, Queue, ReleaseIsLast
<1>7. ReleaseIsDue(v)
  BY <1>2, <1>5 DEF Good, Queue, ReleaseIsDue
<1>8. ReleasedAreGone(v)
  BY <1>2, <1>5 DEF Good, Queue, ReleasedAreGone
<1>9. RequestsAreFresh(v)
  BY <1>2, <1>5 DEF Good, Queue, RequestsAreFresh, Fresh
<1>10. AsksOnce(v)
  BY <1>5 DEF Good, Queue, AsksOnce, Answered
<1>11. Roles(v)
  <2>1. Roles(w)
    BY DEF Good, Queue
  <2> QED  BY <1>2, <1>5, <2>1 DEF Roles, Fresh
<1>12. Watched(v) /\ Flushing(v) /\ Due(v) /\ Played(v) /\ Once(v)
  <2>1. Watched(w) /\ Flushing(w) /\ Due(w) /\ Played(w) /\ Once(w)
    BY DEF Good
  <2>2. Watched(v) /\ Flushing(v) /\ Due(v)
    BY <1>2, <2>1 DEF Watched, Flushing, Due
  <2>3. v.conn = w.conn /\ v.obj = w.obj
    BY <1>2
  <2>4. Played(v)
    BY <2>1, <2>3 DEF Played
  <2>5. Once(v)
    BY <2>1, <2>3 DEF Once
  <2> QED  BY <2>2, <2>4, <2>5
<1>13. Good(v)
  BY <1>4, <1>6, <1>7, <1>8, <1>9, <1>10, <1>11, <1>12 DEF Good, Queue
<1> QED  BY <1>13 DEF v

-----------------------------------------------------------------------------
(* The methods                                                               *)

\* What is said of a world is said of the next state.
LEMMA NextWorld ==
  ASSUME NEW w \in Worlds, Becomes(w), Good(w)
  PROVE  Good(World)'
<1>1. World' = w
  BY DEF World, Becomes, Worlds
<1>2. (ReleaseIsLast(World) /\ ReleaseIsDue(World) /\ ReleasedAreGone(World) /\ AsksOnce(World))'
  BY <1>1 DEF Good, Queue, ReleaseIsLast, ReleaseIsDue, ReleasedAreGone, AsksOnce
<1>3. RequestsAreFresh(World)' /\ Roles(World)'
  <2>1. RequestsAreFresh(w) /\ Roles(w)
    BY DEF Good, Queue
  <2> QED  BY <1>1, <2>1 DEF RequestsAreFresh, Roles, Fresh
<1>4. (Watched(World) /\ Flushing(World) /\ Due(World))'
  BY <1>1 DEF Good, Watched, Flushing, Due
<1>5. Played(World)' /\ Once(World)'
  BY <1>1 DEF Good, Played, Once
<1>6. World' \in Worlds
  BY <1>1
<1> QED  BY <1>2, <1>3, <1>4, <1>5, <1>6 DEF Good, Queue, Worlds

\* The world in which a task runs: it is not in the list any more.
LEMMA RestGood ==
  ASSUME Good(World), NEW c \in Conns, NEW op, AtHead(op, c)
  PROVE  /\ Good(Rest)
         /\ Rest.conn = conn /\ Rest.obj = obj
         /\ Rest.autosend = autosend /\ Rest.flushes = flushes
         /\ ~conn[c].released
         /\ op \in {"login", "spectate"} => /\ Head(tasks) \in Requests
                                            /\ conn[c].asked /\ Fresh(World, c) /\ Answered(Rest, c)
         /\ op = "turn" => conn[c].player # NULL /\ conn[c].spectator
         /\ op = "release" => /\ conn[c].net = "closed"
                              /\ \A i \in DOMAIN Rest.tasks : Rest.tasks[i].of # c
<1>1. /\ World.conn = conn /\ World.obj = obj /\ World.tasks = tasks
      /\ World.autosend = autosend /\ World.flushes = flushes
      /\ World \in Worlds /\ tasks \in Seq(Tasks) /\ tasks # <<>>
  BY DEF World, Good, Worlds, AtHead
<1>2. /\ Rest.conn = conn /\ Rest.obj = obj /\ Rest.tasks = Tail(tasks)
      /\ Rest.autosend = autosend /\ Rest.flushes = flushes
  BY DEF Rest, World
<1>3. /\ Tail(tasks) \in Seq(Tasks) /\ Head(tasks) = tasks[1] /\ 1 \in DOMAIN tasks
      /\ \A i \in DOMAIN Tail(tasks) :
           i \in Nat /\ i > 0 /\ i + 1 \in DOMAIN tasks /\ Tail(tasks)[i] = tasks[i + 1]
  BY <1>1, TailTasks
<1>4. Rest \in Worlds
  BY <1>1, <1>3 DEF Rest, World, Worlds
<1>5. tasks[1].op = op /\ tasks[1].of = c
  BY <1>3 DEF AtHead
<1>6. ~conn[c].released
  BY <1>1, <1>3, <1>5 DEF Good, Queue, ReleasedAreGone
<1>7. ASSUME op \in {"login", "spectate"}
      PROVE  /\ Head(tasks) \in Requests
             /\ conn[c].asked /\ Fresh(World, c) /\ Answered(Rest, c)
  <2>1. IsRequest(tasks[1])
    BY <1>5, <1>7 DEF IsRequest
  <2>2. Head(tasks) \in Requests
    <3>1. tasks[1] \in Tasks
      BY <1>1, <1>3
    <3> QED  BY <1>3, <2>1, <3>1 DEF Tasks, IsRequest
  <2>3. conn[c].asked /\ Fresh(World, c)
    BY <1>1, <1>3, <1>5, <2>1 DEF Good, Queue, RequestsAreFresh
  <2>4. Answered(Rest, c)
    <3> SUFFICES ASSUME NEW i \in DOMAIN Tail(tasks), IsRequest(Tail(tasks)[i])
                 PROVE  Tail(tasks)[i].of # c
      BY <1>2 DEF Answered
    <3>1. i + 1 \in DOMAIN tasks /\ i + 1 # 1 /\ Tail(tasks)[i] = tasks[i + 1]
      BY <1>3
    <3> QED  BY <1>1, <1>3, <1>5, <2>1, <3>1 DEF Good, Queue, AsksOnce
  <2> QED  BY <2>2, <2>3, <2>4
<1>8. op = "turn" => conn[c].player # NULL /\ conn[c].spectator
  BY <1>1, <1>3, <1>5 DEF Good, Queue, Roles
<1>9. ASSUME op = "release"
      PROVE  /\ conn[c].net = "closed"
             /\ \A i \in DOMAIN Rest.tasks : Rest.tasks[i].of # c
  <2>1. conn[c].net = "closed"
    BY <1>1, <1>3, <1>5, <1>9 DEF Good, Queue, ReleaseIsDue
  <2>2. ASSUME NEW i \in DOMAIN Tail(tasks) PROVE Tail(tasks)[i].of # c
    <3>1. i + 1 \in DOMAIN tasks /\ 1 < i + 1 /\ Tail(tasks)[i] = tasks[i + 1]
      BY <1>3
    <3> QED  BY <1>1, <1>3, <1>5, <1>9, <3>1 DEF Good, Queue, ReleaseIsLast
  <2> QED  BY <1>2, <2>1, <2>2
<1>10. Good(Rest)
  <2>1. ReleaseIsLast(Rest)
    <3> SUFFICES ASSUME NEW i \in DOMAIN Tail(tasks), NEW j \in DOMAIN Tail(tasks),
                        i < j, Tail(tasks)[i].op = "release"
                 PROVE  Tail(tasks)[j].of # Tail(tasks)[i].of
      BY <1>2 DEF ReleaseIsLast
    <3>1. i + 1 \in DOMAIN tasks /\ j + 1 \in DOMAIN tasks /\ i + 1 < j + 1
      BY <1>3
    <3> QED  BY <1>1, <1>3, <3>1 DEF Good, Queue, ReleaseIsLast
  <2>2. ReleaseIsDue(Rest) /\ RequestsAreFresh(Rest)
    BY <1>1, <1>2, <1>3 DEF Good, Queue, ReleaseIsDue, RequestsAreFresh, Fresh
  <2>3. ReleasedAreGone(Rest)
    BY <1>1, <1>2, <1>3 DEF Good, Queue, ReleasedAreGone
  <2>4. AsksOnce(Rest)
    <3> SUFFICES ASSUME NEW i \in DOMAIN Tail(tasks), NEW j \in DOMAIN Tail(tasks), i # j,
                        IsRequest(Tail(tasks)[i]), IsRequest(Tail(tasks)[j])
                 PROVE  Tail(tasks)[i].of # Tail(tasks)[j].of
      BY <1>2 DEF AsksOnce
    <3>1. i + 1 \in DOMAIN tasks /\ j + 1 \in DOMAIN tasks /\ i + 1 # j + 1
      BY <1>3
    <3> QED  BY <1>1, <1>3, <3>1 DEF Good, Queue, AsksOnce
  <2>5. Roles(Rest)
    BY <1>1, <1>2, <1>3 DEF Good, Queue, Roles, Fresh
  <2>6. Watched(Rest) /\ Flushing(Rest) /\ Due(Rest) /\ Played(Rest) /\ Once(Rest)
    BY <1>1, <1>2 DEF Good, Watched, Flushing, Due, Played, Once
  <2> QED  BY <1>4, <2>1, <2>2, <2>3, <2>4, <2>5, <2>6 DEF Good, Queue
<1> QED  BY <1>2, <1>6, <1>7, <1>8, <1>9, <1>10

LEMMA AddRefGood ==
  ASSUME NEW w, Good(w), NEW o \in Conns
  PROVE  Good(AddRef(w, o)) /\ AddRef(w, o).conn = w.conn /\ AddRef(w, o).autosend = w.autosend
<1> DEFINE v == AddRef(w, o)
<1>1. w \in Worlds /\ w.obj[o] \in ObjSet
  BY DEF Good, Worlds
<1>2. /\ v.obj = [w.obj EXCEPT ![o] = [w.obj[o] EXCEPT !.refs = @ + 1]]
      /\ v.conn = w.conn /\ v.tasks = w.tasks /\ v.autosend = w.autosend
      /\ v.flushes = w.flushes
  BY <1>1 DEF AddRef, Worlds
<1>3. /\ [w.obj[o] EXCEPT !.refs = @ + 1] \in ObjSet
      /\ \A p \in Conns : v.obj[p] = IF p = o THEN [w.obj[o] EXCEPT !.refs = @ + 1] ELSE w.obj[p]
  BY <1>1, <1>2 DEF ObjSet, Worlds
<1>4. v \in Worlds
  BY <1>1, <1>3 DEF AddRef, Worlds
<1> HIDE DEF v
<1>5. \A p \in Conns : /\ v.obj[p].watchers = w.obj[p].watchers
                       /\ v.obj[p].cast = w.obj[p].cast
                       /\ v.obj[p].connecting = w.obj[p].connecting
                       /\ v.obj[p].owner = w.obj[p].owner
                       /\ v.obj[p].life = w.obj[p].life
                       /\ v.obj[p].name = w.obj[p].name
  BY <1>1, <1>3 DEF ObjSet
<1>6. Good(v)
  BY <1>2, <1>4, <1>5, FrameGood DEF Same
<1> QED  BY <1>2, <1>6 DEF v

LEMMA UnRefGood ==
  ASSUME NEW w, Good(w), NEW o \in Conns, w.obj[o].life # "none"
  PROVE  Good(UnRef(w, o)) /\ UnRef(w, o).conn = w.conn
<1> DEFINE v == UnRef(w, o)
           life == IF w.obj[o].refs = 1 THEN "deleted" ELSE w.obj[o].life
           x == [w.obj[o] EXCEPT !.refs = @ - 1, !.life = life]
<1>1. w \in Worlds /\ w.obj[o] \in ObjSet
  BY DEF Good, Worlds
<1>2. /\ v.obj = [w.obj EXCEPT ![o] = x]
      /\ v.conn = w.conn /\ v.tasks = w.tasks /\ v.autosend = w.autosend
      /\ v.flushes = w.flushes
  BY <1>1 DEF UnRef, Worlds
<1>8. life \in {"none", "loaded", "game", "removed", "deleted"} \cap {"deleted", w.obj[o].life}
  BY <1>1 DEF ObjSet
<1> HIDE DEF life
<1>3. /\ x \in ObjSet
      /\ \A p \in Conns : v.obj[p] = IF p = o THEN x ELSE w.obj[p]
  <2>1. w.obj[o].refs - 1 \in Int
    BY <1>1 DEF ObjSet
  <2>2. x \in ObjSet
    BY <1>1, <1>8, <2>1 DEF ObjSet
  <2> HIDE DEF x, v
  <2> QED  BY <1>1, <1>2, <2>2 DEF Worlds
<1>4. v \in Worlds
  BY <1>1, <1>2, <1>3 DEF UnRef, Worlds
<1>7. /\ x.watchers = w.obj[o].watchers /\ x.cast = w.obj[o].cast
      /\ x.connecting = w.obj[o].connecting /\ x.owner = w.obj[o].owner
      /\ x.name = w.obj[o].name /\ x.life \in {"deleted", w.obj[o].life}
  BY <1>1, <1>8 DEF ObjSet
<1> HIDE DEF v, x
<1>9. \A c \in Conns : /\ Same(v.conn[c], w.conn[c])
                       /\ w.conn[c].net = "closed" => v.conn[c].net = "closed"
  BY <1>2 DEF Same
<1>11. \A p \in Conns : /\ v.obj[p].watchers \subseteq w.obj[p].watchers
                        /\ v.obj[p].watchers = {} \/ (w.obj[p].cast => v.obj[p].cast)
                        /\ v.obj[p].connecting => w.obj[p].connecting
                        /\ v.obj[p].owner = w.obj[p].owner
                        /\ v.obj[p].life = "none" <=> w.obj[p].life = "none"
                        /\ v.obj[p].life = "game" =>
                             w.obj[p].life = "game" /\ v.obj[p].name = w.obj[p].name
  BY <1>3, <1>7
<1>6. Good(v)
  BY <1>2, <1>4, <1>9, <1>11, FrameGood
<1> QED  BY <1>2, <1>6 DEF v

\* addProtocolToAutosend starts the flushing when the list was empty.
LEMMA AddToAutosendGood ==
  ASSUME NEW w, Good(w), NEW c \in Conns, ~w.conn[c].released
  PROVE  /\ Good(AddToAutosend(w, c))
         /\ AddToAutosend(w, c).conn = w.conn /\ AddToAutosend(w, c).obj = w.obj
<1> DEFINE v == AddToAutosend(w, c)
<1>1. w \in Worlds
  BY DEF Good
<1>2. /\ v.conn = w.conn /\ v.obj = w.obj /\ v.tasks = w.tasks
      /\ v.autosend = w.autosend \cup {c} /\ v.flushes = StartsFlush(w)
  BY <1>1 DEF AddToAutosend, Worlds
<1>3. StartsFlush(w) \in Nat /\ StartsFlush(w) > 0
  BY <1>1 DEF StartsFlush, Good, Flushing, Worlds
<1>4. v \in Worlds
  BY <1>1, <1>3 DEF AddToAutosend, Worlds
<1> HIDE DEF v
<1>5. ReleaseIsLast(v) /\ ReleaseIsDue(v) /\ ReleasedAreGone(v) /\ AsksOnce(v)
  BY <1>2 DEF Good, Queue, ReleaseIsLast, ReleaseIsDue, ReleasedAreGone, AsksOnce
<1>6. RequestsAreFresh(v) /\ Roles(v)
  <2>1. RequestsAreFresh(w) /\ Roles(w)
    BY DEF Good, Queue
  <2>2. RequestsAreFresh(v)
    BY <1>2, <2>1 DEF RequestsAreFresh, Fresh
  <2>3. Roles(v)
    BY <1>2, <2>1 DEF Roles, Fresh
  <2> QED  BY <2>2, <2>3
<1>7. Flushing(v)
  BY <1>2, <1>3 DEF Good, Flushing
<1>8. Watched(v) /\ Due(v) /\ Played(v) /\ Once(v)
  <2>1. Watched(w) /\ Due(w) /\ Played(w) /\ Once(w)
    BY DEF Good
  <2>2. Watched(v) /\ Due(v)
    BY <1>2, <2>1 DEF Watched, Due
  <2>3. Played(v) /\ Once(v)
    BY <1>2, <2>1 DEF Played, Once
  <2> QED  BY <2>2, <2>3
<1>9. Good(v)
  BY <1>4, <1>5, <1>6, <1>7, <1>8 DEF Good, Queue
<1> QED  BY <1>2, <1>9 DEF v

\* Spectators::clear, with its protocols closed.
LEMMA ClearGood ==
  ASSUME NEW w, Good(w), NEW o \in Conns, NEW full \in BOOLEAN
  PROVE  LET v == Clear(w, o, full)
         IN  /\ Good(v)
             /\ \A c \in Conns : Same(v.conn[c], w.conn[c])
             /\ \A p \in Conns : v.obj[p].life = w.obj[p].life /\ v.obj[p].owner = w.obj[p].owner
             /\ v.obj[o].watchers = {}
             /\ v.autosend = w.autosend
<1> DEFINE u == [w EXCEPT !.obj[o].watchers = Cleared(w, o), !.obj[o].cast = @ /\ ~full]
           x == [w.obj[o] EXCEPT !.watchers = {}, !.cast = @ /\ ~full]
           v == Clear(w, o, full)
<1>1. w \in Worlds /\ w.obj[o] \in ObjSet
  BY DEF Good, Worlds
<1>2. /\ u.obj = [w.obj EXCEPT ![o] = x]
      /\ u.conn = w.conn /\ u.tasks = w.tasks /\ u.autosend = w.autosend
      /\ u.flushes = w.flushes
  BY <1>1 DEF Worlds, Cleared
<1>3. /\ x \in ObjSet
      /\ \A p \in Conns : u.obj[p] = IF p = o THEN x ELSE w.obj[p]
  BY <1>1, <1>2 DEF ObjSet, Worlds
<1>4. u \in Worlds
  <2>1. u.obj \in [Conns -> ObjSet]
    BY <1>1, <1>2, <1>3 DEF Worlds
  <2> QED  BY <1>1, <2>1 DEF Worlds
<1>5. /\ x.watchers = {} /\ x.connecting = w.obj[o].connecting
      /\ x.owner = w.obj[o].owner /\ x.name = w.obj[o].name /\ x.life = w.obj[o].life
  BY <1>1 DEF ObjSet
<1>6. v = Disconnect(u, w.obj[o].watchers) /\ w.obj[o].watchers \in SUBSET Conns
  BY <1>1 DEF Clear, ObjSet
<1> HIDE DEF u, x, v
<1>7. \A p \in Conns : /\ u.obj[p].watchers \subseteq w.obj[p].watchers
                       /\ u.obj[p].watchers = {} \/ (w.obj[p].cast => u.obj[p].cast)
                       /\ u.obj[p].connecting = w.obj[p].connecting
                       /\ u.obj[p].owner = w.obj[p].owner
                       /\ u.obj[p].life = w.obj[p].life
                       /\ u.obj[p].name = w.obj[p].name
  BY <1>3, <1>5
<1>8. Good(u)
  BY <1>2, <1>4, <1>7, FrameGood DEF Same
<1>9. /\ Good(v) /\ v.obj = u.obj /\ v.autosend = u.autosend
      /\ \A c \in Conns : Same(v.conn[c], u.conn[c])
  BY <1>6, <1>8, DisconnectGood
<1>10. u.obj[o].watchers = {}
  BY <1>3, <1>5
<1> QED  BY <1>2, <1>7, <1>9, <1>10 DEF v

\* removeCreature of a player who is in the game.
LEMMA RemoveCreatureGood ==
  ASSUME NEW w, Good(w), NEW o \in Conns, w.obj[o].life # "none"
  PROVE  Good(RemoveCreature(w, o))
<1> DEFINE u == Clear(w, o, TRUE)
           v == RemoveCreature(w, o)
           x == [u.obj[o] EXCEPT !.life = "removed"]
<1>1. Good(u) /\ u.obj[o].life # "none"
  BY ClearGood
<1>10. v = [u EXCEPT !.obj[o].life = "removed"]
  BY DEF RemoveCreature
<1> HIDE DEF u, v
<1>2. u \in Worlds /\ u.obj[o] \in ObjSet
  BY <1>1 DEF Good, Worlds
<1>3. /\ v.obj = [u.obj EXCEPT ![o] = x]
      /\ v.conn = u.conn /\ v.tasks = u.tasks /\ v.autosend = u.autosend
      /\ v.flushes = u.flushes
  BY <1>2, <1>10 DEF Worlds
<1>4. /\ x \in ObjSet
      /\ \A p \in Conns : v.obj[p] = IF p = o THEN x ELSE u.obj[p]
  BY <1>2, <1>3 DEF ObjSet, Worlds
<1>5. v \in Worlds
  BY <1>2, <1>3, <1>4, <1>10 DEF Worlds
<1>6. /\ x.watchers = u.obj[o].watchers /\ x.cast = u.obj[o].cast
      /\ x.connecting = u.obj[o].connecting /\ x.owner = u.obj[o].owner /\ x.life = "removed"
  BY <1>2 DEF ObjSet
<1> HIDE DEF x
<1>9. \A c \in Conns : /\ Same(v.conn[c], u.conn[c])
                       /\ u.conn[c].net = "closed" => v.conn[c].net = "closed"
  BY <1>3 DEF Same
<1>11. \A p \in Conns : /\ v.obj[p].watchers \subseteq u.obj[p].watchers
                        /\ v.obj[p].watchers = {} \/ (u.obj[p].cast => v.obj[p].cast)
                        /\ v.obj[p].connecting => u.obj[p].connecting
                        /\ v.obj[p].owner = u.obj[p].owner
                        /\ v.obj[p].life = "none" <=> u.obj[p].life = "none"
                        /\ v.obj[p].life = "game" =>
                             u.obj[p].life = "game" /\ v.obj[p].name = u.obj[p].name
  BY <1>1, <1>4, <1>6
<1>8. Good(v)
  BY <1>1, <1>3, <1>5, <1>9, <1>11, FrameGood
<1> QED  BY <1>8 DEF v

LEMMA LoggedOutGood ==
  ASSUME NEW w, Good(w), NEW c \in Conns, w.conn[c].player # NULL
  PROVE  Good(LoggedOut(w, c))
<1> DEFINE o == w.conn[c].player
           u == Clear(w, o, TRUE)
           v == Disconnect(u, {c})
<1>1. o \in Conns /\ w.obj[o].life # "none"
  BY DEF Good, Worlds, ConnSet, Played
<1> HIDE DEF o
<1>2. Good(u) /\ u.obj[o].life # "none"
  BY <1>1, ClearGood
<1> HIDE DEF u
<1>3. Good(v) /\ v.obj = u.obj
  BY <1>2, DisconnectGood
<1>4. v.obj[o].life # "none"
  BY <1>2, <1>3
<1> HIDE DEF v
<1>5. Good(RemoveCreature(v, o))
  BY <1>1, <1>3, <1>4, RemoveCreatureGood
<1>6. LoggedOut(w, c) \in {v, RemoveCreature(v, o)}
  BY DEF LoggedOut, o, u, v
<1> QED  BY <1>3, <1>5, <1>6

-----------------------------------------------------------------------------
(* The network thread                                                        *)

LEMMA EditedConn ==
  ASSUME NEW w \in Worlds, NEW c \in Conns, NEW y \in ConnSet
  PROVE  LET v == [w EXCEPT !.conn[c] = y]
         IN  /\ v \in Worlds /\ v.conn[c] = y
             /\ \A d \in Conns \ {c} : v.conn[d] = w.conn[d]
             /\ v.obj = w.obj /\ v.tasks = w.tasks /\ v.autosend = w.autosend
             /\ v.flushes = w.flushes
BY DEF Worlds

LEMMA Edited ==
  ASSUME NEW w \in Worlds, NEW c \in Conns, NEW y \in ConnSet, NEW o \in Conns, NEW x \in ObjSet
  PROVE  LET v == [w EXCEPT !.conn[c] = y, !.obj[o] = x]
         IN  /\ v \in Worlds /\ v.conn[c] = y /\ v.obj[o] = x
             /\ \A d \in Conns \ {c} : v.conn[d] = w.conn[d]
             /\ \A p \in Conns \ {o} : v.obj[p] = w.obj[p]
             /\ v.tasks = w.tasks /\ v.autosend = w.autosend /\ v.flushes = w.flushes
BY DEF Worlds

LEMMA WorldIs ==
  /\ World.conn = conn /\ World.obj = obj /\ World.tasks = tasks
  /\ World.autosend = autosend /\ World.flushes = flushes
BY DEF World

\* Only the Connection changes, and it is not opened again.
LEMMA NetGood ==
  ASSUME Good(World), NEW c \in Conns, NEW y \in ConnSet, Same(y, conn[c]),
         conn[c].net = "closed" => y.net = "closed"
  PROVE  Good([World EXCEPT !.conn[c] = y])
<1> DEFINE v == [World EXCEPT !.conn[c] = y]
<1>1. World \in Worlds
  BY DEF Good
<1>2. /\ v \in Worlds /\ v.conn[c] = y
      /\ \A d \in Conns \ {c} : v.conn[d] = World.conn[d]
      /\ v.obj = World.obj /\ v.tasks = World.tasks /\ v.autosend = World.autosend
      /\ v.flushes = World.flushes
  BY <1>1, EditedConn
<1> HIDE DEF v
<1>3. \A d \in Conns : /\ Same(v.conn[d], World.conn[d])
                       /\ World.conn[d].net = "closed" => v.conn[d].net = "closed"
  BY <1>2, WorldIs DEF Same
<1>4. Good(v)
  BY <1>2, <1>3, FrameGood
<1> QED  BY <1>4 DEF v

LEMMA AcceptGood ==
  ASSUME Good(World), NEW c \in Conns, Accept(c)
  PROVE  Good(World)'
<1> DEFINE y == [conn[c] EXCEPT !.net = "open"]
           v == [World EXCEPT !.conn[c] = y]
<1>1. conn[c] \in ConnSet /\ conn \in [Conns -> ConnSet]
  BY WorldIs DEF Good, Worlds
<1>2. y \in ConnSet /\ Same(y, conn[c]) /\ conn[c].net # "closed"
  BY <1>1 DEF ConnSet, Same, Accept
<1>3. Becomes(v)
  BY <1>1 DEF Accept, Becomes, World
<1>4. Good(v)
  BY <1>2, NetGood
<1> QED  BY <1>3, <1>4, NextWorld DEF Good

LEMMA ExpireGood ==
  ASSUME Good(World), NEW c \in Conns, Expire(c)
  PROVE  Good(World)'
<1> DEFINE y == [conn[c] EXCEPT !.linked = FALSE]
           v == [World EXCEPT !.conn[c] = y]
<1>1. conn[c] \in ConnSet /\ conn \in [Conns -> ConnSet]
  BY WorldIs DEF Good, Worlds
<1>2. y \in ConnSet /\ Same(y, conn[c]) /\ y.net = conn[c].net
  BY <1>1 DEF ConnSet, Same
<1>3. Becomes(v)
  BY <1>1 DEF Expire, Becomes, World
<1>4. Good(v)
  BY <1>2, NetGood
<1> QED  BY <1>3, <1>4, NextWorld DEF Good

LEMMA BreakOffGood ==
  ASSUME Good(World), NEW c \in Conns, BreakOff(c)
  PROVE  Good(World)'
<1>1. Good(Disconnect(World, {c}))
  BY DisconnectGood
<1> QED  BY <1>1, NextWorld DEF Good, BreakOff

LEMMA FirstMessageGood ==
  ASSUME Good(World), NEW c \in Conns, FirstMessage(c)
  PROVE  Good(World)'
<1> DEFINE y == [conn[c] EXCEPT !.asked = TRUE]
           w == [World EXCEPT !.conn[c] = y]
<1>1. /\ World \in Worlds /\ conn[c] \in ConnSet /\ tasks \in Seq(Tasks)
      /\ ~conn[c].asked /\ conn[c].net = "open"
  BY WorldIs DEF Good, Worlds, FirstMessage
<1>2. /\ y \in ConnSet /\ y.net = "open" /\ y.asked
      /\ y.player = conn[c].player /\ y.spectator = conn[c].spectator
      /\ y.attempt = conn[c].attempt /\ y.target = conn[c].target
      /\ y.released = conn[c].released /\ y.late = conn[c].late
  BY <1>1 DEF ConnSet
<1>3. Fresh(World, c) /\ Answered(World, c)
  BY <1>1, WorldIs DEF Good, Queue, Roles, RequestsAreFresh, Answered
<1>5. w = [World EXCEPT !.conn[c].asked = TRUE]
  BY DEF World
<1> HIDE DEF y
<1>4. /\ w \in Worlds /\ w.conn[c] = y
      /\ \A d \in Conns \ {c} : w.conn[d] = World.conn[d]
      /\ w.obj = World.obj /\ w.tasks = World.tasks /\ w.autosend = World.autosend
      /\ w.flushes = World.flushes
  <2>1. World \in Worlds /\ y \in ConnSet
    BY <1>1, <1>2
  <2> QED  BY <2>1, EditedConn
<1> HIDE DEF w
<1>6. Watched(w)
  <2> SUFFICES ASSUME NEW o \in Conns, NEW d \in w.obj[o].watchers
               PROVE  /\ w.conn[d].player = o /\ w.conn[d].spectator /\ ~w.conn[d].released
                      /\ w.obj[o].cast
    BY DEF Watched
  <2>1. /\ d \in Conns /\ conn[d].player = o /\ conn[d].spectator /\ ~conn[d].released
        /\ obj[o].cast
    BY <1>1, <1>4, WorldIs DEF Good, Watched, Worlds, ObjSet
  <2> QED  BY <1>2, <1>4, <2>1, WorldIs
<1>7. Due(w) /\ Once(w)
  BY <1>2, <1>4, WorldIs DEF Good, Due, Once
<1>8. Played(w)
  <2>1. \A d \in Conns : /\ w.conn[d].player = conn[d].player
                         /\ w.conn[d].spectator = conn[d].spectator
                         /\ w.conn[d].released = conn[d].released
                         /\ w.conn[d].late = conn[d].late
    BY <1>2, <1>4, WorldIs
  <2>2. \A o \in Conns : obj[o].owner \in Conns \cup {NULL}
    BY <1>1, WorldIs DEF Worlds, ObjSet
  <2> QED  BY <1>4, <2>1, <2>2, WorldIs DEF Good, Played
<1>13. /\ \A i \in DOMAIN World.tasks : World.tasks[i].op = "turn" /\ World.tasks[i].of = c =>
             w.conn[c].player # NULL /\ w.conn[c].spectator
       /\ w.conn[c].attempt # "none" => ~w.conn[c].spectator /\ w.conn[c].target \in Conns
       /\ w.conn[c].attempt = "due" => w.conn[c].player = NULL
  BY <1>2, <1>4, WorldIs DEF Good, Queue, Roles
<1>14. World.conn[c].net # "closed" /\ (w.conn[c].released => World.conn[c].released)
  BY <1>1, <1>2, <1>4, WorldIs
<1>9. Good(w)
  BY <1>2, <1>3, <1>4, <1>6, <1>7, <1>8, <1>13, <1>14, EditGood
<1>10. Fresh(w, c) /\ Answered(w, c)
  BY <1>2, <1>3, <1>4, WorldIs DEF Fresh, Answered
<1>11. CASE Becomes(Disconnect(w, {c}))
  <2>1. Good(Disconnect(w, {c}))
    BY <1>9, DisconnectGood
  <2> QED  BY <1>11, <2>1, NextWorld DEF Good
<1>12. ASSUME NEW r \in Requests, r.of = c, Becomes([w EXCEPT !.tasks = Append(@, r)])
       PROVE  Good(World)'
  <2>1. r \in Tasks /\ r.op \in {"login", "spectate"}
    BY DEF Requests, Tasks
  <2>2. Good([w EXCEPT !.tasks = Append(@, r)])
    BY <1>2, <1>4, <1>9, <1>10, <1>12, <2>1, AppendGood
  <2> QED  BY <1>12, <2>2, NextWorld DEF Good
<1> QED  BY <1>5, <1>11, <1>12 DEF FirstMessage

LEMMA PacketGood ==
  ASSUME Good(World), NEW c \in Conns, Packet(c)
  PROVE  Good(World)'
<1>1. PICK op \in IF conn[c].spectator THEN {"leave", "turn"} ELSE {"logout"} :
        tasks' = Append(tasks, [op |-> op, of |-> c])
  BY DEF Packet
<1> DEFINE t == [op |-> op, of |-> c]
           v == [World EXCEPT !.tasks = Append(@, t)]
<1>2. t \in Tasks /\ t.of = c /\ t.op = op /\ op \in {"leave", "turn", "logout"}
  BY <1>1 DEF Tasks
<1>3. op = "turn" => conn[c].player # NULL /\ conn[c].spectator
  BY <1>1 DEF Packet
<1>4. Good(v)
  BY <1>2, <1>3, WorldIs, AppendGood DEF Packet, IsRequest
<1>5. Becomes(v)
  BY <1>1 DEF Becomes, World, Packet
<1> QED  BY <1>4, <1>5, NextWorld DEF Good

-----------------------------------------------------------------------------
(* The tasks of the dispatcher                                               *)

\* login creates the player of c and, when the character is not in the game,
\* may place him.
LEMMA BornGood ==
  ASSUME Good(World), NEW c \in Conns, AtHead("login", c), NEW y \in ConnSet, NEW x \in ObjSet,
         y.net = conn[c].net, y.asked, y.player = c, y.spectator = conn[c].spectator,
         y.target = conn[c].target, y.attempt = conn[c].attempt,
         y.released = conn[c].released, y.late = conn[c].late,
         x.owner = c, x.watchers = obj[c].watchers, x.cast = obj[c].cast,
         x.connecting = obj[c].connecting, x.life # "none",
         x.life = "game" => InGame(World, x.name) = {}
  PROVE  LET v == [Rest EXCEPT !.conn[c] = y, !.obj[c] = x]
         IN  Good(v) /\ v.conn[c] = y /\ ~v.conn[c].released
<1> DEFINE v == [Rest EXCEPT !.conn[c] = y, !.obj[c] = x]
<1>1. /\ Good(Rest) /\ Rest.conn = conn /\ Rest.obj = obj
      /\ Rest.autosend = autosend /\ ~conn[c].released
      /\ conn[c].asked /\ Fresh(World, c) /\ Answered(Rest, c)
  BY RestGood
<1>2. Rest \in Worlds
  BY <1>1 DEF Good
<1>3. /\ v \in Worlds /\ v.conn[c] = y /\ v.obj[c] = x
      /\ \A d \in Conns \ {c} : v.conn[d] = Rest.conn[d]
      /\ \A p \in Conns \ {c} : v.obj[p] = Rest.obj[p]
      /\ v.tasks = Rest.tasks /\ v.autosend = Rest.autosend /\ v.flushes = Rest.flushes
  BY <1>2 DEF Worlds
<1> HIDE DEF v
<1>4. /\ conn[c].attempt = "none" /\ conn[c].player = NULL /\ ~conn[c].spectator
      /\ obj[c].life = "none"
  BY <1>1, WorldIs DEF Fresh
<1>5. Watched(v)
  <2> SUFFICES ASSUME NEW o \in Conns, NEW d \in v.obj[o].watchers
               PROVE  /\ v.conn[d].player = o /\ v.conn[d].spectator /\ ~v.conn[d].released
                      /\ v.obj[o].cast
    BY DEF Watched
  <2>1. d \in Rest.obj[o].watchers /\ d \in Conns
    BY <1>1, <1>3 DEF Worlds, ObjSet
  <2>2. conn[d].player = o /\ conn[d].spectator /\ ~conn[d].released /\ obj[o].cast
    BY <1>1, <2>1 DEF Good, Watched
  <2>3. d # c
    BY <1>4, <2>2
  <2> QED  BY <1>1, <1>3, <2>1, <2>2, <2>3
<1>6. Due(v)
  <2>1. \A d \in Conns : v.conn[d].target = conn[d].target /\ v.conn[d].attempt = conn[d].attempt
    BY <1>1, <1>3
  <2>2. \A o \in Conns : v.obj[o].connecting = obj[o].connecting
    BY <1>1, <1>3
  <2> QED  BY <1>1, <2>1, <2>2 DEF Good, Due
<1>7. Played(v)
  <2>1. ASSUME NEW d \in Conns, v.conn[d].player # NULL
        PROVE  /\ v.obj[v.conn[d].player].life # "none"
               /\ ~v.conn[d].spectator =>
                    /\ v.obj[v.conn[d].player].owner = d
                    /\ v.conn[d].released => v.conn[d].late
    <3>1. CASE d = c
      BY <1>1, <1>3, <3>1
    <3>2. CASE d # c
      <4>1. v.conn[d] = conn[d] /\ conn[d].player \in Conns
        BY <1>1, <1>2, <1>3, <2>1, <3>2 DEF Worlds, ConnSet
      <4>2. /\ obj[conn[d].player].life # "none"
            /\ ~conn[d].spectator =>
                 /\ obj[conn[d].player].owner = d
                 /\ conn[d].released => conn[d].late
        BY <1>1, <2>1, <4>1, SMTT(30) DEF Good, Played
      <4>3. conn[d].player # c
        BY <1>4, <4>2
      <4> QED  BY <1>1, <1>3, <4>1, <4>2, <4>3
    <3> QED  BY <3>1, <3>2
  <2>2. ASSUME NEW o \in Conns, v.obj[o].owner # NULL
        PROVE  v.conn[v.obj[o].owner].player = o /\ ~v.conn[v.obj[o].owner].spectator
    <3>1. CASE o = c
      BY <1>3, <1>4, <3>1
    <3>2. CASE o # c
      <4>1. v.obj[o].owner = obj[o].owner /\ obj[o].owner \in Conns
        BY <1>1, <1>2, <1>3, <2>2, <3>2 DEF Worlds, ObjSet
      <4>2. conn[obj[o].owner].player = o /\ ~conn[obj[o].owner].spectator
        BY <1>1, <2>2, <4>1 DEF Good, Played
      <4>3. obj[o].owner # c
        BY <1>4, <4>2, SessionAssumption
      <4> QED  BY <1>1, <1>3, <4>1, <4>2, <4>3
    <3> QED  BY <3>1, <3>2
  <2> QED  BY <2>1, <2>2 DEF Played
<1>8. Once(v)
  <2>1. \A o \in Conns \ {c} : v.obj[o] = obj[o]
    BY <1>1, <1>3
  <2>2. x.life = "game" => \A o \in Conns : ~(obj[o].life = "game" /\ obj[o].name = x.name)
    BY WorldIs DEF InGame
  <2> QED  BY <1>1, <1>3, <2>1, <2>2 DEF Good, Once
<1>9. \A i \in DOMAIN Rest.tasks : Rest.tasks[i].op = "turn" =>
        Rest.tasks[i].of # c
  BY <1>1, <1>4 DEF Good, Queue, Roles
<1>10. /\ v.conn[c].attempt = "none" /\ v.conn[c].asked
       /\ Rest.conn[c].net = "closed" => v.conn[c].net = "closed"
       /\ ~v.conn[c].released
       /\ v.autosend \subseteq Rest.autosend
       /\ \A d \in Conns \ {c} : v.conn[d] = Rest.conn[d]
                              /\ (Rest.obj[d].life = "none" => v.obj[d].life = "none")
  BY <1>1, <1>3, <1>4
<1>11. Good(v)
  BY <1>1, <1>3, <1>5, <1>6, <1>7, <1>8, <1>9, <1>10, EditGood
<1> QED  BY <1>3, <1>10, <1>11 DEF v

\* The provers do not see through the literals of an EXCEPT: they are named.
LEMMA LoadedIs ==
  ASSUME NEW a \in ObjSet, NEW n \in Names, NEW c \in Conns
  PROVE  [a EXCEPT !.name = n, !.life = "loaded", !.refs = 1, !.owner = c] \in ObjSet
<1> DEFINE life == "loaded"
           refs == 1
<1>1. life \in {"none", "loaded", "game", "removed", "deleted"} /\ refs \in Int
  OBVIOUS
<1> HIDE DEF life, refs
<1>2. [a EXCEPT !.name = n, !.life = life, !.refs = refs, !.owner = c] \in ObjSet
  BY <1>1 DEF ObjSet
<1> QED  BY <1>2 DEF life, refs

LEMMA PlacedIs ==
  ASSUME NEW a \in ObjSet
  PROVE  [a EXCEPT !.life = "game", !.refs = 2, !.held = TRUE] \in ObjSet
<1> DEFINE life == "game"
           refs == 2
           held == TRUE
<1>1. /\ life \in {"none", "loaded", "game", "removed", "deleted"} /\ refs \in Int
      /\ held \in BOOLEAN
  OBVIOUS
<1> HIDE DEF life, refs, held
<1>2. [a EXCEPT !.life = life, !.refs = refs, !.held = held] \in ObjSet
  BY <1>1 DEF ObjSet
<1> QED  BY <1>2 DEF life, refs, held

LEMMA LoginNewGood ==
  ASSUME Good(World), NEW c \in Conns, LoginNew(c)
  PROVE  Good(World)'
<1> DEFINE y == [conn[c] EXCEPT !.player = c]
           z == [y EXCEPT !.accepts = TRUE]
           x == [obj[c] EXCEPT !.name = Head(tasks).name, !.life = "loaded",
                               !.refs = 1, !.owner = c]
           q == [x EXCEPT !.life = "game", !.refs = 2, !.held = TRUE]
           w == [Rest EXCEPT !.conn[c] = y, !.obj[c] = x]
           v == [w EXCEPT !.obj[c] = [@ EXCEPT !.life = "game", !.refs = 2, !.held = TRUE]]
           p == [Rest EXCEPT !.conn[c] = z, !.obj[c] = q]
           placed == AddToAutosend([v EXCEPT !.conn[c].accepts = TRUE], c)
<1>1. AtHead("login", c) /\ InGame(World, Head(tasks).name) = {}
  BY DEF LoginNew, FoundPlayers
<1>2. /\ Rest \in Worlds /\ conn[c] \in ConnSet /\ obj[c] \in ObjSet /\ conn[c].asked
      /\ Rest.conn = conn /\ Rest.obj = obj /\ Head(tasks) \in Requests
  BY <1>1, RestGood DEF Good, Worlds
<1>3. Head(tasks).name \in Names
  BY <1>2 DEF Requests
<1>4. /\ y \in ConnSet /\ y.net = conn[c].net /\ y.asked /\ y.player = c
      /\ y.spectator = conn[c].spectator /\ y.target = conn[c].target
      /\ y.attempt = conn[c].attempt /\ y.released = conn[c].released /\ y.late = conn[c].late
  BY <1>2 DEF ConnSet
<1>5. /\ z \in ConnSet /\ z.net = conn[c].net /\ z.asked /\ z.player = c
      /\ z.spectator = conn[c].spectator /\ z.target = conn[c].target
      /\ z.attempt = conn[c].attempt /\ z.released = conn[c].released /\ z.late = conn[c].late
  BY <1>2 DEF ConnSet
<1> DEFINE n == Head(tasks).name
<1> HIDE DEF n
<1>6. /\ x \in ObjSet /\ x.owner = c /\ x.watchers = obj[c].watchers /\ x.cast = obj[c].cast
      /\ x.connecting = obj[c].connecting /\ x.life = "loaded" /\ x.name = n
  <2>1. x = [obj[c] EXCEPT !.name = n, !.life = "loaded", !.refs = 1, !.owner = c]
    BY DEF n
  <2>2. n \in Names
    BY <1>3 DEF n
  <2> HIDE DEF x
  <2>3. x \in ObjSet
    BY <1>2, <2>1, <2>2, LoadedIs
  <2> QED  BY <1>2, <2>1, <2>3 DEF ObjSet
<1>16. w = [Rest EXCEPT !.conn[c].player = c,
                        !.obj[c] = [@ EXCEPT !.name = Head(tasks).name, !.life = "loaded",
                                             !.refs = 1, !.owner = c]]
  BY <1>2 DEF Worlds
<1> HIDE DEF x
<1>7. /\ q \in ObjSet /\ q.owner = c /\ q.watchers = obj[c].watchers /\ q.cast = obj[c].cast
      /\ q.connecting = obj[c].connecting /\ q.life = "game" /\ q.name = n
  <2>1. q \in ObjSet
    BY <1>6, PlacedIs
  <2> QED  BY <1>6, <2>1 DEF ObjSet
<1>17. p = [v EXCEPT !.conn[c].accepts = TRUE]
  BY <1>2, ZenonT(60) DEF Worlds
<1> HIDE DEF y, z, q
<1>9. Good(w)
  BY <1>1, <1>4, <1>6, BornGood
<1>10. Good(p) /\ p.conn[c] = z /\ ~p.conn[c].released
  BY <1>1, <1>5, <1>7, BornGood DEF n
<1> HIDE DEF w, p
<1>11. Good(AddToAutosend(p, c)) /\ AddToAutosend(p, c).conn = p.conn
  BY <1>10, AddToAutosendGood
<1>12. AddToAutosend(p, c) = placed
  BY <1>17
<1>13. \/ Becomes(Disconnect(w, {c}))
       \/ Becomes(placed)
       \/ Becomes(LoggedOut(placed, c))
  BY <1>16 DEF LoginNew
<1> HIDE DEF placed
<1>14. Good(Disconnect(w, {c}))
  BY <1>9, DisconnectGood
<1>15. Good(LoggedOut(placed, c))
  <2>1. placed.conn[c].player # NULL
    BY <1>5, <1>10, <1>11, <1>12, SessionAssumption
  <2> QED  BY <1>11, <1>12, <2>1, LoggedOutGood
<1> QED  BY <1>11, <1>12, <1>13, <1>14, <1>15, NextWorld DEF Good

LEMMA LoginAgainGood ==
  ASSUME Good(World), NEW c \in Conns, LoginAgain(c)
  PROVE  Good(World)'
<1>1. AtHead("login", c)
  BY DEF LoginAgain
<1>2. PICK o \in FoundPlayers(World, Head(tasks).name) :
        LET u == Disconnect(Rest, {obj[o].owner} \ {NULL})
        IN  Becomes(AddToAutosend([u EXCEPT !.obj[o].connecting = TRUE,
                                            !.conn[c].target = o,
                                            !.conn[c].attempt = "due"], c))
  BY DEF LoginAgain
<1>3. o \in Conns
  BY DEF FoundPlayers, InGame
<1> DEFINE C == {obj[o].owner} \ {NULL}
           w == Disconnect(Rest, C)
           y == [w.conn[c] EXCEPT !.target = o, !.attempt = "due"]
           x == [w.obj[o] EXCEPT !.connecting = TRUE]
           v == [w EXCEPT !.conn[c] = y, !.obj[o] = x]
<1>4. /\ Good(Rest) /\ Rest.conn = conn /\ Rest.obj = obj
      /\ ~conn[c].released
      /\ conn[c].asked /\ Fresh(World, c) /\ Answered(Rest, c)
  BY <1>1, RestGood
<1>5. C \in SUBSET Conns
  BY <1>3, <1>4 DEF Good, Worlds, ObjSet
<1>6. /\ Good(w) /\ w.obj = obj /\ Answered(w, c)
      /\ \A d \in Conns : Same(w.conn[d], conn[d])
  BY <1>4, <1>5, DisconnectGood
<1>7. Becomes(AddToAutosend([w EXCEPT !.obj[o].connecting = TRUE, !.conn[c].target = o,
                                      !.conn[c].attempt = "due"], c))
  BY <1>2
<1> HIDE DEF w
<1>8. w \in Worlds /\ w.conn[c] \in ConnSet /\ w.obj[o] \in ObjSet
  BY <1>3, <1>6 DEF Good, Worlds
<1>9. v = [w EXCEPT !.obj[o].connecting = TRUE, !.conn[c].target = o, !.conn[c].attempt = "due"]
  BY <1>8 DEF Worlds
<1>10. /\ w.conn[c].attempt = "none" /\ w.conn[c].player = NULL /\ ~w.conn[c].spectator
       /\ w.conn[c].asked /\ ~w.conn[c].released
  BY <1>4, <1>6, WorldIs DEF Fresh, Same
<1>11. /\ y \in ConnSet /\ y.net = w.conn[c].net /\ y.asked /\ y.player = w.conn[c].player
       /\ y.spectator = w.conn[c].spectator /\ y.released = w.conn[c].released
       /\ y.target = o /\ y.attempt = "due"
  BY <1>3, <1>8, <1>10 DEF ConnSet
<1>12. /\ x \in ObjSet /\ x.owner = w.obj[o].owner /\ x.watchers = w.obj[o].watchers
       /\ x.cast = w.obj[o].cast /\ x.life = w.obj[o].life /\ x.name = w.obj[o].name
  BY <1>8 DEF ObjSet
<1> HIDE DEF x, y
<1>13. /\ v \in Worlds /\ v.conn[c] = y /\ v.obj[o] = x
       /\ \A d \in Conns \ {c} : v.conn[d] = w.conn[d]
       /\ \A p \in Conns \ {o} : v.obj[p] = w.obj[p]
       /\ v.tasks = w.tasks /\ v.autosend = w.autosend /\ v.flushes = w.flushes
  BY <1>3, <1>8, <1>11, <1>12 DEF Worlds
<1> HIDE DEF v
<1>14. /\ \A p \in Conns : /\ v.obj[p].owner = w.obj[p].owner
                           /\ v.obj[p].watchers = w.obj[p].watchers
                           /\ v.obj[p].cast = w.obj[p].cast
                           /\ v.obj[p].life = w.obj[p].life
                           /\ v.obj[p].name = w.obj[p].name
       /\ \A d \in Conns : /\ v.conn[d].player = w.conn[d].player
                           /\ v.conn[d].spectator = w.conn[d].spectator
                           /\ v.conn[d].released = w.conn[d].released
  BY <1>10, <1>11, <1>12, <1>13
<1>15. Watched(v)
  <2> SUFFICES ASSUME NEW p \in Conns, NEW d \in v.obj[p].watchers
               PROVE  /\ v.conn[d].player = p /\ v.conn[d].spectator /\ ~v.conn[d].released
                      /\ v.obj[p].cast
    BY DEF Watched
  <2>1. d \in w.obj[p].watchers /\ d \in Conns
    BY <1>13, <1>14 DEF Worlds, ObjSet
  <2> QED  BY <1>6, <1>14, <2>1 DEF Good, Watched
<1>16. Due(v)
  <2> SUFFICES ASSUME NEW p \in Conns, v.obj[p].connecting
               PROVE  \E d \in Conns : v.conn[d].target = p /\ v.conn[d].attempt \in {"due", "gave_up"}
    BY DEF Due
  <2>1. CASE p = o
    BY <1>11, <1>13, <2>1
  <2>2. CASE p # o
    <3>1. PICK d \in Conns : w.conn[d].target = p /\ w.conn[d].attempt \in {"due", "gave_up"}
      BY <1>6, <1>13, <2>2 DEF Good, Due
    <3> QED  BY <1>10, <1>13, <3>1
  <2> QED  BY <2>1, <2>2
<1>17. Played(v)
  <2>1. \A d \in Conns : w.conn[d].player \in Conns \cup {NULL}
    BY <1>8 DEF Worlds, ConnSet
  <2>2. \A p \in Conns : w.obj[p].owner \in Conns \cup {NULL}
    BY <1>8 DEF Worlds, ObjSet
  <2>3. \A d \in Conns : v.conn[d].released => v.conn[d] = w.conn[d]
    BY <1>10, <1>13, <1>14
  <2>4. ASSUME NEW d \in Conns, v.conn[d].player # NULL
        PROVE  /\ v.obj[v.conn[d].player].life # "none"
               /\ ~v.conn[d].spectator =>
                    /\ v.obj[v.conn[d].player].owner = d
                    /\ v.conn[d].released => v.conn[d].late
    <3>1. v.conn[d].player = w.conn[d].player /\ w.conn[d].player \in Conns
      BY <1>14, <2>1, <2>4
    <3>2. /\ w.obj[w.conn[d].player].life # "none"
          /\ ~w.conn[d].spectator =>
               /\ w.obj[w.conn[d].player].owner = d
               /\ w.conn[d].released => w.conn[d].late
      BY <1>6, <2>4, <3>1 DEF Good, Played
    <3> QED  BY <1>14, <2>3, <3>1, <3>2
  <2>5. ASSUME NEW p \in Conns, v.obj[p].owner # NULL
        PROVE  v.conn[v.obj[p].owner].player = p /\ ~v.conn[v.obj[p].owner].spectator
    <3>1. /\ v.obj[p].owner = w.obj[p].owner /\ w.obj[p].owner \in Conns
          /\ w.obj[p].owner # NULL
      BY <1>14, <2>2, <2>5
    <3>2. w.conn[w.obj[p].owner].player = p /\ ~w.conn[w.obj[p].owner].spectator
      BY <1>6, <3>1 DEF Good, Played
    <3> QED  BY <1>14, <3>1, <3>2
  <2> QED  BY <2>4, <2>5 DEF Played
<1>18. Once(v)
  BY <1>6, <1>14 DEF Good, Once
<1>19. \A i \in DOMAIN w.tasks : w.tasks[i].op = "turn" => w.tasks[i].of # c
  BY <1>6, <1>10 DEF Good, Queue, Roles
<1>20. Good(v)
  BY <1>3, <1>6, <1>10, <1>11, <1>13, <1>14, <1>15, <1>16, <1>17, <1>18, <1>19, EditGood
<1>21. Good(AddToAutosend(v, c))
  BY <1>10, <1>14, <1>20, AddToAutosendGood
<1> QED  BY <1>7, <1>9, <1>21, NextWorld DEF Good

LEMMA ConnectGood ==
  ASSUME Good(World), NEW c \in Conns, Connect(c)
  PROVE  Good(World)'
<1> DEFINE o == conn[c].target
           y == [conn[c] EXCEPT !.attempt = "gave_up"]
           w == [World EXCEPT !.conn[c] = y]
           z == [conn[c] EXCEPT !.attempt = "done", !.player = o, !.accepts = TRUE,
                                !.late = conn[c].released]
           x == [obj[o] EXCEPT !.owner = c, !.connecting = FALSE]
           v == [World EXCEPT !.conn[c] = z, !.obj[o] = x]
<1>1. /\ conn[c].attempt = "due"
      /\ Becomes(IF ~MayConnect([World EXCEPT !.conn[c].attempt = "gave_up"], o)
                 THEN Disconnect([World EXCEPT !.conn[c].attempt = "gave_up"], {c})
                 ELSE IF conn[c].linked
                      THEN AddRef([World EXCEPT
                                     !.conn[c] = [@ EXCEPT !.attempt = "done", !.player = o,
                                                           !.accepts = TRUE,
                                                           !.late = conn[c].released],
                                     !.obj[o] = Connected(World, c, o)], o)
                      ELSE [World EXCEPT !.conn[c].attempt = "gave_up"])
  BY DEF Connect
<1>2. /\ World \in Worlds /\ conn[c] \in ConnSet /\ o \in Conns /\ obj[o] \in ObjSet
      /\ conn[c].player = NULL /\ ~conn[c].spectator
  BY <1>1, WorldIs DEF Good, Worlds, Queue, Roles
<1>3. w = [World EXCEPT !.conn[c].attempt = "gave_up"]
  BY DEF World
<1>4. v = [World EXCEPT !.conn[c] = [@ EXCEPT !.attempt = "done", !.player = o,
                                             !.accepts = TRUE, !.late = conn[c].released],
                        !.obj[o] = Connected(World, c, o)]
  BY DEF World, Connected
<1>5. /\ w.obj = obj
      /\ MayConnect(w, o) => obj[o].life = "game" /\ obj[o].owner = NULL
  BY DEF World, MayConnect
<1>6. Answered(World, c) /\ conn[c].asked
  BY <1>1, WorldIs DEF Good, Queue, RequestsAreFresh, Fresh, Answered, Roles
<1>7. \A i \in DOMAIN World.tasks : World.tasks[i].op = "turn" => World.tasks[i].of # c
  BY <1>2, WorldIs DEF Good, Queue, Roles
<1>8. /\ y \in ConnSet /\ y.net = conn[c].net /\ y.asked = conn[c].asked
      /\ y.player = conn[c].player /\ y.spectator = conn[c].spectator
      /\ y.target = o /\ y.attempt = "gave_up"
      /\ y.released = conn[c].released /\ y.late = conn[c].late
  BY <1>2 DEF ConnSet
<1>9. /\ z \in ConnSet /\ z.net = conn[c].net /\ z.asked = conn[c].asked
      /\ z.player = o /\ ~z.spectator /\ z.target = o /\ z.attempt = "done"
      /\ z.released = conn[c].released /\ z.late = conn[c].released
  <2> DEFINE attempt == "done"
             accepts == TRUE
             late == conn[c].released
  <2>1. /\ attempt \in {"none", "due", "done", "gave_up"} /\ accepts \in BOOLEAN
        /\ late \in BOOLEAN
    BY <1>2 DEF ConnSet
  <2> HIDE DEF attempt, accepts, late
  <2>2. [conn[c] EXCEPT !.attempt = attempt, !.player = o, !.accepts = accepts, !.late = late]
          \in ConnSet
    BY <1>2, <2>1 DEF ConnSet
  <2>3. z \in ConnSet
    BY <2>2 DEF attempt, accepts, late
  <2> QED  BY <1>2, <2>3 DEF ConnSet
<1>10. /\ x \in ObjSet /\ x.owner = c /\ x.watchers = obj[o].watchers
       /\ x.cast = obj[o].cast /\ x.life = obj[o].life /\ x.name = obj[o].name
       /\ ~x.connecting
  BY <1>2 DEF ObjSet
<1> HIDE DEF o, y, z, x
<1>11. /\ w \in Worlds /\ w.conn[c] = y
       /\ \A d \in Conns \ {c} : w.conn[d] = conn[d]
       /\ w.tasks = World.tasks /\ w.autosend = World.autosend /\ w.flushes = World.flushes
  BY <1>2, <1>8, WorldIs DEF Worlds
<1>12. /\ v \in Worlds /\ v.conn[c] = z /\ v.obj[o] = x
       /\ \A d \in Conns \ {c} : v.conn[d] = conn[d]
       /\ \A p \in Conns \ {o} : v.obj[p] = obj[p]
       /\ v.tasks = World.tasks /\ v.autosend = World.autosend /\ v.flushes = World.flushes
  BY <1>2, <1>9, <1>10, WorldIs DEF Worlds
<1> HIDE DEF w, v
<1>13. Good(w)
  <2>1. \A d \in Conns : /\ w.conn[d].player = conn[d].player
                         /\ w.conn[d].spectator = conn[d].spectator
                         /\ w.conn[d].target = conn[d].target
                         /\ w.conn[d].released = conn[d].released
                         /\ w.conn[d].late = conn[d].late
                         /\ w.conn[d].attempt = IF d = c THEN "gave_up" ELSE conn[d].attempt
    BY <1>2, <1>8, <1>11 DEF o
  <2>2. Watched(w)
    <3> SUFFICES ASSUME NEW p \in Conns, NEW d \in obj[p].watchers
                 PROVE  /\ w.conn[d].player = p /\ w.conn[d].spectator /\ ~w.conn[d].released
                        /\ w.obj[p].cast
      BY <1>5 DEF Watched
    <3>1. d \in Conns
      BY <1>2, WorldIs DEF Worlds, ObjSet
    <3> QED  BY <1>5, <2>1, <3>1, WorldIs DEF Good, Watched
  <2>3. Due(w)
    BY <1>5, <2>1, WorldIs DEF Good, Due
  <2>4. Played(w)
    <3>1. \A p \in Conns : obj[p].owner \in Conns \cup {NULL}
      BY <1>2, WorldIs DEF Worlds, ObjSet
    <3> QED  BY <1>5, <2>1, <3>1, WorldIs DEF Good, Played
  <2>5. Once(w)
    BY <1>5, WorldIs DEF Good, Once
  <2>6. /\ World.conn[c].net = "closed" => w.conn[c].net = "closed"
        /\ w.conn[c].released => World.conn[c].released
        /\ w.conn[c].asked /\ w.conn[c].attempt = "gave_up"
        /\ ~w.conn[c].spectator /\ w.conn[c].target \in Conns
    BY <1>2, <1>6, <1>8, <1>11, WorldIs
  <2>7. \A d \in Conns \ {c} : /\ w.conn[d] = World.conn[d]
                               /\ World.obj[d].life = "none" => w.obj[d].life = "none"
    BY <1>5, <1>11, WorldIs
  <2> QED  BY <1>6, <1>7, <1>11, <2>2, <2>3, <2>4, <2>5, <2>6, <2>7, EditGood
<1>14. ASSUME obj[o].life = "game", obj[o].owner = NULL
       PROVE  Good(v)
  <2>1. Watched(v)
    <3> SUFFICES ASSUME NEW p \in Conns, NEW d \in v.obj[p].watchers
                 PROVE  /\ v.conn[d].player = p /\ v.conn[d].spectator /\ ~v.conn[d].released
                        /\ v.obj[p].cast
      BY DEF Watched
    <3>1. d \in obj[p].watchers /\ v.obj[p].cast = obj[p].cast /\ d \in Conns
      BY <1>2, <1>10, <1>12, WorldIs, ZenonT(60) DEF Worlds, ObjSet
    <3>2. conn[d].player = p /\ conn[d].spectator /\ ~conn[d].released /\ obj[p].cast
      BY <3>1, WorldIs DEF Good, Watched
    <3> QED  BY <1>2, <1>12, <3>1, <3>2
  <2>2. Due(v)
    <3> SUFFICES ASSUME NEW p \in Conns, v.obj[p].connecting
                 PROVE  \E d \in Conns : v.conn[d].target = p /\ v.conn[d].attempt \in {"due", "gave_up"}
      BY DEF Due
    <3>1. p # o /\ obj[p].connecting
      BY <1>10, <1>12
    <3>2. PICK d \in Conns : conn[d].target = p /\ conn[d].attempt \in {"due", "gave_up"}
      BY <3>1, WorldIs DEF Good, Due
    <3>3. d # c
      BY <3>1, <3>2 DEF o
    <3> QED  BY <1>12, <3>2, <3>3
  <2>3. Played(v)
    <3>1. ASSUME NEW d \in Conns, v.conn[d].player # NULL
          PROVE  /\ v.obj[v.conn[d].player].life # "none"
                 /\ ~v.conn[d].spectator =>
                      /\ v.obj[v.conn[d].player].owner = d
                      /\ v.conn[d].released => v.conn[d].late
      <4>1. CASE d = c
        BY <1>9, <1>10, <1>12, <1>14, <4>1
      <4>2. CASE d # c
        <5>1. v.conn[d] = conn[d] /\ conn[d].player \in Conns
          BY <1>2, <1>12, <3>1, <4>2, WorldIs DEF Worlds, ConnSet
        <5>2. /\ obj[conn[d].player].life # "none"
              /\ ~conn[d].spectator =>
                   /\ obj[conn[d].player].owner = d
                   /\ conn[d].released => conn[d].late
          BY <3>1, <5>1, WorldIs DEF Good, Played
        <5>3. CASE conn[d].player = o
          <6>1. conn[d].spectator
            BY <1>14, <5>2, <5>3, SessionAssumption
          <6> QED  BY <1>10, <1>12, <5>1, <5>2, <5>3, <6>1
        <5>4. CASE conn[d].player # o
          BY <1>12, <5>1, <5>2, <5>4
        <5> QED  BY <5>3, <5>4
      <4> QED  BY <4>1, <4>2
    <3>2. ASSUME NEW p \in Conns, v.obj[p].owner # NULL
          PROVE  v.conn[v.obj[p].owner].player = p /\ ~v.conn[v.obj[p].owner].spectator
      <4>1. CASE p = o
        BY <1>9, <1>10, <1>12, <4>1
      <4>2. CASE p # o
        <5>1. v.obj[p].owner = obj[p].owner /\ obj[p].owner \in Conns
          BY <1>2, <1>12, <3>2, <4>2, WorldIs DEF Worlds, ObjSet
        <5>2. conn[obj[p].owner].player = p /\ ~conn[obj[p].owner].spectator
          BY <3>2, <5>1, WorldIs DEF Good, Played
        <5>3. obj[p].owner # c
          BY <1>2, <5>2, SessionAssumption
        <5> QED  BY <1>12, <5>1, <5>2, <5>3
      <4> QED  BY <4>1, <4>2
    <3> QED  BY <3>1, <3>2 DEF Played
  <2>4. \A p \in Conns : v.obj[p].life = obj[p].life /\ v.obj[p].name = obj[p].name
    BY <1>10, <1>12
  <2>5. Once(v)
    BY <2>4, WorldIs DEF Good, Once
  <2>6. /\ World.conn[c].net = "closed" => v.conn[c].net = "closed"
        /\ v.conn[c].released => World.conn[c].released
        /\ v.conn[c].asked /\ v.conn[c].attempt = "done"
        /\ ~v.conn[c].spectator /\ v.conn[c].target \in Conns
    BY <1>2, <1>6, <1>9, <1>12, WorldIs
  <2>7. \A d \in Conns \ {c} : /\ v.conn[d] = World.conn[d]
                               /\ World.obj[d].life = "none" => v.obj[d].life = "none"
    BY <1>12, <2>4, WorldIs
  <2> QED  BY <1>6, <1>7, <1>12, <2>1, <2>2, <2>3, <2>5, <2>6, <2>7, EditGood
<1>15. Good(Disconnect(w, {c}))
  BY <1>13, DisconnectGood
<1>16. CASE ~MayConnect(w, o)
  BY <1>1, <1>3, <1>15, <1>16, NextWorld DEF Good
<1>17. CASE MayConnect(w, o) /\ ~conn[c].linked
  BY <1>1, <1>3, <1>13, <1>17, NextWorld DEF Good
<1>18. CASE MayConnect(w, o) /\ conn[c].linked
  <2>1. Good(AddRef(v, o))
    BY <1>2, <1>5, <1>14, <1>18, AddRefGood
  <2> QED  BY <1>1, <1>3, <1>4, <1>18, <2>1, NextWorld DEF Good
<1> QED  BY <1>16, <1>17, <1>18

\* c becomes a watcher of o: it watches nobody else, and plays nobody.
LEMMA WatchGood ==
  ASSUME NEW w, Good(w), NEW c \in Conns, NEW o \in Conns, NEW y \in ConnSet,
         w.obj[o].life # "none", w.obj[o].cast,
         w.conn[c].asked, Answered(w, c), w.conn[c].attempt = "none", ~w.conn[c].released,
         \A p \in Conns : w.obj[p].owner # c /\ c \notin w.obj[p].watchers,
         y.net = w.conn[c].net, y.asked, y.player = o, y.spectator,
         y.target = w.conn[c].target, y.attempt = w.conn[c].attempt, ~y.released
  PROVE  LET v == [w EXCEPT !.conn[c] = y, !.obj[o].watchers = @ \cup {c}]
         IN  Good(v) /\ v.conn[c] = y
<1> DEFINE x == [w.obj[o] EXCEPT !.watchers = @ \cup {c}]
           v == [w EXCEPT !.conn[c] = y, !.obj[o] = x]
<1>1. w \in Worlds /\ w.obj[o] \in ObjSet
  BY DEF Good, Worlds
<1>2. v = [w EXCEPT !.conn[c] = y, !.obj[o].watchers = @ \cup {c}]
  BY <1>1 DEF Worlds
<1>3. /\ x \in ObjSet /\ x.owner = w.obj[o].owner /\ x.watchers = w.obj[o].watchers \cup {c}
      /\ x.cast = w.obj[o].cast /\ x.life = w.obj[o].life /\ x.name = w.obj[o].name
      /\ x.connecting = w.obj[o].connecting
  BY <1>1 DEF ObjSet
<1> HIDE DEF x
<1>4. /\ v \in Worlds /\ v.conn[c] = y /\ v.obj[o] = x
      /\ \A d \in Conns \ {c} : v.conn[d] = w.conn[d]
      /\ \A p \in Conns \ {o} : v.obj[p] = w.obj[p]
      /\ v.tasks = w.tasks /\ v.autosend = w.autosend /\ v.flushes = w.flushes
  BY <1>1, <1>3 DEF Worlds
<1> HIDE DEF v
<1>5. \A p \in Conns : /\ v.obj[p].owner = w.obj[p].owner
                       /\ v.obj[p].cast = w.obj[p].cast
                       /\ v.obj[p].life = w.obj[p].life
                       /\ v.obj[p].name = w.obj[p].name
                       /\ v.obj[p].connecting = w.obj[p].connecting
                       /\ v.obj[p].watchers \subseteq w.obj[p].watchers \cup {c}
                       /\ p # o => v.obj[p].watchers = w.obj[p].watchers
  BY <1>3, <1>4, ZenonT(60)
<1>6. Watched(v)
  <2> SUFFICES ASSUME NEW p \in Conns, NEW d \in v.obj[p].watchers
               PROVE  /\ v.conn[d].player = p /\ v.conn[d].spectator /\ ~v.conn[d].released
                      /\ v.obj[p].cast
    BY DEF Watched
  <2>1. CASE d = c
    <3>1. p = o
      BY <1>5, <2>1
    <3> QED  BY <1>4, <1>5, <2>1, <3>1
  <2>2. CASE d # c
    <3>1. d \in w.obj[p].watchers /\ d \in Conns
      BY <1>1, <1>5, <2>2 DEF Worlds, ObjSet
    <3> QED  BY <1>4, <1>5, <2>2, <3>1 DEF Good, Watched
  <2> QED  BY <2>1, <2>2
<1>7. Due(v)
  <2>1. \A d \in Conns : v.conn[d].target = w.conn[d].target /\ v.conn[d].attempt = w.conn[d].attempt
    BY <1>4
  <2> QED  BY <1>5, <2>1 DEF Good, Due
<1>8. Played(v)
  <2>1. ASSUME NEW d \in Conns, v.conn[d].player # NULL
        PROVE  /\ v.obj[v.conn[d].player].life # "none"
               /\ ~v.conn[d].spectator =>
                    /\ v.obj[v.conn[d].player].owner = d
                    /\ v.conn[d].released => v.conn[d].late
    <3>1. CASE d = c
      BY <1>4, <1>5, <3>1
    <3>2. CASE d # c
      <4>1. v.conn[d] = w.conn[d] /\ w.conn[d].player \in Conns
        BY <1>1, <1>4, <2>1, <3>2 DEF Worlds, ConnSet
      <4> QED  BY <1>5, <2>1, <4>1 DEF Good, Played
    <3> QED  BY <3>1, <3>2
  <2>2. ASSUME NEW p \in Conns, v.obj[p].owner # NULL
        PROVE  v.conn[v.obj[p].owner].player = p /\ ~v.conn[v.obj[p].owner].spectator
    <3>1. v.obj[p].owner = w.obj[p].owner /\ w.obj[p].owner \in Conns \ {c}
      BY <1>1, <1>5, <2>2 DEF Worlds, ObjSet
    <3> QED  BY <1>4, <2>2, <3>1 DEF Good, Played
  <2> QED  BY <2>1, <2>2 DEF Played
<1>9. Once(v)
  BY <1>5 DEF Good, Once
<1>10. /\ v.conn[c].asked /\ v.conn[c].attempt = "none" /\ ~v.conn[c].released
       /\ w.conn[c].net = "closed" => v.conn[c].net = "closed"
       /\ v.conn[c].player # NULL /\ v.conn[c].spectator
  BY <1>4, SessionAssumption
<1>11. \A d \in Conns \ {c} : v.conn[d] = w.conn[d]
                           /\ (w.obj[d].life = "none" => v.obj[d].life = "none")
  BY <1>4, <1>5
<1>12. Good(v)
  BY <1>4, <1>6, <1>7, <1>8, <1>9, <1>10, <1>11, EditGood
<1> QED  BY <1>2, <1>4, <1>12

LEMMA SpectateGood ==
  ASSUME Good(World), NEW c \in Conns, Spectate(c)
  PROVE  Good(World)'
<1>1. AtHead("spectate", c)
  BY DEF Spectate
<1>2. /\ Good(Rest) /\ Rest.conn = conn /\ Rest.obj = obj
      /\ ~conn[c].released
      /\ conn[c].asked /\ Fresh(World, c) /\ Answered(Rest, c)
  BY <1>1, RestGood
<1>3. Rest \in Worlds /\ conn[c] \in ConnSet
  BY <1>2 DEF Good, Worlds
<1>4. CASE Becomes(Disconnect(Rest, {c}))
  <2>1. Good(Disconnect(Rest, {c}))
    BY <1>2, DisconnectGood
  <2> QED  BY <1>4, <2>1, NextWorld DEF Good
<1>5. ASSUME NEW o \in InGame(World, Head(tasks).name), obj[o].cast,
             Becomes(AddToAutosend(AddRef([Rest EXCEPT
               !.conn[c] = [@ EXCEPT !.player = o, !.spectator = TRUE, !.accepts = TRUE],
               !.obj[o].watchers = @ \cup {c}], o), c))
      PROVE  Good(World)'
  <2> DEFINE y == [conn[c] EXCEPT !.player = o, !.spectator = TRUE, !.accepts = TRUE]
             w == [Rest EXCEPT !.conn[c] = y, !.obj[o].watchers = @ \cup {c}]
  <2>1. o \in Conns /\ obj[o].life = "game"
    BY WorldIs DEF InGame
  <2>2. /\ conn[c].attempt = "none" /\ conn[c].player = NULL /\ ~conn[c].spectator
    BY <1>2, WorldIs DEF Fresh
  <2>3. \A p \in Conns : obj[p].owner # c /\ c \notin obj[p].watchers
    BY <1>2, <2>2, SessionAssumption DEF Good, Played, Watched
  <2>4. y \in ConnSet
    <3> DEFINE spectator == TRUE
               accepts == TRUE
    <3>1. spectator \in BOOLEAN /\ accepts \in BOOLEAN
      OBVIOUS
    <3> HIDE DEF spectator, accepts
    <3>2. [conn[c] EXCEPT !.player = o, !.spectator = spectator, !.accepts = accepts] \in ConnSet
      BY <1>3, <2>1, <3>1 DEF ConnSet
    <3> QED  BY <3>2 DEF spectator, accepts
  <2>5. /\ y.net = conn[c].net /\ y.asked = conn[c].asked /\ y.player = o /\ y.spectator
        /\ y.target = conn[c].target /\ y.attempt = conn[c].attempt
        /\ y.released = conn[c].released
    BY <1>3 DEF ConnSet
  <2>6. Becomes(AddToAutosend(AddRef(w, o), c))
    BY <1>2, <1>5
  <2> HIDE DEF y
  <2>10. /\ Rest.obj[o].life # "none" /\ Rest.obj[o].cast
         /\ Rest.conn[c].asked /\ Rest.conn[c].attempt = "none" /\ ~Rest.conn[c].released
         /\ \A p \in Conns : Rest.obj[p].owner # c /\ c \notin Rest.obj[p].watchers
         /\ y.net = Rest.conn[c].net /\ y.asked
         /\ y.target = Rest.conn[c].target /\ y.attempt = Rest.conn[c].attempt /\ ~y.released
    BY <1>2, <1>5, <2>1, <2>2, <2>3, <2>5
  <2>7. Good(w)
    BY <1>2, <2>1, <2>4, <2>5, <2>10, WatchGood
  <2>11. w.conn[c] = y
    BY <1>3 DEF Worlds
  <2> HIDE DEF w
  <2>8. Good(AddRef(w, o)) /\ AddRef(w, o).conn = w.conn
    BY <2>1, <2>7, AddRefGood
  <2>9. Good(AddToAutosend(AddRef(w, o), c))
    BY <1>2, <2>5, <2>8, <2>11, AddToAutosendGood
  <2> QED  BY <2>6, <2>9, NextWorld DEF Good
<1> QED  BY <1>4, <1>5 DEF Spectate

LEMMA TurnGood ==
  ASSUME Good(World), NEW c \in Conns, Turn(c)
  PROVE  Good(World)'
<1>1. AtHead("turn", c)
  BY DEF Turn
<1> DEFINE old == conn[c].player
           x == [obj[old] EXCEPT !.watchers = @ \ {c}]
           u == [Rest EXCEPT !.obj[old] = x]
           v == UnRef(u, old)
<1>2. /\ Good(Rest) /\ Rest.conn = conn /\ Rest.obj = obj /\ ~conn[c].released
      /\ old # NULL /\ conn[c].spectator
  BY <1>1, RestGood
<1>3. Rest \in Worlds /\ conn[c] \in ConnSet /\ old \in Conns /\ obj[old] \in ObjSet
  <2>1. conn[c] \in ConnSet /\ conn[c].player \in Conns
    BY <1>2 DEF Good, Worlds, ConnSet
  <2> QED  BY <1>2, <2>1 DEF Good, Worlds
<1>4. obj[old].life # "none"
  BY <1>2, <1>3 DEF Good, Played
<1>5. /\ conn[c].asked /\ conn[c].attempt = "none"
      /\ \A p \in Conns : obj[p].owner # c
      /\ \A p \in Conns : c \in obj[p].watchers => p = old
  <2>1. conn[c].asked /\ conn[c].attempt = "none"
    <3>1. Roles(Rest)
      BY <1>2 DEF Good, Queue
    <3> QED  BY <1>2, <3>1 DEF Roles, Fresh
  <2>2. ASSUME NEW p \in Conns PROVE obj[p].owner # c
    <3>1. Played(Rest) /\ c # NULL
      BY <1>2, SessionAssumption DEF Good
    <3> QED  BY <1>2, <3>1 DEF Played
  <2>3. ASSUME NEW p \in Conns, c \in obj[p].watchers PROVE p = old
    <3>1. Watched(Rest)
      BY <1>2 DEF Good
    <3> QED  BY <1>2, <2>3, <3>1 DEF Watched
  <2> QED  BY <2>1, <2>2, <2>3
<1>6. Answered(Rest, c)
  BY <1>2 DEF Good, Queue, RequestsAreFresh, Fresh, Answered
<1>7. \/ Becomes(Rest)
      \/ \E o \in Streams \ {old} :
           Becomes(AddRef([UnRef([Rest EXCEPT !.obj[old].watchers = @ \ {c}], old) EXCEPT
                             !.conn[c].player = o, !.obj[o].watchers = @ \cup {c}], o))
  BY DEF Turn
<1>8. u = [Rest EXCEPT !.obj[old].watchers = @ \ {c}]
  BY <1>2
<1> HIDE DEF old
<1>9. /\ x \in ObjSet /\ x.owner = obj[old].owner /\ x.watchers = obj[old].watchers \ {c}
      /\ x.cast = obj[old].cast /\ x.life = obj[old].life /\ x.name = obj[old].name
      /\ x.connecting = obj[old].connecting
  BY <1>3 DEF ObjSet
<1> HIDE DEF x
<1>10. /\ u \in Worlds /\ u.conn = conn /\ u.obj[old] = x
       /\ \A p \in Conns \ {old} : u.obj[p] = obj[p]
       /\ u.tasks = Rest.tasks /\ u.autosend = Rest.autosend /\ u.flushes = Rest.flushes
  BY <1>2, <1>3, <1>9 DEF Worlds
<1> HIDE DEF u
<1>11. Good(u)
  <2>1. \A d \in Conns : /\ Same(u.conn[d], Rest.conn[d])
                         /\ Rest.conn[d].net = "closed" => u.conn[d].net = "closed"
    BY <1>2, <1>10 DEF Same
  <2>2. \A p \in Conns : /\ u.obj[p].watchers \subseteq Rest.obj[p].watchers
                         /\ u.obj[p].watchers = {} \/ (Rest.obj[p].cast => u.obj[p].cast)
                         /\ u.obj[p].connecting => Rest.obj[p].connecting
                         /\ u.obj[p].owner = Rest.obj[p].owner
                         /\ u.obj[p].life = "none" <=> Rest.obj[p].life = "none"
                         /\ u.obj[p].life = "game" =>
                              Rest.obj[p].life = "game" /\ u.obj[p].name = Rest.obj[p].name
    BY <1>2, <1>9, <1>10
  <2> QED  BY <1>2, <1>10, <2>1, <2>2, FrameGood
<1>12. /\ v.conn = conn /\ v.tasks = Rest.tasks
       /\ \A p \in Conns : /\ v.obj[p].owner = obj[p].owner
                           /\ v.obj[p].cast = obj[p].cast
                           /\ c \notin v.obj[p].watchers
                           /\ p # old => v.obj[p].life = obj[p].life
  <2>1. \A p \in Conns : /\ u.obj[p] \in ObjSet /\ u.obj[p].owner = obj[p].owner
                         /\ u.obj[p].cast = obj[p].cast
                         /\ c \notin u.obj[p].watchers
                         /\ u.obj[p].life = obj[p].life
    <3>1. \A p \in Conns : u.obj[p] \in ObjSet
      BY <1>10 DEF Worlds
    <3> QED  BY <1>5, <1>9, <1>10, <3>1
  <2> DEFINE life == IF u.obj[old].refs = 1 THEN "deleted" ELSE u.obj[old].life
             q == [u.obj[old] EXCEPT !.refs = @ - 1, !.life = life]
  <2>2. /\ v.conn = conn /\ v.tasks = Rest.tasks
        /\ v.obj = [u.obj EXCEPT ![old] = q]
    BY <1>10 DEF UnRef, Worlds
  <2> HIDE DEF life
  <2>3. /\ q.owner = u.obj[old].owner /\ q.cast = u.obj[old].cast
        /\ q.watchers = u.obj[old].watchers
    BY <1>3, <2>1 DEF ObjSet
  <2> HIDE DEF q, v
  <2>4. \A p \in Conns : v.obj[p] = IF p = old THEN q ELSE u.obj[p]
    BY <1>10, <2>2 DEF Worlds
  <2> QED  BY <2>1, <2>2, <2>3, <2>4
<1>13. Good(v)
  <2>1. u.obj[old].life # "none"
    BY <1>4, <1>9, <1>10
  <2> QED  BY <1>3, <1>11, <2>1, UnRefGood
<1> HIDE DEF v
<1>14. ASSUME NEW o \in Streams \ {old},
              Becomes(AddRef([v EXCEPT !.conn[c].player = o, !.obj[o].watchers = @ \cup {c}], o))
       PROVE  Good(World)'
  <2> DEFINE y == [conn[c] EXCEPT !.player = o]
             w == [v EXCEPT !.conn[c] = y, !.obj[o].watchers = @ \cup {c}]
  <2>1. o \in Conns /\ o # old /\ obj[o].life = "game" /\ obj[o].cast
    BY DEF Streams
  <2>2. /\ y \in ConnSet
        /\ y.net = conn[c].net /\ y.asked = conn[c].asked /\ y.player = o
        /\ y.spectator = conn[c].spectator /\ y.target = conn[c].target
        /\ y.attempt = conn[c].attempt /\ y.released = conn[c].released
    BY <1>3, <2>1 DEF ConnSet
  <2>3. Becomes(AddRef(w, o))
    BY <1>12, <1>14
  <2> HIDE DEF y
  <2>4. Answered(v, c)
    BY <1>6, <1>12 DEF Answered
  <2>5. v.obj[o].life # "none" /\ v.obj[o].cast
    BY <1>12, <2>1
  <2>8. /\ v.conn[c].asked /\ v.conn[c].attempt = "none" /\ ~v.conn[c].released
        /\ \A p \in Conns : v.obj[p].owner # c /\ c \notin v.obj[p].watchers
        /\ y.net = v.conn[c].net /\ y.asked /\ y.spectator
        /\ y.target = v.conn[c].target /\ y.attempt = v.conn[c].attempt /\ ~y.released
    BY <1>2, <1>5, <1>12, <2>2
  <2>6. Good(w)
    BY <1>13, <2>1, <2>2, <2>4, <2>5, <2>8, WatchGood
  <2> HIDE DEF w
  <2>7. Good(AddRef(w, o))
    BY <2>1, <2>6, AddRefGood
  <2> QED  BY <2>3, <2>7, NextWorld DEF Good
<1>15. CASE Becomes(Rest)
  BY <1>2, <1>15, NextWorld DEF Good
<1> QED  BY <1>7, <1>8, <1>14, <1>15 DEF v

\* The world after release, in any of its cases, but for the reference.
LEMMA GoneGood ==
  ASSUME NEW w, Good(w), NEW v \in Worlds, NEW c \in Conns,
         w.conn[c].net = "closed", \A i \in DOMAIN w.tasks : w.tasks[i].of # c,
         v.tasks = w.tasks, v.autosend = w.autosend \ {c}, v.flushes = w.flushes,
         \A d \in Conns \ {c} : v.conn[d] = w.conn[d],
         v.conn[c].net = "closed", v.conn[c].player = NULL,
         v.conn[c].asked = w.conn[c].asked, v.conn[c].spectator = w.conn[c].spectator,
         v.conn[c].target = w.conn[c].target, v.conn[c].attempt = w.conn[c].attempt,
         \A p \in Conns : /\ v.obj[p].life = w.obj[p].life /\ v.obj[p].name = w.obj[p].name
                          /\ v.obj[p].connecting = w.obj[p].connecting
                          /\ v.obj[p].cast = w.obj[p].cast
                          /\ v.obj[p].watchers = w.obj[p].watchers \ {c}
                          /\ v.obj[p].owner = IF w.obj[p].owner = c THEN NULL ELSE w.obj[p].owner
  PROVE  Good(v)
<1>1. Watched(v)
  <2> SUFFICES ASSUME NEW p \in Conns, NEW d \in v.obj[p].watchers
               PROVE  /\ v.conn[d].player = p /\ v.conn[d].spectator /\ ~v.conn[d].released
                      /\ v.obj[p].cast
    BY DEF Watched
  <2>1. d \in w.obj[p].watchers /\ d # c /\ d \in Conns
    <3>1. d \in v.obj[p].watchers /\ v.obj[p].watchers = w.obj[p].watchers \ {c}
      OBVIOUS
    <3>2. w.obj[p].watchers \subseteq Conns
      BY DEF Good, Worlds, ObjSet
    <3> QED  BY <3>1, <3>2
  <2> QED  BY <2>1 DEF Good, Watched
<1>2. Due(v)
  <2>1. \A d \in Conns : v.conn[d].target = w.conn[d].target /\ v.conn[d].attempt = w.conn[d].attempt
    OBVIOUS
  <2> QED  BY <2>1 DEF Good, Due
<1>3. Played(v)
  <2>1. ASSUME NEW d \in Conns, v.conn[d].player # NULL
        PROVE  /\ v.obj[v.conn[d].player].life # "none"
               /\ ~v.conn[d].spectator =>
                    /\ v.obj[v.conn[d].player].owner = d
                    /\ v.conn[d].released => v.conn[d].late
    <3>1. d # c /\ v.conn[d] = w.conn[d]
      BY <2>1
    <3>2. w.conn[d].player \in Conns
      BY <2>1, <3>1 DEF Good, Worlds, ConnSet
    <3>3. /\ w.obj[w.conn[d].player].life # "none"
          /\ ~w.conn[d].spectator =>
               /\ w.obj[w.conn[d].player].owner = d
               /\ w.conn[d].released => w.conn[d].late
      <4>1. Played(w)
        BY DEF Good
      <4> QED  BY <2>1, <3>1, <4>1 DEF Played
    <3> QED  BY <3>1, <3>2, <3>3
  <2>2. ASSUME NEW p \in Conns, v.obj[p].owner # NULL
        PROVE  v.conn[v.obj[p].owner].player = p /\ ~v.conn[v.obj[p].owner].spectator
    <3>1. v.obj[p].owner = w.obj[p].owner /\ w.obj[p].owner # c /\ w.obj[p].owner # NULL
      BY <2>2
    <3>2. w.obj[p].owner \in Conns
      BY <3>1 DEF Good, Worlds, ObjSet
    <3>3. w.conn[w.obj[p].owner].player = p /\ ~w.conn[w.obj[p].owner].spectator
      BY <3>1, <3>2 DEF Good, Played
    <3> QED  BY <3>1, <3>2, <3>3
  <2> QED  BY <2>1, <2>2 DEF Played
<1>4. Once(v)
  BY DEF Good, Once
<1>5. Answered(w, c)
  BY DEF Answered
<1>6. /\ ~v.conn[c].asked => Fresh(v, c)
      /\ v.conn[c].attempt # "none" => ~v.conn[c].spectator /\ v.conn[c].target \in Conns
  BY DEF Good, Queue, Roles, Fresh
<1>7. v.autosend \subseteq w.autosend /\ c \notin v.autosend
  OBVIOUS
<1>8. \A d \in Conns \ {c} : v.conn[d] = w.conn[d]
                          /\ (w.obj[d].life = "none" => v.obj[d].life = "none")
  OBVIOUS
<1> QED  BY <1>1, <1>2, <1>3, <1>4, <1>5, <1>6, <1>7, <1>8, EditGood

LEMMA ReleaseGood ==
  ASSUME Good(World), NEW c \in Conns, Release(c)
  PROVE  Good(World)'
<1> DEFINE o == conn[c].player
           w == [Rest EXCEPT !.autosend = @ \ {c}, !.conn[c].released = TRUE]
           v == IF conn[c].spectator THEN Unwatch(w, c, o)
                ELSE [w EXCEPT !.obj[o].owner = DisownedBy(w, c, o)]
           u == [v EXCEPT !.conn[c].player = NULL]
           y == [conn[c] EXCEPT !.released = TRUE]
           z == [y EXCEPT !.player = NULL]
<1>1. AtHead("release", c) /\ Becomes(IF o = NULL THEN w ELSE UnRef(u, o))
  BY DEF Release
<1>2. /\ Good(Rest) /\ Rest.conn = conn /\ Rest.obj = obj /\ Rest.autosend = autosend
      /\ conn[c].net = "closed" /\ ~conn[c].released
      /\ \A i \in DOMAIN Rest.tasks : Rest.tasks[i].of # c
  BY <1>1, RestGood
<1>3. Rest \in Worlds /\ conn[c] \in ConnSet
  BY <1>2 DEF Good, Worlds
<1>4. /\ y \in ConnSet /\ y.net = "closed" /\ y.player = o
      /\ y.asked = conn[c].asked /\ y.spectator = conn[c].spectator
      /\ y.target = conn[c].target /\ y.attempt = conn[c].attempt
  BY <1>2, <1>3 DEF ConnSet
<1>5. /\ w \in Worlds /\ w.conn[c] = y /\ w.conn \in [Conns -> ConnSet]
      /\ \A d \in Conns \ {c} : w.conn[d] = conn[d]
      /\ w.obj = obj /\ w.autosend = Rest.autosend \ {c}
      /\ w.tasks = Rest.tasks /\ w.flushes = Rest.flushes
  <2>1. /\ w.conn = [conn EXCEPT ![c] = y] /\ w.obj = obj /\ w.autosend = Rest.autosend \ {c}
        /\ w.tasks = Rest.tasks /\ w.flushes = Rest.flushes
    BY <1>2, <1>3 DEF Worlds
  <2> HIDE DEF y
  <2>2. w.conn \in [Conns -> ConnSet] /\ w.conn[c] = y
        /\ \A d \in Conns \ {c} : w.conn[d] = conn[d]
    BY <1>2, <1>3, <1>4, <2>1 DEF Worlds
  <2>3. w \in Worlds
    BY <1>2, <1>3, <2>1, <2>2 DEF Worlds
  <2> QED  BY <2>1, <2>2, <2>3
<1>6. /\ \A p \in Conns : obj[p].owner = c => p = o /\ ~conn[c].spectator
      /\ \A p \in Conns : c \in obj[p].watchers => p = o /\ conn[c].spectator /\ obj[p].cast
  BY <1>2, SessionAssumption DEF Good, Played, Watched
<1> HIDE DEF w
<1>7. CASE o = NULL
  <2>1. \A p \in Conns : /\ w.obj[p].watchers = Rest.obj[p].watchers \ {c}
                         /\ w.obj[p].owner = IF Rest.obj[p].owner = c THEN NULL ELSE Rest.obj[p].owner
                         /\ w.obj[p].life = Rest.obj[p].life /\ w.obj[p].name = Rest.obj[p].name
                         /\ w.obj[p].connecting = Rest.obj[p].connecting
                         /\ w.obj[p].cast = Rest.obj[p].cast
    <3>1. \A p \in Conns : c \notin obj[p].watchers /\ obj[p].owner # c
      BY <1>6, <1>7, SessionAssumption
    <3> QED  BY <1>2, <1>5, <3>1
  <2> HIDE DEF o, y
  <2>2. Good(w)
    <3>1. /\ Rest.conn[c].net = "closed" /\ w.conn[c].net = "closed" /\ w.conn[c].player = NULL
          /\ w.conn[c].asked = Rest.conn[c].asked /\ w.conn[c].spectator = Rest.conn[c].spectator
          /\ w.conn[c].target = Rest.conn[c].target /\ w.conn[c].attempt = Rest.conn[c].attempt
          /\ \A d \in Conns \ {c} : w.conn[d] = Rest.conn[d]
      BY <1>2, <1>4, <1>5, <1>7
    <3> QED  BY <1>2, <1>5, <2>1, <3>1, GoneGood
  <2> QED  BY <1>1, <1>7, <2>2, NextWorld DEF Good
<1>8. CASE o # NULL
  <2>1. o \in Conns /\ obj[o] \in ObjSet /\ obj[o].life # "none"
    <3>1. o \in Conns
      BY <1>3, <1>8 DEF ConnSet
    <3>2. obj[o] \in ObjSet
      BY <1>2, <1>3, <3>1 DEF Worlds
    <3> QED  BY <1>2, <1>8, <3>1, <3>2 DEF Good, Played
  <2>2. /\ z \in ConnSet /\ z.net = "closed" /\ z.player = NULL
        /\ z.asked = conn[c].asked /\ z.spectator = conn[c].spectator
        /\ z.target = conn[c].target /\ z.attempt = conn[c].attempt
    <3> HIDE DEF y
    <3> QED  BY <1>4 DEF ConnSet
  <2> DEFINE x == [obj[o] EXCEPT !.watchers = @ \ {c}]
             q == [obj[o] EXCEPT !.owner = DisownedBy(w, c, o)]
  <2>3. /\ x \in ObjSet /\ x.owner = obj[o].owner /\ x.watchers = obj[o].watchers \ {c}
        /\ x.cast = obj[o].cast /\ x.life = obj[o].life /\ x.name = obj[o].name
        /\ x.connecting = obj[o].connecting
    BY <2>1 DEF ObjSet
  <2>4. /\ q \in ObjSet /\ q.owner = IF obj[o].owner = c THEN NULL ELSE obj[o].owner
        /\ q.watchers = obj[o].watchers
        /\ q.cast = obj[o].cast /\ q.life = obj[o].life /\ q.name = obj[o].name
        /\ q.connecting = obj[o].connecting
    BY <1>5, <2>1 DEF ObjSet, DisownedBy
  <2>5. PICK r \in ObjSet :
          /\ v = [w EXCEPT !.obj[o] = r]
          /\ r.owner = IF obj[o].owner = c THEN NULL ELSE obj[o].owner
          /\ r.watchers = obj[o].watchers \ {c}
          /\ r.cast = obj[o].cast /\ r.life = obj[o].life /\ r.name = obj[o].name
          /\ r.connecting = obj[o].connecting
    <3>1. CASE conn[c].spectator /\ obj[o].cast
      <4>1. v = [w EXCEPT !.obj[o] = x]
        BY <1>5, <3>1 DEF Unwatch
      <4> HIDE DEF v, x
      <4>2. obj[o].owner # c
        BY <1>6, <2>1, <3>1
      <4> QED  BY <2>3, <4>1, <4>2
    <3>2. CASE conn[c].spectator /\ ~obj[o].cast
      <4>1. v = w /\ w = [w EXCEPT !.obj[o] = obj[o]]
        BY <1>5, <2>1, <3>2 DEF Unwatch, Worlds
      <4> HIDE DEF v
      <4>2. obj[o].owner # c /\ c \notin obj[o].watchers
        BY <1>6, <2>1, <3>2
      <4> QED  BY <2>1, <4>1, <4>2
    <3>3. CASE ~conn[c].spectator
      <4>1. v = [w EXCEPT !.obj[o] = q]
        BY <1>5, <3>3
      <4> HIDE DEF v, q
      <4>2. c \notin obj[o].watchers
        BY <1>6, <2>1, <3>3
      <4> QED  BY <2>4, <4>1, <4>2
    <3> QED  BY <3>1, <3>2, <3>3
  <2> HIDE DEF v
  <2>6. /\ u \in Worlds /\ u.conn[c] = z /\ u.obj[o] = r
        /\ \A d \in Conns \ {c} : u.conn[d] = conn[d]
        /\ \A p \in Conns \ {o} : u.obj[p] = obj[p]
        /\ u.tasks = w.tasks /\ u.autosend = w.autosend /\ u.flushes = w.flushes
    <3>1. u = [w EXCEPT !.conn[c] = z, !.obj[o] = r]
      BY <1>5, <2>5 DEF Worlds
    <3> HIDE DEF u, z, o
    <3> QED  BY <1>5, <2>1, <2>2, <3>1 DEF Worlds
  <2> HIDE DEF u, z, x, q, o
  <2>7. \A p \in Conns : /\ u.obj[p].watchers = Rest.obj[p].watchers \ {c}
                         /\ u.obj[p].owner = IF Rest.obj[p].owner = c THEN NULL ELSE Rest.obj[p].owner
                         /\ u.obj[p].life = Rest.obj[p].life /\ u.obj[p].name = Rest.obj[p].name
                         /\ u.obj[p].connecting = Rest.obj[p].connecting
                         /\ u.obj[p].cast = Rest.obj[p].cast
    <3>1. \A p \in Conns \ {o} : c \notin obj[p].watchers /\ obj[p].owner # c
      BY <1>6
    <3> QED  BY <1>2, <2>5, <2>6, <3>1
  <2>8. /\ Rest.conn[c].net = "closed" /\ u.conn[c].net = "closed" /\ u.conn[c].player = NULL
        /\ u.conn[c].asked = Rest.conn[c].asked /\ u.conn[c].spectator = Rest.conn[c].spectator
        /\ u.conn[c].target = Rest.conn[c].target /\ u.conn[c].attempt = Rest.conn[c].attempt
        /\ \A d \in Conns \ {c} : u.conn[d] = Rest.conn[d]
    BY <1>2, <2>2, <2>6
  <2>9. Good(u)
    BY <1>2, <1>5, <2>6, <2>7, <2>8, GoneGood
  <2>10. Good(UnRef(u, o))
    BY <1>2, <2>1, <2>7, <2>9, UnRefGood
  <2> QED  BY <1>1, <1>8, <2>10, NextWorld DEF Good
<1> QED  BY <1>7, <1>8

LEMMA LogoutGood ==
  ASSUME Good(World), NEW c \in Conns, Logout(c)
  PROVE  Good(World)'
<1>1. Good(Rest) /\ Rest.conn = conn
  <2>1. AtHead("logout", c)
    BY DEF Logout
  <2> QED  BY <2>1, RestGood
<1>2. CASE Becomes(Rest)
  BY <1>1, <1>2, NextWorld DEF Good
<1>3. CASE conn[c].player # NULL /\ Becomes(LoggedOut(Rest, c))
  <2>1. Good(LoggedOut(Rest, c))
    BY <1>1, <1>3, LoggedOutGood
  <2> QED  BY <1>3, <2>1, NextWorld DEF Good
<1> QED  BY <1>2, <1>3 DEF Logout

LEMMA LeaveGood ==
  ASSUME Good(World), NEW c \in Conns, Leave(c)
  PROVE  Good(World)'
<1>1. Good(Rest)
  <2>1. AtHead("leave", c)
    BY DEF Leave
  <2> QED  BY <2>1, RestGood
<1>2. Good(Disconnect(Rest, {c}))
  BY <1>1, DisconnectGood
<1> QED  BY <1>2, NextWorld DEF Good, Leave

-----------------------------------------------------------------------------
(* The game                                                                  *)

LEMMA KickGood ==
  ASSUME Good(World), NEW o \in Conns, KickAbsent(o) \/ Kick(o) \/ Die(o)
  PROVE  Good(World)'
<1>1. obj[o].life = "game"
  BY DEF KickAbsent, Kick, Die
<1>2. Good(RemoveCreature(World, o))
  BY <1>1, WorldIs, RemoveCreatureGood
<1>3. obj[o].owner # NULL => Good(LoggedOut(World, obj[o].owner))
  <2> SUFFICES ASSUME obj[o].owner # NULL PROVE Good(LoggedOut(World, obj[o].owner))
    OBVIOUS
  <2>1. obj[o].owner \in Conns
    BY WorldIs DEF Good, Worlds, ObjSet
  <2>2. World.conn[obj[o].owner].player = o
    BY WorldIs DEF Good, Played
  <2> QED  BY <2>1, <2>2, LoggedOutGood, SessionAssumption
<1>4. \/ Becomes(RemoveCreature(World, o))
      \/ obj[o].owner # NULL /\ Becomes(LoggedOut(World, obj[o].owner))
  BY DEF KickAbsent, Kick, Die
<1> QED  BY <1>2, <1>3, <1>4, NextWorld DEF Good

LEMMA SetCastGood ==
  ASSUME Good(World), NEW o \in Conns, SetCast(o)
  PROVE  Good(World)'
<1>1. PICK on \in BOOLEAN, newPassword \in BOOLEAN :
        LET w == IF newPassword \/ (~on /\ obj[o].cast) THEN Clear(World, o, FALSE) ELSE World
        IN  \E kicked \in SUBSET w.obj[o].watchers :
              Becomes([Disconnect(w, kicked) EXCEPT !.obj[o].cast = on])
  BY DEF SetCast
<1> DEFINE w == IF newPassword \/ (~on /\ obj[o].cast) THEN Clear(World, o, FALSE) ELSE World
<1>2. Good(w) /\ (w.obj[o].watchers = {} \/ on \/ ~w.obj[o].cast)
  <2>1. Good(Clear(World, o, FALSE)) /\ Clear(World, o, FALSE).obj[o].watchers = {}
    BY ClearGood
  <2> QED  BY <2>1, WorldIs
<1>3. PICK kicked \in SUBSET w.obj[o].watchers :
        Becomes([Disconnect(w, kicked) EXCEPT !.obj[o].cast = on])
  BY <1>1
<1> HIDE DEF w
<1> DEFINE u == Disconnect(w, kicked)
           x == [u.obj[o] EXCEPT !.cast = on]
           v == [u EXCEPT !.obj[o].cast = on]
<1>4. kicked \in SUBSET Conns
  BY <1>2, <1>3 DEF Good, Worlds, ObjSet
<1>5. Good(u) /\ u.obj = w.obj
  BY <1>2, <1>4, DisconnectGood
<1> HIDE DEF u
<1>6. u \in Worlds /\ u.obj[o] \in ObjSet
  BY <1>5 DEF Good, Worlds
<1>7. /\ v.obj = [u.obj EXCEPT ![o] = x]
      /\ v.conn = u.conn /\ v.tasks = u.tasks /\ v.autosend = u.autosend
      /\ v.flushes = u.flushes
  BY <1>6 DEF Worlds
<1>8. /\ x \in ObjSet /\ x.cast = on
      /\ x.watchers = u.obj[o].watchers /\ x.connecting = u.obj[o].connecting
      /\ x.owner = u.obj[o].owner /\ x.life = u.obj[o].life /\ x.name = u.obj[o].name
  BY <1>6 DEF ObjSet
<1> HIDE DEF x
<1>9. v \in Worlds /\ \A p \in Conns : v.obj[p] = IF p = o THEN x ELSE u.obj[p]
  BY <1>6, <1>7, <1>8 DEF Worlds
<1> HIDE DEF v
<1>10. \A c \in Conns : /\ Same(v.conn[c], u.conn[c])
                        /\ u.conn[c].net = "closed" => v.conn[c].net = "closed"
  BY <1>7 DEF Same
<1>11. \A p \in Conns : /\ v.obj[p].watchers \subseteq u.obj[p].watchers
                        /\ v.obj[p].watchers = {} \/ (u.obj[p].cast => v.obj[p].cast)
                        /\ v.obj[p].connecting => u.obj[p].connecting
                        /\ v.obj[p].owner = u.obj[p].owner
                        /\ v.obj[p].life = "none" <=> u.obj[p].life = "none"
                        /\ v.obj[p].life = "game" =>
                             u.obj[p].life = "game" /\ v.obj[p].name = u.obj[p].name
  BY <1>2, <1>5, <1>8, <1>9
<1>12. Good(v)
  BY <1>5, <1>7, <1>9, <1>10, <1>11, FrameGood
<1> QED  BY <1>3, <1>12, NextWorld DEF Good, u, v

LEMMA CleanupGood ==
  ASSUME Good(World), NEW o \in Conns, Cleanup(o)
  PROVE  Good(World)'
<1> DEFINE held == FALSE
           x == [obj[o] EXCEPT !.held = held]
           v == [World EXCEPT !.obj[o].held = held]
<1>1. obj[o].life = "removed" /\ Becomes(UnRef(v, o)) /\ held \in BOOLEAN
  BY DEF Cleanup
<1> HIDE DEF held
<1>2. World \in Worlds /\ obj[o] \in ObjSet
  BY WorldIs DEF Good, Worlds
<1>3. /\ v.obj = [obj EXCEPT ![o] = x]
      /\ v.conn = conn /\ v.tasks = tasks /\ v.autosend = autosend /\ v.flushes = flushes
  BY <1>2, WorldIs DEF Worlds
<1>4. /\ x \in ObjSet /\ x.cast = obj[o].cast
      /\ x.watchers = obj[o].watchers /\ x.connecting = obj[o].connecting
      /\ x.owner = obj[o].owner /\ x.life = obj[o].life /\ x.name = obj[o].name
  BY <1>1, <1>2 DEF ObjSet
<1> HIDE DEF x
<1>5. v \in Worlds /\ \A p \in Conns : v.obj[p] = IF p = o THEN x ELSE obj[p]
  BY <1>2, <1>3, <1>4, WorldIs DEF Worlds
<1> HIDE DEF v
<1>6. \A c \in Conns : /\ Same(v.conn[c], World.conn[c])
                       /\ World.conn[c].net = "closed" => v.conn[c].net = "closed"
  BY <1>3, WorldIs DEF Same
<1>7. \A p \in Conns : /\ v.obj[p].watchers = World.obj[p].watchers
                       /\ v.obj[p].cast = World.obj[p].cast
                       /\ v.obj[p].connecting = World.obj[p].connecting
                       /\ v.obj[p].owner = World.obj[p].owner
                       /\ v.obj[p].life = World.obj[p].life
                       /\ v.obj[p].name = World.obj[p].name
  BY <1>4, <1>5, WorldIs
<1>8. Good(v)
  BY <1>3, <1>5, <1>6, <1>7, WorldIs, FrameGood
<1>9. Good(UnRef(v, o))
  BY <1>1, <1>4, <1>5, <1>8, UnRefGood
<1> QED  BY <1>1, <1>9, NextWorld DEF Good

LEMMA SendAllGood ==
  ASSUME Good(World), SendAll
  PROVE  Good(World)'
<1> DEFINE v == [World EXCEPT !.flushes = IF autosend = {} THEN @ - 1 ELSE @]
<1>1. World \in Worlds /\ flushes \in Nat /\ flushes > 0
  BY WorldIs DEF Good, Worlds, SendAll
<1>2. /\ v.conn = conn /\ v.obj = obj /\ v.tasks = tasks /\ v.autosend = autosend
      /\ v.flushes = IF autosend = {} THEN flushes - 1 ELSE flushes
  BY DEF World
<1>3. v.flushes \in Nat /\ (v.autosend # {} => v.flushes > 0)
  BY <1>1, <1>2
<1>4. v \in Worlds
  BY <1>1, <1>2, <1>3 DEF World, Worlds
<1>5. Becomes(v)
  BY <1>2 DEF Becomes, SendAll
<1> HIDE DEF v
<1>6. ReleaseIsLast(v) /\ ReleaseIsDue(v) /\ ReleasedAreGone(v) /\ AsksOnce(v)
  BY <1>2, WorldIs DEF Good, Queue, ReleaseIsLast, ReleaseIsDue, ReleasedAreGone, AsksOnce
<1>7. RequestsAreFresh(v) /\ Roles(v)
  BY <1>2, WorldIs DEF Good, Queue, RequestsAreFresh, Roles, Fresh
<1>8. Flushing(v) /\ Watched(v) /\ Due(v) /\ Played(v) /\ Once(v)
  BY <1>2, <1>3, WorldIs DEF Good, Flushing, Watched, Due, Played, Once
<1>9. Good(v)
  BY <1>4, <1>6, <1>7, <1>8 DEF Good, Queue
<1> QED  BY <1>4, <1>5, <1>9, NextWorld

-----------------------------------------------------------------------------
(* The theorems                                                              *)

LEMMA InitGood ==
  Init => Good(World)
<1> SUFFICES ASSUME Init PROVE Good(World)
  OBVIOUS
<1>1. /\ conn = [c \in Conns |->
                  [net |-> "idle", linked |-> TRUE, asked |-> FALSE, player |-> NULL,
                   spectator |-> FALSE, accepts |-> FALSE, target |-> NULL,
                   attempt |-> "none", released |-> FALSE, late |-> FALSE]]
      /\ obj = [o \in Conns |->
                  [name |-> NULL, life |-> "none", refs |-> 0, held |-> FALSE, owner |-> NULL,
                   watchers |-> {}, cast |-> FALSE, connecting |-> FALSE]]
      /\ tasks = <<>> /\ autosend = {} /\ flushes = 0
  BY DEF Init
<1>2. conn \in [Conns -> ConnSet]
  BY <1>1 DEF ConnSet
<1>3. obj \in [Conns -> ObjSet]
  BY <1>1 DEF ObjSet
<1>4. World \in Worlds
  <2>1. tasks \in Seq(Tasks) /\ autosend \in SUBSET Conns /\ flushes \in Nat
    BY <1>1
  <2> QED  BY <1>2, <1>3, <2>1 DEF World, Worlds
<1>5. \A c \in Conns : /\ conn[c].attempt = "none" /\ conn[c].player = NULL
                       /\ ~conn[c].spectator /\ ~conn[c].released
                       /\ obj[c].life = "none" /\ obj[c].watchers = {} /\ ~obj[c].connecting
                       /\ obj[c].owner = NULL
  BY <1>1
<1>6. DOMAIN tasks = {}
  BY <1>1
<1>7. Queue(World)
  BY <1>5, <1>6, WorldIs DEF Queue, ReleaseIsLast, ReleaseIsDue, ReleasedAreGone,
                             RequestsAreFresh, AsksOnce, Roles, Fresh
<1>8. Watched(World) /\ Flushing(World) /\ Due(World) /\ Played(World) /\ Once(World)
  BY <1>1, <1>5, WorldIs DEF Watched, Flushing, Due, Played, Once
<1> QED  BY <1>4, <1>7, <1>8 DEF Good

LEMMA NextGood ==
  Good(World) /\ [Next]_vars => Good(World)'
<1> SUFFICES ASSUME Good(World), [Next]_vars PROVE Good(World)'
  OBVIOUS
<1>1. CASE UNCHANGED <<conn, obj, tasks, autosend, flushes>>
  <2>1. Becomes(World)
    BY <1>1, WorldIs DEF Becomes
  <2> QED  BY <2>1, NextWorld DEF Good
<1>2. ASSUME NEW c \in Conns,
             \/ Accept(c) \/ FirstMessage(c) \/ Packet(c) \/ BreakOff(c) \/ Expire(c)
      PROVE  Good(World)'
  BY <1>2, AcceptGood, FirstMessageGood, PacketGood, BreakOffGood, ExpireGood
<1>3. ASSUME NEW c \in Conns,
             \/ LoginNew(c) \/ LoginAgain(c) \/ Spectate(c) \/ Turn(c)
             \/ Release(c) \/ Logout(c) \/ Leave(c)
      PROVE  Good(World)'
  BY <1>3, LoginNewGood, LoginAgainGood, SpectateGood, TurnGood, ReleaseGood, LogoutGood,
     LeaveGood
<1>4. ASSUME NEW c \in Conns, Connect(c)
      PROVE  Good(World)'
  BY <1>4, ConnectGood
<1>5. ASSUME NEW o \in Conns,
             KickAbsent(o) \/ Kick(o) \/ Die(o) \/ SetCast(o) \/ Cleanup(o)
      PROVE  Good(World)'
  BY <1>5, KickGood, SetCastGood, CleanupGood
<1>6. CASE SendAll
  BY <1>6, SendAllGood
<1>7. \/ Network \/ RunTask \/ (\E c \in Conns : Connect(c)) \/ Play \/ SendAll
      \/ UNCHANGED <<conn, obj, tasks, autosend, flushes>>
  BY DEF Next, Step, vars
<1> QED  BY <1>1, <1>2, <1>3, <1>4, <1>5, <1>6, <1>7 DEF Network, RunTask, Play

LEMMA AlwaysGood ==
  Spec => []Good(World)
BY InitGood, NextGood, PTL DEF Spec

\* A character is in the game once. A player of the game is played by his owner
\* and by no other protocol, and a protocol that was released plays him only if
\* it connected after that (login, connect and release of protocolgame.cpp).
THEOREM OneOwner == Spec => []OwnerPlays
<1>1. Good(World) => OwnerPlays
  <2> SUFFICES ASSUME Good(World) PROVE OwnerPlays
    OBVIOUS
  <2>1. ASSUME NEW name \in Names PROVE Cardinality(InGame(World, name)) <= 1
    <3>1. \A o, p \in InGame(World, name) : o = p
      BY DEF Good, Once, InGame
    <3>2. CASE InGame(World, name) = {}
      BY <3>2, FS_EmptySet
    <3>3. CASE InGame(World, name) # {}
      <4>1. PICK o : o \in InGame(World, name)
        BY <3>3
      <4>2. InGame(World, name) = {o}
        BY <3>1, <4>1
      <4> QED  BY <4>2, FS_Singleton
    <3> QED  BY <3>2, <3>3
  <2>2. ASSUME NEW o \in Conns
        PROVE  /\ Playing(o) = {obj[o].owner} \ {NULL}
               /\ \A c \in Playing(o) : conn[c].released => conn[c].late
    <3>1. obj[o].owner \in Conns \cup {NULL} /\ o # NULL
      BY WorldIs, SessionAssumption DEF Good, Worlds, ObjSet
    <3>2. obj[o].owner # NULL =>
            conn[obj[o].owner].player = o /\ ~conn[obj[o].owner].spectator
      BY WorldIs DEF Good, Played
    <3>3. \A c \in Conns : conn[c].player = o /\ ~conn[c].spectator =>
            obj[o].owner = c /\ (conn[c].released => conn[c].late)
      BY <3>1, WorldIs DEF Good, Played
    <3>4. \A c \in Playing(o) : c \in Conns /\ conn[c].player = o /\ ~conn[c].spectator
      BY DEF Playing
    <3>5. obj[o].owner # NULL => obj[o].owner \in Playing(o)
      BY <3>1, <3>2 DEF Playing
    <3>6. \A c \in Playing(o) : c = obj[o].owner /\ c # NULL
      BY <3>3, <3>4, SessionAssumption
    <3>7. Playing(o) = {obj[o].owner} \ {NULL}
      BY <3>5, <3>6
    <3> QED  BY <3>3, <3>4, <3>7
  <2> QED  BY <2>1, <2>2 DEF OwnerPlays
<1> QED  BY <1>1, AlwaysGood, PTL

\* The raw pointers that Spectators keeps point to protocols that live, watch
\* this player, and are there only while the cast is on.
THEOREM WatchersLive == Spec => []WatchersAreAlive
<1>1. Good(World) => WatchersAreAlive
  <2> SUFFICES ASSUME Good(World), NEW o \in Conns, NEW c \in obj[o].watchers
               PROVE  c \in Watching(o) /\ ~conn[c].released /\ obj[o].cast
    BY DEF WatchersAreAlive
  <2>1. c \in Conns
    BY WorldIs DEF Good, Worlds, ObjSet
  <2> QED  BY <2>1, WorldIs DEF Good, Watched, Watching
<1> QED  BY <1>1, AlwaysGood, PTL

\* addProtocolToAutosend, release and sendAll: no output waits without a flush
\* that is pending, and no released protocol is in the list.
THEOREM OutputIsFlushed == Spec => []FlushIsPending
<1>1. Good(World) => FlushIsPending
  BY WorldIs DEF Good, Flushing, FlushIsPending
<1> QED  BY <1>1, AlwaysGood, PTL

\* isConnecting is set only for a connect that is due, or that gave up in front
\* of the reset (login and connect).
THEOREM ConnectingHasCause == Spec => []ConnectingIsDue
<1>1. Good(World) => ConnectingIsDue
  BY WorldIs DEF Good, Due, ConnectingIsDue
<1> QED  BY <1>1, AlwaysGood, PTL

-----------------------------------------------------------------------------
(* The references to a player                                                *)

Users(w, o) == {c \in Conns : w.conn[c].player = o}

Held(x) == IF x.held THEN 1 ELSE 0

Gone(x) == x.life \in {"none", "deleted"}

\* RefsAreExact of a world, of players who do not exist yet too.
Exact(w) ==
  \A o \in Conns :
    /\ w.obj[o].refs = Cardinality(Users(w, o)) + Held(w.obj[o])
    /\ Gone(w.obj[o]) <=> w.obj[o].refs = 0

\* Two worlds with the same references.
SameRefs(v, w) ==
  /\ \A c \in Conns : v.conn[c].player = w.conn[c].player
  /\ \A o \in Conns : /\ v.obj[o].refs = w.obj[o].refs /\ v.obj[o].held = w.obj[o].held
                      /\ Gone(v.obj[o]) <=> Gone(w.obj[o])

LEMMA SameRefsExact ==
  ASSUME NEW v, NEW w, Exact(w), SameRefs(v, w)
  PROVE  Exact(v)
<1>1. \A o \in Conns : Users(v, o) = Users(w, o)
  BY DEF Users, SameRefs
<1> QED  BY <1>1 DEF Exact, SameRefs, Held

LEMMA SameRefsTwice ==
  ASSUME NEW u, NEW v, NEW w, SameRefs(u, v), SameRefs(v, w)
  PROVE  SameRefs(u, w)
BY DEF SameRefs

LEMMA NextExact ==
  ASSUME NEW w, Becomes(w), Exact(w)
  PROVE  Exact(World)'
<1>1. /\ \A c \in Conns : World'.conn[c] = w.conn[c]
      /\ \A o \in Conns : World'.obj[o] = w.obj[o]
  BY DEF World, Becomes
<1>2. \A o \in Conns : Users(World', o) = Users(w, o)
  BY <1>1 DEF Users
<1> QED  BY <1>1, <1>2 DEF Exact, Held, Gone, Users

\* The other protocols keep their players.
OthersStay(v, w, c) ==
  \A d \in Conns \ {c} : v.conn[d].player = w.conn[d].player

\* The users of a player when the protocol c comes to him.
LEMMA OneMoreUser ==
  ASSUME NEW v, NEW w, NEW c \in Conns, NEW o,
         w.conn[c].player # o, v.conn[c].player = o, OthersStay(v, w, c)
  PROVE  /\ Cardinality(Users(w, o)) \in Nat
         /\ Cardinality(Users(v, o)) = Cardinality(Users(w, o)) + 1
<1>1. Users(v, o) = Users(w, o) \cup {c} /\ c \notin Users(w, o)
  BY DEF Users, OthersStay
<1>2. Users(w, o) \in SUBSET Conns
  BY DEF Users
<1>3. IsFiniteSet(Users(w, o)) /\ Cardinality(Users(w, o)) \in Nat
  BY <1>2, SessionAssumption, FS_Subset, FS_CardinalityType
<1> QED  BY <1>1, <1>3, FS_AddElement

\* The protocol c goes from one player, or none, to another one, or none.
LEMMA UserMoves ==
  ASSUME NEW v, NEW w, NEW c \in Conns, NEW from, NEW to, Exact(w),
         w.conn[c].player = from, v.conn[c].player = to, from # to,
         OthersStay(v, w, c),
         \A o \in Conns :
           /\ v.obj[o].refs \in Int /\ w.obj[o].refs \in Int
           /\ v.obj[o].refs - Held(v.obj[o]) =
                w.obj[o].refs - Held(w.obj[o])
                  + (IF o = to THEN 1 ELSE 0) - (IF o = from THEN 1 ELSE 0)
           /\ Gone(v.obj[o]) <=> v.obj[o].refs = 0
  PROVE  Exact(v)
<1> SUFFICES ASSUME NEW o \in Conns
             PROVE  v.obj[o].refs = Cardinality(Users(v, o)) + Held(v.obj[o])
  BY DEF Exact
<1>1. /\ w.obj[o].refs = Cardinality(Users(w, o)) + Held(w.obj[o])
      /\ Held(v.obj[o]) \in Nat /\ Held(w.obj[o]) \in Nat
  BY DEF Exact, Held
<1>2. CASE o = to
  <2>1. /\ Cardinality(Users(w, o)) \in Nat
        /\ Cardinality(Users(v, o)) = Cardinality(Users(w, o)) + 1
    <3>1. w.conn[c].player # o
      BY <1>2
    <3>2. v.conn[c].player = o
      BY <1>2
    <3> QED  BY <3>1, <3>2, OneMoreUser
  <2> QED  BY <1>1, <1>2, <2>1
<1>3. CASE o = from
  <2>1. /\ Cardinality(Users(v, o)) \in Nat
        /\ Cardinality(Users(w, o)) = Cardinality(Users(v, o)) + 1
    <3>1. v.conn[c].player # o
      BY <1>3
    <3>2. w.conn[c].player = o
      BY <1>3
    <3>3. OthersStay(w, v, c)
      BY DEF OthersStay
    <3> QED  BY <3>1, <3>2, <3>3, OneMoreUser
  <2> QED  BY <1>1, <1>3, <2>1
<1>4. CASE o # to /\ o # from
  <2>1. Users(v, o) = Users(w, o)
    BY <1>4 DEF Users, OthersStay
  <2>2. Cardinality(Users(w, o)) \in Nat
    <3>1. Users(w, o) \in SUBSET Conns
      BY DEF Users
    <3> QED  BY <3>1, SessionAssumption, FS_Subset, FS_CardinalityType
  <2> QED  BY <1>1, <1>4, <2>1, <2>2
<1> QED  BY <1>2, <1>3, <1>4

\* What is counted is a number, and more than nothing while somebody points to a
\* player.
LEMMA CountsAreNumbers ==
  ASSUME NEW w, Exact(w)
  PROVE  /\ \A o \in Conns : w.obj[o].refs \in Nat
         /\ \A o \in Conns : w.obj[o].held => w.obj[o].refs > 0
         /\ \A c \in Conns : w.conn[c].player \in Conns => w.obj[w.conn[c].player].refs > 0
<1>1. ASSUME NEW o \in Conns
      PROVE  /\ IsFiniteSet(Users(w, o)) /\ Cardinality(Users(w, o)) \in Nat
             /\ Held(w.obj[o]) \in {0, 1} /\ (w.obj[o].held => Held(w.obj[o]) = 1)
             /\ w.obj[o].refs = Cardinality(Users(w, o)) + Held(w.obj[o])
  <2>1. Users(w, o) \in SUBSET Conns
    BY DEF Users
  <2>2. IsFiniteSet(Users(w, o)) /\ Cardinality(Users(w, o)) \in Nat
    BY <2>1, SessionAssumption, FS_Subset, FS_CardinalityType
  <2> QED  BY <2>2 DEF Exact, Held
<1>2. ASSUME NEW c \in Conns, w.conn[c].player \in Conns
      PROVE  w.obj[w.conn[c].player].refs > 0
  <2> DEFINE o == w.conn[c].player
  <2>1. c \in Users(w, o)
    BY DEF Users
  <2>2. Cardinality(Users(w, o)) # 0
    BY <2>1, <1>1, <1>2, FS_EmptySet
  <2> HIDE DEF o
  <2>3. o \in Conns
    BY <1>2 DEF o
  <2>4. w.obj[o].refs > 0
    BY <1>1, <2>2, <2>3
  <2> QED  BY <2>4 DEF o
<1> QED  BY <1>1, <1>2

-----------------------------------------------------------------------------
(* What the methods do to the references                                     *)

LEMMA DisconnectRefs ==
  ASSUME NEW w \in Worlds, NEW C \in SUBSET Conns
  PROVE  LET v == Disconnect(w, C)
         IN  v \in Worlds /\ v.obj = w.obj /\ SameRefs(v, w)
<1> DEFINE open == {c \in C : w.conn[c].net = "open"}
           s == SetToSeq([op : {"release"}, of : open])
           v == Disconnect(w, C)
<1>1. s \in Seq(Tasks)
  BY ReleaseTasks
<1>2. w.tasks \in Seq(Tasks) /\ w.conn \in [Conns -> ConnSet]
  BY DEF Worlds
<1>3. v = [w EXCEPT
            !.conn = [c \in Conns |-> [w.conn[c] EXCEPT !.net = IF c \in open THEN "closed" ELSE w.conn[c].net]],
            !.tasks = w.tasks \o s]
  BY DEF Disconnect
<1> HIDE DEF s, v, open
<1>4. /\ v.tasks = w.tasks \o s /\ v.obj = w.obj /\ v.autosend = w.autosend
      /\ v.flushes = w.flushes
      /\ v.conn = [c \in Conns |-> [w.conn[c] EXCEPT !.net = IF c \in open THEN "closed" ELSE w.conn[c].net]]
  BY <1>2, <1>3 DEF Worlds
<1>5. ASSUME NEW c \in Conns
      PROVE  v.conn[c].player = w.conn[c].player /\ v.conn[c] \in ConnSet
  <2>1. w.conn[c] \in ConnSet
    BY <1>2
  <2>2. v.conn[c] = [w.conn[c] EXCEPT !.net = IF c \in open THEN "closed" ELSE w.conn[c].net]
    BY <1>4
  <2> QED  BY <2>1, <2>2 DEF ConnSet
<1>6. v.conn \in [Conns -> ConnSet] /\ v.tasks \in Seq(Tasks)
  BY <1>1, <1>2, <1>4, <1>5, ConcatTasks
<1>7. v \in Worlds
  BY <1>3, <1>4, <1>6 DEF Worlds
<1>8. SameRefs(v, w)
  BY <1>4, <1>5 DEF SameRefs
<1> QED  BY <1>4, <1>7, <1>8 DEF v

LEMMA ClearRefs ==
  ASSUME NEW w \in Worlds, NEW o \in Conns, NEW full \in BOOLEAN
  PROVE  LET v == Clear(w, o, full)
         IN  /\ v \in Worlds /\ SameRefs(v, w)
             /\ \A p \in Conns : v.obj[p].life = w.obj[p].life
<1> DEFINE x == [w.obj[o] EXCEPT !.watchers = {}, !.cast = @ /\ ~full]
           u == [w EXCEPT !.obj[o].watchers = Cleared(w, o), !.obj[o].cast = @ /\ ~full]
           v == Clear(w, o, full)
<1>1. w.obj[o] \in ObjSet
  BY DEF Worlds
<1>2. /\ x \in ObjSet /\ x.refs = w.obj[o].refs /\ x.held = w.obj[o].held
      /\ x.life = w.obj[o].life
  BY <1>1 DEF ObjSet
<1>3. v = Disconnect(u, w.obj[o].watchers) /\ w.obj[o].watchers \in SUBSET Conns
  BY <1>1 DEF Clear, ObjSet
<1>7. u = [w EXCEPT !.obj[o] = x]
  BY <1>1 DEF Worlds, Cleared
<1> HIDE DEF x, u
<1>4. /\ u \in Worlds /\ u.conn = w.conn
      /\ \A p \in Conns : u.obj[p] = IF p = o THEN x ELSE w.obj[p]
  BY <1>2, <1>7 DEF Worlds
<1> HIDE DEF u, v
<1>5. v \in Worlds /\ v.obj = u.obj /\ SameRefs(v, u)
  BY <1>3, <1>4, DisconnectRefs
<1>6. SameRefs(u, w) /\ \A p \in Conns : u.obj[p].life = w.obj[p].life
  BY <1>2, <1>4 DEF SameRefs, Gone
<1> QED  BY <1>5, <1>6, SameRefsTwice DEF v

LEMMA RemoveCreatureRefs ==
  ASSUME NEW w \in Worlds, NEW o \in Conns, w.obj[o].life = "game"
  PROVE  RemoveCreature(w, o) \in Worlds /\ SameRefs(RemoveCreature(w, o), w)
<1> DEFINE u == Clear(w, o, TRUE)
           x == [u.obj[o] EXCEPT !.life = "removed"]
           v == RemoveCreature(w, o)
<1>1. u \in Worlds /\ SameRefs(u, w) /\ u.obj[o].life = "game"
  BY ClearRefs
<1>2. v = [u EXCEPT !.obj[o] = x]
  BY DEF RemoveCreature
<1> HIDE DEF u, v
<1>3. /\ x \in ObjSet /\ x.refs = u.obj[o].refs /\ x.held = u.obj[o].held
      /\ x.life = "removed"
  <2>1. u.obj[o] \in ObjSet
    BY <1>1 DEF Worlds
  <2> QED  BY <2>1 DEF ObjSet
<1> HIDE DEF x
<1>4. /\ v \in Worlds /\ v.conn = u.conn
      /\ \A p \in Conns : v.obj[p] = IF p = o THEN x ELSE u.obj[p]
  BY <1>1, <1>2, <1>3 DEF Worlds
<1>5. SameRefs(v, u)
  BY <1>1, <1>3, <1>4 DEF SameRefs, Gone
<1> QED  BY <1>1, <1>4, <1>5, SameRefsTwice DEF v

LEMMA LoggedOutRefs ==
  ASSUME NEW w \in Worlds, NEW c \in Conns, w.conn[c].player \in Conns
  PROVE  SameRefs(LoggedOut(w, c), w)
<1> DEFINE o == w.conn[c].player
           u == Clear(w, o, TRUE)
           v == Disconnect(u, {c})
<1>1. o \in Conns
  OBVIOUS
<1>2. LoggedOut(w, c) = IF w.obj[o].life = "game" THEN RemoveCreature(v, o) ELSE v
  BY DEF LoggedOut
<1> HIDE DEF o
<1>3. u \in Worlds /\ SameRefs(u, w) /\ u.obj[o].life = w.obj[o].life
  BY <1>1, ClearRefs
<1> HIDE DEF u
<1>4. v \in Worlds /\ v.obj = u.obj /\ SameRefs(v, u)
  BY <1>3, DisconnectRefs
<1> HIDE DEF v
<1>5. w.obj[o].life = "game" => SameRefs(RemoveCreature(v, o), v)
  BY <1>1, <1>3, <1>4, RemoveCreatureRefs
<1> QED  BY <1>2, <1>3, <1>4, <1>5, SameRefsTwice

LEMMA AddToAutosendRefs ==
  ASSUME NEW w \in Worlds, NEW c \in Conns
  PROVE  LET v == AddToAutosend(w, c)
         IN  v \in Worlds /\ v.conn = w.conn /\ v.obj = w.obj /\ SameRefs(v, w)
<1> DEFINE v == AddToAutosend(w, c)
<1>1. StartsFlush(w) \in Nat
  BY DEF StartsFlush, Worlds
<1>2. v \in Worlds /\ v.conn = w.conn /\ v.obj = w.obj
  BY <1>1 DEF AddToAutosend, Worlds
<1> HIDE DEF v
<1>3. SameRefs(v, w)
  BY <1>2 DEF SameRefs
<1> QED  BY <1>2, <1>3 DEF v

LEMMA AddRefIs ==
  ASSUME NEW w \in Worlds, NEW o \in Conns
  PROVE  LET v == AddRef(w, o)
         IN  /\ v \in Worlds /\ v.conn = w.conn
             /\ \A p \in Conns \ {o} : v.obj[p] = w.obj[p]
             /\ v.obj[o].refs = w.obj[o].refs + 1 /\ v.obj[o].held = w.obj[o].held
             /\ v.obj[o].life = w.obj[o].life
<1> DEFINE x == [w.obj[o] EXCEPT !.refs = @ + 1]
           v == AddRef(w, o)
<1>1. w.obj[o] \in ObjSet /\ v = [w EXCEPT !.obj[o] = x]
  BY DEF Worlds, AddRef
<1>2. /\ x \in ObjSet /\ x.refs = w.obj[o].refs + 1 /\ x.held = w.obj[o].held
      /\ x.life = w.obj[o].life
  BY <1>1 DEF ObjSet
<1> HIDE DEF x, v
<1>3. v \in Worlds /\ v.conn = w.conn /\ \A p \in Conns : v.obj[p] = IF p = o THEN x ELSE w.obj[p]
  BY <1>1, <1>2 DEF Worlds
<1> QED  BY <1>2, <1>3 DEF v

LEMMA UnRefIs ==
  ASSUME NEW w \in Worlds, NEW o \in Conns
  PROVE  LET v == UnRef(w, o)
         IN  /\ v \in Worlds /\ v.conn = w.conn
             /\ \A p \in Conns \ {o} : v.obj[p] = w.obj[p]
             /\ v.obj[o].refs = w.obj[o].refs - 1 /\ v.obj[o].held = w.obj[o].held
             /\ v.obj[o].life = IF w.obj[o].refs = 1 THEN "deleted" ELSE w.obj[o].life
<1> DEFINE life == IF w.obj[o].refs = 1 THEN "deleted" ELSE w.obj[o].life
           x == [w.obj[o] EXCEPT !.refs = @ - 1, !.life = life]
           v == UnRef(w, o)
<1>1. w.obj[o] \in ObjSet /\ v = [w EXCEPT !.obj[o] = x]
  BY DEF Worlds, UnRef
<1>4. life \in {"none", "loaded", "game", "removed", "deleted"}
  BY <1>1 DEF ObjSet
<1> HIDE DEF life
<1>2. /\ x \in ObjSet /\ x.refs = w.obj[o].refs - 1 /\ x.held = w.obj[o].held
      /\ x.life = life
  <2>1. w.obj[o].refs - 1 \in Int
    BY <1>1 DEF ObjSet
  <2>2. x \in ObjSet
    BY <1>1, <1>4, <2>1 DEF ObjSet
  <2> QED  BY <1>1, <2>2 DEF ObjSet
<1> HIDE DEF x, v
<1>3. v \in Worlds /\ v.conn = w.conn /\ \A p \in Conns : v.obj[p] = IF p = o THEN x ELSE w.obj[p]
  BY <1>1, <1>2 DEF Worlds
<1> QED  BY <1>2, <1>3 DEF v, life

-----------------------------------------------------------------------------
(* What the actions do to the references: most leave them alone              *)

LEMMA NextSame ==
  ASSUME Exact(World), NEW w, Becomes(w), SameRefs(w, World)
  PROVE  Exact(World)'
BY SameRefsExact, NextExact

LEMMA ConnSame ==
  ASSUME NEW w \in Worlds, NEW c \in Conns, NEW y \in ConnSet, y.player = w.conn[c].player
  PROVE  LET v == [w EXCEPT !.conn[c] = y]
         IN  v \in Worlds /\ SameRefs(v, w)
<1> DEFINE v == [w EXCEPT !.conn[c] = y]
<1>1. /\ v \in Worlds /\ v.conn[c] = y /\ v.obj = w.obj
      /\ \A d \in Conns \ {c} : v.conn[d] = w.conn[d]
  BY EditedConn
<1> HIDE DEF v
<1>2. SameRefs(v, w)
  BY <1>1 DEF SameRefs
<1> QED  BY <1>1, <1>2 DEF v

LEMMA RestSame ==
  ASSUME Good(World), NEW c \in Conns, NEW op, AtHead(op, c)
  PROVE  /\ Rest \in Worlds /\ Rest.conn = conn /\ Rest.obj = obj /\ SameRefs(Rest, World)
         /\ op \in {"login", "spectate"} => Head(tasks) \in Requests /\ Fresh(World, c)
         /\ op = "turn" => conn[c].player # NULL /\ conn[c].spectator
<1>1. /\ Good(Rest) /\ Rest.conn = conn /\ Rest.obj = obj
      /\ op \in {"login", "spectate"} => Head(tasks) \in Requests /\ Fresh(World, c)
      /\ op = "turn" => conn[c].player # NULL /\ conn[c].spectator
  BY RestGood
<1> HIDE DEF Rest
<1>2. SameRefs(Rest, World)
  BY <1>1, WorldIs DEF SameRefs
<1> QED  BY <1>1, <1>2 DEF Good

LEMMA DisconnectExact ==
  ASSUME Exact(World), NEW w \in Worlds, SameRefs(w, World), NEW C \in SUBSET Conns,
         Becomes(Disconnect(w, C))
  PROVE  Exact(World)'
<1>1. SameRefs(Disconnect(w, C), World)
  BY DisconnectRefs, SameRefsTwice
<1> QED  BY <1>1, NextSame

\* Nothing but the connections changes, and no protocol changes its player.
LEMMA QuietExact ==
  ASSUME Exact(World), obj' = obj, \A c \in Conns : conn'[c].player = conn[c].player
  PROVE  Exact(World)'
<1>1. SameRefs(World', World)
  BY DEF SameRefs, World
<1> QED  BY <1>1, SameRefsExact

LEMMA FirstMessageExact ==
  ASSUME Good(World), Exact(World), NEW c \in Conns, FirstMessage(c)
  PROVE  Exact(World)'
<1> DEFINE y == [conn[c] EXCEPT !.asked = TRUE]
           w == [World EXCEPT !.conn[c] = y]
<1>1. World \in Worlds /\ conn[c] \in ConnSet
  BY WorldIs DEF Good, Worlds
<1>2. y \in ConnSet /\ y.player = World.conn[c].player
  BY <1>1, WorldIs DEF ConnSet
<1>3. w = [World EXCEPT !.conn[c].asked = TRUE]
  BY DEF World
<1> HIDE DEF y
<1>4. w \in Worlds /\ SameRefs(w, World)
  BY <1>1, <1>2, ConnSame
<1> HIDE DEF w
<1>5. CASE Becomes(Disconnect(w, {c}))
  BY <1>4, <1>5, DisconnectExact
<1>6. ASSUME NEW r \in Requests, Becomes([w EXCEPT !.tasks = Append(@, r)])
      PROVE  Exact(World)'
  <2>1. /\ [w EXCEPT !.tasks = Append(@, r)].conn = w.conn
        /\ [w EXCEPT !.tasks = Append(@, r)].obj = w.obj
    BY <1>4 DEF Worlds
  <2>2. SameRefs([w EXCEPT !.tasks = Append(@, r)], World)
    BY <1>4, <2>1 DEF SameRefs
  <2> QED  BY <1>6, <2>2, NextSame
<1> QED  BY <1>3, <1>5, <1>6 DEF FirstMessage

LEMMA NetworkExact ==
  ASSUME Good(World), Exact(World), NEW c \in Conns,
         Accept(c) \/ FirstMessage(c) \/ Packet(c) \/ BreakOff(c) \/ Expire(c)
  PROVE  Exact(World)'
<1>1. World \in Worlds /\ conn \in [Conns -> ConnSet] /\ SameRefs(World, World)
  BY WorldIs DEF Good, Worlds, SameRefs
<1>2. CASE Accept(c)
  <2>1. ASSUME NEW d \in Conns PROVE conn'[d].player = conn[d].player
    BY <1>1, <1>2 DEF Accept, ConnSet
  <2> QED  BY <1>2, <2>1, QuietExact DEF Accept
<1>3. CASE Expire(c)
  <2>1. ASSUME NEW d \in Conns PROVE conn'[d].player = conn[d].player
    BY <1>1, <1>3 DEF Expire, ConnSet
  <2> QED  BY <1>3, <2>1, QuietExact DEF Expire
<1>4. CASE Packet(c)
  BY <1>4, QuietExact DEF Packet
<1>5. CASE BreakOff(c)
  BY <1>1, <1>5, DisconnectExact DEF BreakOff
<1>6. CASE FirstMessage(c)
  BY <1>6, FirstMessageExact
<1> QED  BY <1>2, <1>3, <1>4, <1>5, <1>6

LEMMA LogoutExact ==
  ASSUME Good(World), Exact(World), NEW c \in Conns, Logout(c) \/ Leave(c)
  PROVE  Exact(World)'
<1>1. CASE Leave(c)
  <2>1. Rest \in Worlds /\ SameRefs(Rest, World)
    BY <1>1, RestSame DEF Leave
  <2> QED  BY <1>1, <2>1, DisconnectExact DEF Leave
<1>2. CASE Logout(c)
  <2>1. Rest \in Worlds /\ Rest.conn = conn /\ SameRefs(Rest, World)
    BY <1>2, RestSame DEF Logout
  <2>2. CASE Becomes(Rest)
    BY <2>1, <2>2, NextSame
  <2>3. CASE conn[c].player # NULL /\ Becomes(LoggedOut(Rest, c))
    <3>1. conn[c] \in ConnSet
      BY WorldIs DEF Good, Worlds
    <3>2. Rest.conn[c].player \in Conns
      BY <2>1, <2>3, <3>1 DEF ConnSet
    <3>3. SameRefs(LoggedOut(Rest, c), Rest)
      BY <2>1, <3>2, LoggedOutRefs
    <3>4. SameRefs(LoggedOut(Rest, c), World)
      BY <2>1, <3>3, SameRefsTwice
    <3> QED  BY <2>3, <3>4, NextSame
  <2> QED  BY <1>2, <2>2, <2>3 DEF Logout
<1> QED  BY <1>1, <1>2

LEMMA KickExact ==
  ASSUME Good(World), Exact(World), NEW o \in Conns, KickAbsent(o) \/ Kick(o) \/ Die(o)
  PROVE  Exact(World)'
<1>1. World \in Worlds /\ obj[o] \in ObjSet /\ obj[o].life = "game"
  BY WorldIs DEF Good, Worlds, KickAbsent, Kick, Die
<1>2. SameRefs(RemoveCreature(World, o), World)
  BY <1>1, WorldIs, RemoveCreatureRefs
<1>3. CASE Becomes(RemoveCreature(World, o))
  BY <1>2, <1>3, NextSame
<1>4. CASE obj[o].owner # NULL /\ Becomes(LoggedOut(World, obj[o].owner))
  <2>1. obj[o].owner \in Conns
    BY <1>1, <1>4 DEF ObjSet
  <2>2. conn[obj[o].owner].player = o
    BY <1>4, WorldIs DEF Good, Played
  <2>3. SameRefs(LoggedOut(World, obj[o].owner), World)
    BY <1>1, <2>1, <2>2, WorldIs, LoggedOutRefs
  <2> QED  BY <1>4, <2>3, NextSame
<1> QED  BY <1>3, <1>4 DEF KickAbsent, Kick, Die

LEMMA SetCastExact ==
  ASSUME Good(World), Exact(World), NEW o \in Conns, SetCast(o)
  PROVE  Exact(World)'
<1>1. PICK on \in BOOLEAN, newPassword \in BOOLEAN :
        LET w == IF newPassword \/ (~on /\ obj[o].cast) THEN Clear(World, o, FALSE) ELSE World
        IN  \E kicked \in SUBSET w.obj[o].watchers :
              Becomes([Disconnect(w, kicked) EXCEPT !.obj[o].cast = on])
  BY DEF SetCast
<1> DEFINE w == IF newPassword \/ (~on /\ obj[o].cast) THEN Clear(World, o, FALSE) ELSE World
<1>2. World \in Worlds /\ SameRefs(World, World)
  BY DEF Good, SameRefs
<1>3. Clear(World, o, FALSE) \in Worlds /\ SameRefs(Clear(World, o, FALSE), World)
  BY <1>2, ClearRefs
<1>4. w \in Worlds /\ SameRefs(w, World)
  BY <1>2, <1>3
<1>5. PICK kicked \in SUBSET w.obj[o].watchers :
        Becomes([Disconnect(w, kicked) EXCEPT !.obj[o].cast = on])
  BY <1>1
<1> HIDE DEF w
<1>6. w.obj[o] \in ObjSet
  BY <1>4 DEF Worlds
<1>7. kicked \in SUBSET Conns
  BY <1>5, <1>6 DEF ObjSet
<1> DEFINE u == Disconnect(w, kicked)
           x == [u.obj[o] EXCEPT !.cast = on]
           v == [u EXCEPT !.obj[o] = x]
<1>8. u \in Worlds /\ SameRefs(u, w)
  BY <1>4, <1>7, DisconnectRefs
<1>9. Becomes(v)
  BY <1>5
<1> HIDE DEF u
<1>10. u.obj[o] \in ObjSet
  BY <1>8 DEF Worlds
<1>11. x.refs = u.obj[o].refs /\ x.held = u.obj[o].held /\ x.life = u.obj[o].life
  BY <1>10 DEF ObjSet
<1> HIDE DEF x
<1>12. v.conn = u.conn /\ \A p \in Conns : v.obj[p] = IF p = o THEN x ELSE u.obj[p]
  BY <1>8 DEF Worlds
<1> HIDE DEF v
<1>13. SameRefs(v, u)
  BY <1>11, <1>12 DEF SameRefs, Gone
<1>14. SameRefs(v, World)
  BY <1>4, <1>8, <1>13, SameRefsTwice
<1> QED  BY <1>9, <1>14, NextSame

\* Nothing of a player changes but who watches, owns or is connected to him.
SameCounts(x, y) == x.refs = y.refs /\ x.held = y.held /\ x.life = y.life

\* A protocol without a player comes to one, who has been told of it.
LEMMA Arrives ==
  ASSUME Exact(World), NEW v, NEW c \in Conns, NEW o \in Conns,
         conn[c].player = NULL, v.conn[c].player = o, OthersStay(v, World, c),
         ~Gone(obj[o]), ~Gone(v.obj[o]), v.obj[o].held = obj[o].held,
         v.obj[o].refs = obj[o].refs + 1,
         \A p \in Conns \ {o} : SameCounts(v.obj[p], obj[p])
  PROVE  Exact(v)
<1>1. \A p \in Conns : obj[p].refs \in Nat
  BY CountsAreNumbers, WorldIs
<1>2. \A p \in Conns : Held(obj[p]) \in {0, 1} /\ Held(v.obj[p]) = Held(obj[p])
  BY DEF Held, SameCounts
<1>3. \A p \in Conns : Gone(obj[p]) <=> obj[p].refs = 0
  BY WorldIs DEF Exact
<1>4. \A p \in Conns : Gone(v.obj[p]) <=> v.obj[p].refs = 0
  BY <1>1, <1>3 DEF Gone, SameCounts
<1>5. ASSUME NEW p \in Conns
      PROVE  /\ v.obj[p].refs \in Int /\ World.obj[p].refs \in Int
             /\ v.obj[p].refs - Held(v.obj[p]) =
                  World.obj[p].refs - Held(World.obj[p])
                    + (IF p = o THEN 1 ELSE 0) - (IF p = NULL THEN 1 ELSE 0)
             /\ Gone(v.obj[p]) <=> v.obj[p].refs = 0
  <2>1. v.obj[p].refs = obj[p].refs + (IF p = o THEN 1 ELSE 0) /\ p # NULL
    BY <1>1, SessionAssumption DEF SameCounts
  <2> QED  BY <1>1, <1>2, <1>4, <2>1, WorldIs
<1>6. World.conn[c].player = NULL /\ NULL # o
  BY WorldIs, SessionAssumption
<1> QED  BY <1>5, <1>6, UserMoves

LEMMA ConnectExact ==
  ASSUME Good(World), Exact(World), NEW c \in Conns, Connect(c)
  PROVE  Exact(World)'
<1> DEFINE o == conn[c].target
           y == [conn[c] EXCEPT !.attempt = "gave_up"]
           w == [World EXCEPT !.conn[c] = y]
           z == [conn[c] EXCEPT !.attempt = "done", !.player = o, !.accepts = TRUE,
                                !.late = conn[c].released]
           x == [obj[o] EXCEPT !.owner = c, !.connecting = FALSE]
           v == [World EXCEPT !.conn[c] = z, !.obj[o] = x]
<1>1. /\ conn[c].attempt = "due"
      /\ \/ Becomes(Disconnect(w, {c}))
         \/ obj[o].life = "game" /\ Becomes(AddRef(v, o))
         \/ Becomes(w)
  <2>1. w = [World EXCEPT !.conn[c].attempt = "gave_up"] /\ w.obj = obj
    BY DEF World
  <2>2. v = [World EXCEPT !.conn[c] = [@ EXCEPT !.attempt = "done", !.player = o,
                                             !.accepts = TRUE, !.late = conn[c].released],
                        !.obj[o] = Connected(World, c, o)]
    BY DEF World, Connected
  <2> HIDE DEF v, w
  <2>3. /\ conn[c].attempt = "due"
        /\ Becomes(IF ~MayConnect(w, o) THEN Disconnect(w, {c})
                   ELSE IF conn[c].linked THEN AddRef(v, o) ELSE w)
    BY <2>1, <2>2 DEF Connect
  <2> QED  BY <2>1, <2>3 DEF MayConnect
<1>2. /\ World \in Worlds /\ conn[c] \in ConnSet /\ o \in Conns /\ obj[o] \in ObjSet
      /\ conn[c].player = NULL /\ conn[c].released \in BOOLEAN
  BY <1>1, WorldIs DEF Good, Worlds, Queue, Roles, ConnSet
<1>3. y \in ConnSet /\ y.player = World.conn[c].player
  BY <1>2, WorldIs DEF ConnSet
<1>4. z \in ConnSet /\ z.player = o
  <2> DEFINE attempt == "done"
             accepts == TRUE
             late == conn[c].released
  <2>1. /\ attempt \in {"none", "due", "done", "gave_up"} /\ accepts \in BOOLEAN
        /\ late \in BOOLEAN
    BY <1>2
  <2> HIDE DEF attempt, accepts, late
  <2>2. [conn[c] EXCEPT !.attempt = attempt, !.player = o, !.accepts = accepts, !.late = late]
          \in ConnSet
    BY <1>2, <2>1 DEF ConnSet
  <2>3. z \in ConnSet
    BY <2>2 DEF attempt, accepts, late
  <2> QED  BY <1>2, <2>3 DEF ConnSet
<1>5. x \in ObjSet /\ SameCounts(x, obj[o])
  BY <1>2 DEF ObjSet, SameCounts
<1> HIDE DEF x, y, z, o
<1>6. w \in Worlds /\ SameRefs(w, World)
  BY <1>2, <1>3, ConnSame
<1>7. /\ v \in Worlds /\ v.conn[c] = z /\ v.obj[o] = x
      /\ \A d \in Conns \ {c} : v.conn[d] = World.conn[d]
      /\ \A p \in Conns \ {o} : v.obj[p] = World.obj[p]
  BY <1>2, <1>4, <1>5, WorldIs DEF Worlds
<1> HIDE DEF v, w
<1>8. CASE Becomes(Disconnect(w, {c}))
  BY <1>6, <1>8, DisconnectExact
<1>9. CASE Becomes(w)
  BY <1>6, <1>9, NextSame
<1>10. CASE obj[o].life = "game" /\ Becomes(AddRef(v, o))
  <2> DEFINE u == AddRef(v, o)
  <2>1. /\ u.conn = v.conn /\ \A p \in Conns \ {o} : u.obj[p] = v.obj[p]
        /\ u.obj[o].refs = v.obj[o].refs + 1 /\ u.obj[o].held = v.obj[o].held
        /\ u.obj[o].life = v.obj[o].life
    BY <1>2, <1>7, AddRefIs
  <2> HIDE DEF u
  <2>2. /\ u.conn[c].player = o /\ OthersStay(u, World, c)
        /\ ~Gone(obj[o]) /\ ~Gone(u.obj[o]) /\ u.obj[o].held = obj[o].held
        /\ u.obj[o].refs = obj[o].refs + 1
        /\ \A p \in Conns \ {o} : SameCounts(u.obj[p], obj[p])
    BY <1>4, <1>5, <1>7, <1>10, <2>1, WorldIs DEF OthersStay, Gone, SameCounts
  <2>3. Exact(u)
    BY <1>2, <2>2, Arrives
  <2> QED  BY <1>10, <2>3, NextExact DEF u
<1> QED  BY <1>1, <1>8, <1>9, <1>10

LEMMA SpectateExact ==
  ASSUME Good(World), Exact(World), NEW c \in Conns, Spectate(c)
  PROVE  Exact(World)'
<1>4. AtHead("spectate", c)
  BY DEF Spectate
<1>1. /\ Rest \in Worlds /\ Rest.conn = conn /\ Rest.obj = obj /\ SameRefs(Rest, World)
      /\ conn[c].player = NULL /\ conn[c] \in ConnSet
  <2>1. Rest \in Worlds /\ Rest.conn = conn /\ Rest.obj = obj /\ SameRefs(Rest, World)
    BY <1>4, RestSame
  <2>2. conn[c].player = NULL
    BY <1>4, RestSame, WorldIs DEF Fresh
  <2>3. conn[c] \in ConnSet
    BY <2>1 DEF Worlds
  <2> QED  BY <2>1, <2>2, <2>3
<1>2. CASE Becomes(Disconnect(Rest, {c}))
  BY <1>1, <1>2, DisconnectExact
<1>3. ASSUME NEW o \in InGame(World, Head(tasks).name),
             Becomes(AddToAutosend(AddRef([Rest EXCEPT
               !.conn[c] = [@ EXCEPT !.player = o, !.spectator = TRUE, !.accepts = TRUE],
               !.obj[o].watchers = @ \cup {c}], o), c))
      PROVE  Exact(World)'
  <2> DEFINE y == [conn[c] EXCEPT !.player = o, !.spectator = TRUE, !.accepts = TRUE]
             x == [obj[o] EXCEPT !.watchers = @ \cup {c}]
             w == [Rest EXCEPT !.conn[c] = y, !.obj[o] = x]
  <2>1. o \in Conns /\ obj[o].life = "game" /\ obj[o] \in ObjSet
    BY <1>1, WorldIs DEF InGame, Worlds
  <2>2. y \in ConnSet /\ y.player = o
    <3> DEFINE spectator == TRUE
               accepts == TRUE
    <3>1. spectator \in BOOLEAN /\ accepts \in BOOLEAN
      OBVIOUS
    <3> HIDE DEF spectator, accepts
    <3>2. [conn[c] EXCEPT !.player = o, !.spectator = spectator, !.accepts = accepts] \in ConnSet
      BY <1>1, <2>1, <3>1, ZenonT(60) DEF ConnSet
    <3>3. y \in ConnSet
      BY <3>2 DEF spectator, accepts
    <3> QED  BY <1>1, <3>3 DEF ConnSet
  <2>3. x \in ObjSet /\ SameCounts(x, obj[o])
    BY <2>1 DEF ObjSet, SameCounts
  <2>4. Becomes(AddToAutosend(AddRef(w, o), c))
    BY <1>1, <1>3
  <2> HIDE DEF x, y
  <2>5. /\ w \in Worlds /\ w.conn[c] = y /\ w.obj[o] = x
        /\ \A d \in Conns \ {c} : w.conn[d] = conn[d]
        /\ \A p \in Conns \ {o} : w.obj[p] = obj[p]
    BY <1>1, <2>1, <2>2, <2>3 DEF Worlds
  <2> HIDE DEF w
  <2> DEFINE u == AddRef(w, o)
  <2>6. /\ u \in Worlds /\ u.conn = w.conn /\ \A p \in Conns \ {o} : u.obj[p] = w.obj[p]
        /\ u.obj[o].refs = w.obj[o].refs + 1 /\ u.obj[o].held = w.obj[o].held
        /\ u.obj[o].life = w.obj[o].life
    BY <2>1, <2>5, AddRefIs
  <2> HIDE DEF u
  <2>7. /\ u.conn[c].player = o /\ OthersStay(u, World, c)
        /\ ~Gone(obj[o]) /\ ~Gone(u.obj[o]) /\ u.obj[o].held = obj[o].held
        /\ u.obj[o].refs = obj[o].refs + 1
        /\ \A p \in Conns \ {o} : SameCounts(u.obj[p], obj[p])
    BY <2>1, <2>2, <2>3, <2>5, <2>6, WorldIs DEF OthersStay, Gone, SameCounts
  <2>8. Exact(u)
    BY <1>1, <2>1, <2>7, Arrives
  <2>9. Exact(AddToAutosend(u, c))
    BY <2>6, <2>8, AddToAutosendRefs, SameRefsExact
  <2> QED  BY <2>4, <2>9, NextExact DEF u
<1> QED  BY <1>2, <1>3 DEF Spectate

LEMMA LoginAgainExact ==
  ASSUME Good(World), Exact(World), NEW c \in Conns, LoginAgain(c)
  PROVE  Exact(World)'
<1>1. AtHead("login", c)
  BY DEF LoginAgain
<1>2. PICK o \in FoundPlayers(World, Head(tasks).name) :
        LET w == Disconnect(Rest, {obj[o].owner} \ {NULL})
        IN  Becomes(AddToAutosend([w EXCEPT !.obj[o].connecting = TRUE,
                                            !.conn[c].target = o,
                                            !.conn[c].attempt = "due"], c))
  BY DEF LoginAgain
<1>3. o \in Conns
  BY DEF FoundPlayers, InGame
<1> DEFINE C == {obj[o].owner} \ {NULL}
           w == Disconnect(Rest, C)
           y == [w.conn[c] EXCEPT !.target = o, !.attempt = "due"]
           x == [w.obj[o] EXCEPT !.connecting = TRUE]
           v == [w EXCEPT !.conn[c] = y, !.obj[o] = x]
<1>4. Rest \in Worlds /\ Rest.obj = obj /\ SameRefs(Rest, World)
  BY <1>1, RestSame
<1>5. C \in SUBSET Conns
  BY <1>3, <1>4 DEF Worlds, ObjSet
<1>6. Becomes(AddToAutosend([w EXCEPT !.obj[o].connecting = TRUE, !.conn[c].target = o,
                                      !.conn[c].attempt = "due"], c))
  BY <1>2
<1> HIDE DEF C
<1>7. w \in Worlds /\ SameRefs(w, Rest)
  BY <1>4, <1>5, DisconnectRefs
<1> HIDE DEF w
<1>8. w.conn[c] \in ConnSet /\ w.obj[o] \in ObjSet
  BY <1>3, <1>7 DEF Worlds
<1>9. v = [w EXCEPT !.obj[o].connecting = TRUE, !.conn[c].target = o, !.conn[c].attempt = "due"]
  BY <1>7 DEF Worlds
<1>10. y \in ConnSet /\ y.player = w.conn[c].player
  BY <1>3, <1>8 DEF ConnSet
<1>11. x \in ObjSet /\ SameCounts(x, w.obj[o])
  BY <1>8 DEF ObjSet, SameCounts
<1> HIDE DEF x, y
<1>12. /\ v \in Worlds /\ v.conn[c] = y /\ v.obj[o] = x
       /\ \A d \in Conns \ {c} : v.conn[d] = w.conn[d]
       /\ \A p \in Conns \ {o} : v.obj[p] = w.obj[p]
  BY <1>3, <1>7, <1>10, <1>11 DEF Worlds
<1>13. Becomes(AddToAutosend(v, c))
  BY <1>6, <1>9
<1> HIDE DEF v
<1>14. SameRefs(v, w)
  BY <1>10, <1>11, <1>12 DEF SameRefs, SameCounts, Gone
<1>15. SameRefs(v, World)
  BY <1>4, <1>7, <1>14, SameRefsTwice
<1>16. SameRefs(AddToAutosend(v, c), World)
  BY <1>12, <1>15, AddToAutosendRefs, SameRefsTwice
<1> QED  BY <1>13, <1>16, NextSame

\* A player is created by the protocol that logs him in: with its reference, and
\* with that of the game if he is placed.
LEMMA BornExact ==
  ASSUME Good(World), Exact(World), NEW v, NEW c \in Conns,
         conn[c].player = NULL, obj[c].life = "none",
         v.conn[c].player = c, OthersStay(v, World, c),
         \/ v.obj[c].refs = 1 /\ v.obj[c].held = obj[c].held
         \/ v.obj[c].refs = 2 /\ v.obj[c].held,
         ~Gone(v.obj[c]),
         \A p \in Conns \ {c} : SameCounts(v.obj[p], obj[p])
  PROVE  Exact(v)
<1>1. /\ \A p \in Conns : obj[p].refs \in Nat
      /\ \A p \in Conns : obj[p].held => obj[p].refs > 0
  BY CountsAreNumbers, WorldIs
<1>2. \A p \in Conns : Gone(obj[p]) <=> obj[p].refs = 0
  BY WorldIs DEF Exact
<1>3. obj[c].refs = 0 /\ ~obj[c].held
  BY <1>1, <1>2 DEF Gone
<1>4. World.conn[c].player = NULL /\ NULL # c
  BY WorldIs, SessionAssumption
<1>5. ASSUME NEW p \in Conns
      PROVE  /\ v.obj[p].refs \in Int /\ World.obj[p].refs \in Int
             /\ v.obj[p].refs - Held(v.obj[p]) =
                  World.obj[p].refs - Held(World.obj[p])
                    + (IF p = c THEN 1 ELSE 0) - (IF p = NULL THEN 1 ELSE 0)
             /\ Gone(v.obj[p]) <=> v.obj[p].refs = 0
  <2>1. p # NULL
    BY SessionAssumption
  <2>2. CASE p = c
    <3>1. v.obj[c].refs - Held(v.obj[c]) = 1 /\ v.obj[c].refs \in Int /\ v.obj[c].refs # 0
      <4>1. CASE v.obj[c].refs = 1 /\ v.obj[c].held = obj[c].held
        <5>1. ~v.obj[c].held
          BY <1>3, <4>1
        <5>2. Held(v.obj[c]) = 0
          BY <5>1 DEF Held
        <5> QED  BY <4>1, <5>2
      <4>2. CASE v.obj[c].refs = 2 /\ v.obj[c].held
        <5>1. Held(v.obj[c]) = 1
          BY <4>2 DEF Held
        <5> QED  BY <4>2, <5>1
      <4> QED  BY <4>1, <4>2
    <3>2. obj[c].refs - Held(obj[c]) = 0
      <4>1. Held(obj[c]) = 0
        BY <1>3 DEF Held
      <4> QED  BY <1>3, <4>1
    <3> QED  BY <1>1, <2>1, <2>2, <3>1, <3>2, WorldIs
  <2>3. CASE p # c
    <3>1. SameCounts(v.obj[p], obj[p])
      BY <2>3
    <3>2. v.obj[p].refs = obj[p].refs /\ Held(v.obj[p]) = Held(obj[p]) /\ Held(obj[p]) \in {0, 1}
      BY <3>1 DEF SameCounts, Held
    <3>3. Gone(v.obj[p]) <=> v.obj[p].refs = 0
      BY <1>2, <3>1 DEF SameCounts, Gone
    <3> QED  BY <1>1, <2>1, <2>3, <3>2, <3>3, WorldIs
  <2> QED  BY <2>2, <2>3
<1> QED  BY <1>4, <1>5, UserMoves

LEMMA LoginNewExact ==
  ASSUME Good(World), Exact(World), NEW c \in Conns, LoginNew(c)
  PROVE  Exact(World)'
<1> DEFINE n == Head(tasks).name
           y == [conn[c] EXCEPT !.player = c]
           z == [y EXCEPT !.accepts = TRUE]
           x == [obj[c] EXCEPT !.name = n, !.life = "loaded", !.refs = 1, !.owner = c]
           q == [x EXCEPT !.life = "game", !.refs = 2, !.held = TRUE]
           w == [Rest EXCEPT !.conn[c] = y, !.obj[c] = x]
           p == [Rest EXCEPT !.conn[c] = z, !.obj[c] = q]
           placed == AddToAutosend(p, c)
<1>1. AtHead("login", c)
  BY DEF LoginNew
<1>2. Rest \in Worlds /\ Rest.conn = conn /\ Rest.obj = obj
  BY <1>1, RestSame
<1>3. n \in Names /\ conn[c].player = NULL /\ obj[c].life = "none"
  BY <1>1, RestSame, WorldIs DEF Requests, Fresh
<1>4. conn[c] \in ConnSet /\ obj[c] \in ObjSet
  BY <1>2 DEF Worlds
<1>5. \/ Becomes(Disconnect(w, {c}))
      \/ Becomes(placed)
      \/ Becomes(LoggedOut(placed, c))
  <2> DEFINE v == [w EXCEPT !.obj[c] = [@ EXCEPT !.life = "game", !.refs = 2, !.held = TRUE]]
  <2>1. w = [Rest EXCEPT !.conn[c].player = c,
                         !.obj[c] = [@ EXCEPT !.name = Head(tasks).name, !.life = "loaded",
                                              !.refs = 1, !.owner = c]]
    BY <1>2 DEF Worlds
  <2> HIDE DEF x, n
  <2>2. p = [v EXCEPT !.conn[c].accepts = TRUE]
    BY <1>2, ZenonT(60) DEF Worlds
  <2> HIDE DEF w, p
  <2> QED  BY <2>1, <2>2 DEF LoginNew
<1> HIDE DEF n
<1>6. y \in ConnSet /\ y.player = c
  BY <1>4 DEF ConnSet
<1> HIDE DEF y
<1>7. z \in ConnSet /\ z.player = c
  BY <1>6 DEF ConnSet
<1>8. x \in ObjSet
  BY <1>3, <1>4, LoadedIs
<1>9. x.refs = 1 /\ x.held = obj[c].held /\ x.life = "loaded"
  BY <1>4 DEF ObjSet
<1> HIDE DEF x
<1>10. q \in ObjSet
  BY <1>8, PlacedIs
<1>11. q.refs = 2 /\ q.held /\ q.life = "game"
  BY <1>8 DEF ObjSet
<1> HIDE DEF q, z
<1>12. /\ w \in Worlds /\ w.conn[c] = y /\ w.obj[c] = x
       /\ \A d \in Conns \ {c} : w.conn[d] = conn[d] /\ w.obj[d] = obj[d]
  BY <1>2, <1>6, <1>8 DEF Worlds
<1>13. /\ p \in Worlds /\ p.conn[c] = z /\ p.obj[c] = q
       /\ \A d \in Conns \ {c} : p.conn[d] = conn[d] /\ p.obj[d] = obj[d]
  BY <1>2, <1>7, <1>10 DEF Worlds
<1> HIDE DEF w, p
<1>14. Exact(w)
  <2>1. /\ w.conn[c].player = c /\ OthersStay(w, World, c)
        /\ w.obj[c].refs = 1 /\ w.obj[c].held = obj[c].held /\ ~Gone(w.obj[c])
        /\ \A d \in Conns \ {c} : SameCounts(w.obj[d], obj[d])
    BY <1>6, <1>9, <1>12, WorldIs DEF OthersStay, Gone, SameCounts
  <2> QED  BY <1>3, <2>1, BornExact
<1>15. Exact(p)
  <2>1. /\ p.conn[c].player = c /\ OthersStay(p, World, c)
        /\ p.obj[c].refs = 2 /\ p.obj[c].held /\ ~Gone(p.obj[c])
        /\ \A d \in Conns \ {c} : SameCounts(p.obj[d], obj[d])
    BY <1>7, <1>11, <1>13, WorldIs DEF OthersStay, Gone, SameCounts
  <2> QED  BY <1>3, <2>1, BornExact
<1>16. /\ placed \in Worlds /\ SameRefs(placed, p) /\ placed.conn = p.conn
  BY <1>13, AddToAutosendRefs
<1> HIDE DEF placed
<1>17. Exact(placed)
  BY <1>15, <1>16, SameRefsExact
<1>18. Exact(LoggedOut(placed, c))
  <2>1. placed.conn[c].player \in Conns
    BY <1>7, <1>13, <1>16
  <2> QED  BY <1>16, <1>17, <2>1, LoggedOutRefs, SameRefsExact
<1>19. Exact(Disconnect(w, {c}))
  BY <1>12, <1>14, DisconnectRefs, SameRefsExact
<1> QED  BY <1>5, <1>17, <1>18, <1>19, NextExact

\* One reference is given back.
LEMMA UnRefCounts ==
  ASSUME NEW w \in Worlds, NEW o \in Conns, ~Gone(w.obj[o]), w.obj[o].refs > 0
  PROVE  LET v == UnRef(w, o)
         IN  /\ v \in Worlds /\ v.conn = w.conn
             /\ \A p \in Conns \ {o} : v.obj[p] = w.obj[p]
             /\ v.obj[o].refs = w.obj[o].refs - 1 /\ v.obj[o].held = w.obj[o].held
             /\ Gone(v.obj[o]) <=> v.obj[o].refs = 0
<1> DEFINE v == UnRef(w, o)
<1>1. /\ v \in Worlds /\ v.conn = w.conn
      /\ \A p \in Conns \ {o} : v.obj[p] = w.obj[p]
      /\ v.obj[o].refs = w.obj[o].refs - 1 /\ v.obj[o].held = w.obj[o].held
      /\ v.obj[o].life = IF w.obj[o].refs = 1 THEN "deleted" ELSE w.obj[o].life
  BY UnRefIs
<1>2. w.obj[o].refs \in Int
  BY DEF Worlds, ObjSet
<1> HIDE DEF v
<1>3. Gone(v.obj[o]) <=> v.obj[o].refs = 0
  BY <1>1, <1>2 DEF Gone
<1> QED  BY <1>1, <1>3 DEF v

\* A protocol leaves its player: with another one, or for good.
LEMMA Departs ==
  ASSUME Exact(World), NEW w \in Worlds, NEW c \in Conns, NEW o \in Conns,
         conn[c].player = o, w.conn[c].player = NULL, OthersStay(w, World, c),
         \A p \in Conns : SameCounts(w.obj[p], obj[p])
  PROVE  Exact(UnRef(w, o))
<1>1. /\ \A p \in Conns : obj[p].refs \in Nat
      /\ obj[o].refs > 0
      /\ \A p \in Conns : Gone(obj[p]) <=> obj[p].refs = 0
  BY CountsAreNumbers, WorldIs DEF Exact
<1> DEFINE v == UnRef(w, o)
<1>2. ~Gone(w.obj[o]) /\ w.obj[o].refs > 0
  BY <1>1 DEF SameCounts, Gone
<1>3. /\ v.conn = w.conn /\ \A p \in Conns \ {o} : v.obj[p] = w.obj[p]
      /\ v.obj[o].refs = w.obj[o].refs - 1 /\ v.obj[o].held = w.obj[o].held
      /\ Gone(v.obj[o]) <=> v.obj[o].refs = 0
  BY <1>2, UnRefCounts
<1> HIDE DEF v
<1>4. ASSUME NEW p \in Conns
      PROVE  /\ v.obj[p].refs \in Int /\ World.obj[p].refs \in Int
             /\ v.obj[p].refs - Held(v.obj[p]) =
                  World.obj[p].refs - Held(World.obj[p])
                    + (IF p = NULL THEN 1 ELSE 0) - (IF p = o THEN 1 ELSE 0)
             /\ Gone(v.obj[p]) <=> v.obj[p].refs = 0
  <2>1. p # NULL
    BY SessionAssumption
  <2>2. Held(v.obj[p]) = Held(obj[p]) /\ Held(obj[p]) \in {0, 1}
    BY <1>3 DEF Held, SameCounts
  <2>3. v.obj[p].refs = obj[p].refs - (IF p = o THEN 1 ELSE 0)
    BY <1>1, <1>3 DEF SameCounts
  <2>4. Gone(v.obj[p]) <=> v.obj[p].refs = 0
    BY <1>1, <1>3 DEF SameCounts, Gone
  <2> QED  BY <1>1, <2>1, <2>2, <2>3, <2>4, WorldIs
<1>5. /\ World.conn[c].player = o /\ NULL # o /\ v.conn[c].player = NULL
      /\ OthersStay(v, World, c)
  BY <1>3, WorldIs, SessionAssumption DEF OthersStay
<1>6. Exact(v)
  BY <1>4, <1>5, UserMoves
<1> QED  BY <1>6 DEF v

LEMMA ReleaseExact ==
  ASSUME Good(World), Exact(World), NEW c \in Conns, Release(c)
  PROVE  Exact(World)'
<1> DEFINE o == conn[c].player
           w == [Rest EXCEPT !.autosend = @ \ {c}, !.conn[c].released = TRUE]
           v == IF conn[c].spectator THEN Unwatch(w, c, o)
                ELSE [w EXCEPT !.obj[o].owner = DisownedBy(w, c, o)]
           u == [v EXCEPT !.conn[c].player = NULL]
           y == [conn[c] EXCEPT !.released = TRUE]
           z == [y EXCEPT !.player = NULL]
<1>1. AtHead("release", c) /\ Becomes(IF o = NULL THEN w ELSE UnRef(u, o))
  BY DEF Release
<1>2. Rest \in Worlds /\ Rest.conn = conn /\ Rest.obj = obj
  BY <1>1, RestSame
<1>3. conn[c] \in ConnSet
  BY <1>2 DEF Worlds
<1>4. y \in ConnSet /\ y.player = o
  BY <1>3 DEF ConnSet
<1>5. /\ w \in Worlds /\ w.conn[c] = y /\ w.obj = obj
      /\ \A d \in Conns \ {c} : w.conn[d] = conn[d]
  <2>1. /\ w.conn = [conn EXCEPT ![c] = y] /\ w.obj = obj /\ w.autosend = Rest.autosend \ {c}
        /\ w.tasks = Rest.tasks /\ w.flushes = Rest.flushes
    BY <1>2 DEF Worlds
  <2> HIDE DEF y
  <2>2. w.conn \in [Conns -> ConnSet] /\ w.conn[c] = y
        /\ \A d \in Conns \ {c} : w.conn[d] = conn[d]
    BY <1>2, <1>4, <2>1 DEF Worlds
  <2>3. w \in Worlds
    BY <1>2, <2>1, <2>2 DEF Worlds
  <2> QED  BY <2>1, <2>2, <2>3
<1> HIDE DEF w
<1>6. CASE o = NULL
  <2>1. SameRefs(w, World)
    BY <1>4, <1>5, WorldIs DEF SameRefs
  <2> QED  BY <1>1, <1>6, <2>1, NextSame
<1>7. CASE o # NULL
  <2>1. o \in Conns /\ obj[o] \in ObjSet
    BY <1>2, <1>3, <1>7 DEF ConnSet, Worlds
  <2>2. z \in ConnSet /\ z.player = NULL
    <3> HIDE DEF y
    <3> QED  BY <1>4 DEF ConnSet
  <2> DEFINE x == [obj[o] EXCEPT !.watchers = @ \ {c}]
             q == [obj[o] EXCEPT !.owner = DisownedBy(w, c, o)]
  <2>3. x \in ObjSet /\ SameCounts(x, obj[o])
    BY <2>1 DEF ObjSet, SameCounts
  <2>4. q \in ObjSet /\ SameCounts(q, obj[o])
    BY <1>5, <2>1 DEF ObjSet, DisownedBy, SameCounts
  <2>5. PICK r \in ObjSet : v = [w EXCEPT !.obj[o] = r] /\ SameCounts(r, obj[o])
    <3>1. CASE conn[c].spectator /\ obj[o].cast
      <4>1. v = [w EXCEPT !.obj[o] = x]
        BY <1>5, <3>1 DEF Unwatch
      <4> HIDE DEF v, x
      <4> QED  BY <2>3, <4>1
    <3>2. CASE conn[c].spectator /\ ~obj[o].cast
      <4>1. v = w /\ w = [w EXCEPT !.obj[o] = obj[o]]
        BY <1>5, <2>1, <3>2 DEF Unwatch, Worlds
      <4> HIDE DEF v
      <4> QED  BY <2>1, <4>1 DEF SameCounts
    <3>3. CASE ~conn[c].spectator
      <4>1. v = [w EXCEPT !.obj[o] = q]
        BY <1>5, <3>3
      <4> HIDE DEF v, q
      <4> QED  BY <2>4, <4>1
    <3> QED  BY <3>1, <3>2, <3>3
  <2> HIDE DEF v
  <2>6. /\ u \in Worlds /\ u.conn[c] = z /\ u.obj[o] = r
        /\ \A d \in Conns \ {c} : u.conn[d] = conn[d]
        /\ \A p \in Conns \ {o} : u.obj[p] = obj[p]
    <3>1. u = [w EXCEPT !.conn[c] = z, !.obj[o] = r]
      BY <1>5, <2>5 DEF Worlds
    <3> HIDE DEF u, z, o
    <3> QED  BY <1>5, <2>1, <2>2, <3>1 DEF Worlds
  <2> HIDE DEF u, z, x, q
  <2>7. \A p \in Conns : SameCounts(u.obj[p], obj[p])
    BY <2>5, <2>6 DEF SameCounts
  <2>8. u.conn[c].player = NULL /\ OthersStay(u, World, c)
    BY <2>2, <2>6, WorldIs DEF OthersStay
  <2>9. Exact(UnRef(u, o))
    BY <2>1, <2>6, <2>7, <2>8, Departs
  <2> QED  BY <1>1, <1>7, <2>9, NextExact
<1> QED  BY <1>6, <1>7

\* A spectator turns from one player to another.
LEMMA TurnExact ==
  ASSUME Good(World), Exact(World), NEW c \in Conns, Turn(c)
  PROVE  Exact(World)'
<1> DEFINE old == conn[c].player
           x == [obj[old] EXCEPT !.watchers = @ \ {c}]
           u == [Rest EXCEPT !.obj[old] = x]
           v == UnRef(u, old)
<1>1. AtHead("turn", c)
  BY DEF Turn
<1>2. Rest \in Worlds /\ Rest.conn = conn /\ Rest.obj = obj /\ SameRefs(Rest, World) /\ old # NULL
  BY <1>1, RestSame
<1>3. conn[c] \in ConnSet
  BY <1>2 DEF Worlds
<1>4. old \in Conns
  BY <1>2, <1>3 DEF ConnSet
<1>5. obj[old] \in ObjSet
  BY <1>2, <1>4 DEF Worlds
<1>6. \/ Becomes(Rest)
      \/ \E o \in Streams \ {old} :
           Becomes(AddRef([UnRef([Rest EXCEPT !.obj[old].watchers = @ \ {c}], old) EXCEPT
                             !.conn[c].player = o, !.obj[o].watchers = @ \cup {c}], o))
  BY DEF Turn
<1>7. u = [Rest EXCEPT !.obj[old].watchers = @ \ {c}]
  BY <1>2
<1>8. x \in ObjSet /\ SameCounts(x, obj[old])
  BY <1>5 DEF ObjSet, SameCounts
<1>9. conn[c].player = old
  OBVIOUS
<1> HIDE DEF x, old
<1>10. /\ u \in Worlds /\ u.conn = conn /\ u.obj[old] = x
       /\ \A p \in Conns \ {old} : u.obj[p] = obj[p]
  BY <1>2, <1>4, <1>8 DEF Worlds
<1> HIDE DEF u
<1>11. \A p \in Conns : SameCounts(u.obj[p], obj[p])
  BY <1>8, <1>10 DEF SameCounts
<1>12. /\ \A p \in Conns : obj[p].refs \in Nat
       /\ obj[old].refs > 0
       /\ \A p \in Conns : Gone(obj[p]) <=> obj[p].refs = 0
  BY <1>4, <1>9, CountsAreNumbers, WorldIs DEF Exact
<1>13. ~Gone(u.obj[old]) /\ u.obj[old].refs > 0
  BY <1>4, <1>11, <1>12 DEF SameCounts, Gone
<1>14. /\ v \in Worlds /\ v.conn = conn
       /\ \A p \in Conns \ {old} : v.obj[p] = u.obj[p]
       /\ v.obj[old].refs = u.obj[old].refs - 1 /\ v.obj[old].held = u.obj[old].held
       /\ Gone(v.obj[old]) <=> v.obj[old].refs = 0
  BY <1>4, <1>10, <1>13, UnRefCounts
<1>15. CASE Becomes(Rest)
  BY <1>2, <1>15, NextSame
<1>16. ASSUME NEW o \in Streams \ {old},
              Becomes(AddRef([v EXCEPT !.conn[c].player = o, !.obj[o].watchers = @ \cup {c}], o))
       PROVE  Exact(World)'
  <2> HIDE DEF v
  <2> DEFINE y == [v.conn[c] EXCEPT !.player = o]
             q == [v.obj[o] EXCEPT !.watchers = @ \cup {c}]
             t == [v EXCEPT !.conn[c] = y, !.obj[o] = q]
             a == AddRef(t, o)
  <2>1. o \in Conns /\ o # old /\ obj[o].life = "game"
    BY DEF Streams
  <2>2. v.conn[c] \in ConnSet /\ v.obj[o] \in ObjSet
    BY <1>14, <2>1 DEF Worlds
  <2>3. t = [v EXCEPT !.conn[c].player = o, !.obj[o].watchers = @ \cup {c}]
    BY <1>14
  <2>4. Becomes(a)
    BY <1>16, <2>3
  <2>5. y \in ConnSet /\ y.player = o
    BY <2>1, <2>2 DEF ConnSet
  <2>6. q \in ObjSet /\ SameCounts(q, v.obj[o])
    BY <2>2 DEF ObjSet, SameCounts
  <2> HIDE DEF y, q
  <2>7. /\ t \in Worlds /\ t.conn[c] = y /\ t.obj[o] = q
        /\ \A d \in Conns \ {c} : t.conn[d] = conn[d]
        /\ \A p \in Conns \ {o} : t.obj[p] = v.obj[p]
    BY <1>14, <2>1, <2>5, <2>6 DEF Worlds
  <2> HIDE DEF t
  <2>8. /\ a.conn = t.conn /\ \A p \in Conns \ {o} : a.obj[p] = t.obj[p]
        /\ a.obj[o].refs = t.obj[o].refs + 1 /\ a.obj[o].held = t.obj[o].held
        /\ a.obj[o].life = t.obj[o].life
    BY <2>1, <2>7, AddRefIs
  <2> HIDE DEF a
  <2>9. ASSUME NEW p \in Conns
        PROVE  /\ a.obj[p].refs \in Int /\ World.obj[p].refs \in Int
               /\ a.obj[p].refs - Held(a.obj[p]) =
                    World.obj[p].refs - Held(World.obj[p])
                      + (IF p = o THEN 1 ELSE 0) - (IF p = old THEN 1 ELSE 0)
               /\ Gone(a.obj[p]) <=> a.obj[p].refs = 0
    <3>1. CASE p = o
      <4>1. /\ a.obj[p].refs = obj[p].refs + 1 /\ a.obj[p].held = obj[p].held
            /\ a.obj[p].life = "game"
        BY <1>11, <1>14, <2>1, <2>6, <2>7, <2>8, <3>1 DEF SameCounts
      <4>2. Held(a.obj[p]) = Held(obj[p]) /\ Held(obj[p]) \in {0, 1} /\ ~Gone(a.obj[p])
        BY <4>1 DEF Held, Gone
      <4> QED  BY <1>12, <2>1, <3>1, <4>1, <4>2, WorldIs
    <3>2. CASE p = old
      <4>1. a.obj[p] = v.obj[p]
        BY <2>1, <2>7, <2>8, <3>2
      <4>2. /\ a.obj[p].refs = obj[p].refs - 1 /\ a.obj[p].held = obj[p].held
            /\ Gone(a.obj[p]) <=> a.obj[p].refs = 0
        BY <1>11, <1>14, <3>2, <4>1 DEF SameCounts
      <4>3. Held(a.obj[p]) = Held(obj[p]) /\ Held(obj[p]) \in {0, 1}
        BY <4>2 DEF Held
      <4>4. p # o /\ obj[p].refs \in Nat /\ World.obj[p] = obj[p]
        BY <1>12, <2>1, <3>2, WorldIs
      <4>5. a.obj[p].refs \in Int /\ World.obj[p].refs \in Int
        BY <4>2, <4>4
      <4>6. a.obj[p].refs - Held(a.obj[p]) = World.obj[p].refs - Held(World.obj[p]) + 0 - 1
        BY <4>2, <4>3, <4>4
      <4>7. (IF p = o THEN 1 ELSE 0) = 0 /\ (IF p = old THEN 1 ELSE 0) = 1
        BY <3>2, <4>4
      <4> QED  BY <4>2, <4>5, <4>6, <4>7
    <3>3. CASE p # o /\ p # old
      <4>1. SameCounts(a.obj[p], obj[p])
        BY <1>11, <1>14, <2>7, <2>8, <3>3
      <4>2. /\ a.obj[p].refs = obj[p].refs /\ Held(a.obj[p]) = Held(obj[p])
            /\ Held(obj[p]) \in {0, 1}
            /\ Gone(a.obj[p]) <=> Gone(obj[p])
        BY <4>1 DEF SameCounts, Held, Gone
      <4>3. /\ obj[p].refs \in Nat /\ World.obj[p] = obj[p]
            /\ Gone(a.obj[p]) <=> a.obj[p].refs = 0
        BY <1>12, <4>2, WorldIs
      <4>4. a.obj[p].refs \in Int /\ World.obj[p].refs \in Int
        BY <4>2, <4>3
      <4>5. a.obj[p].refs - Held(a.obj[p]) = World.obj[p].refs - Held(World.obj[p]) + 0 - 0
        BY <4>2, <4>3
      <4>6. (IF p = o THEN 1 ELSE 0) = 0 /\ (IF p = old THEN 1 ELSE 0) = 0
        BY <3>3
      <4> QED  BY <4>3, <4>4, <4>5, <4>6
    <3> QED  BY <3>1, <3>2, <3>3
  <2>10. /\ World.conn[c].player = old /\ a.conn[c].player = o /\ old # o
         /\ OthersStay(a, World, c)
    BY <1>9, <2>1, <2>5, <2>7, <2>8, WorldIs DEF OthersStay
  <2>11. Exact(a)
    BY <2>9, <2>10, UserMoves
  <2> QED  BY <2>4, <2>11, NextExact
<1> QED  BY <1>6, <1>7, <1>15, <1>16

LEMMA CleanupExact ==
  ASSUME Good(World), Exact(World), NEW o \in Conns, Cleanup(o)
  PROVE  Exact(World)'
<1> DEFINE held == FALSE
           x == [obj[o] EXCEPT !.held = held]
           w == [World EXCEPT !.obj[o] = x]
           v == UnRef(w, o)
<1>1. obj[o].life = "removed" /\ obj[o].held /\ held \in BOOLEAN /\ ~held
  BY DEF Cleanup
<1>2. World \in Worlds /\ obj[o] \in ObjSet
  BY WorldIs DEF Good, Worlds
<1>3. Becomes(v)
  <2>1. w = [World EXCEPT !.obj[o].held = FALSE]
    BY DEF World
  <2> QED  BY <2>1 DEF Cleanup
<1> HIDE DEF held
<1>4. x \in ObjSet /\ x.refs = obj[o].refs /\ x.life = "removed" /\ ~x.held
  BY <1>1, <1>2 DEF ObjSet
<1> HIDE DEF x
<1>5. /\ w \in Worlds /\ w.conn = conn /\ w.obj[o] = x
      /\ \A p \in Conns \ {o} : w.obj[p] = obj[p]
  BY <1>2, <1>4, WorldIs DEF Worlds
<1> HIDE DEF w
<1>6. /\ \A p \in Conns : obj[p].refs \in Nat
      /\ obj[o].refs > 0
      /\ \A p \in Conns : Gone(obj[p]) <=> obj[p].refs = 0
  BY <1>1, CountsAreNumbers, WorldIs DEF Exact
<1>7. ~Gone(w.obj[o]) /\ w.obj[o].refs > 0
  BY <1>4, <1>5, <1>6 DEF Gone
<1>8. /\ v.conn = conn
      /\ \A p \in Conns \ {o} : v.obj[p] = obj[p]
      /\ v.obj[o].refs = obj[o].refs - 1 /\ ~v.obj[o].held
      /\ Gone(v.obj[o]) <=> v.obj[o].refs = 0
  BY <1>4, <1>5, <1>7, UnRefCounts
<1> HIDE DEF v
<1>9. \A p \in Conns : Users(v, p) = Users(World, p)
  BY <1>8, WorldIs DEF Users
<1>10. ASSUME NEW p \in Conns
       PROVE  /\ v.obj[p].refs = Cardinality(Users(v, p)) + Held(v.obj[p])
              /\ Gone(v.obj[p]) <=> v.obj[p].refs = 0
  <2>1. obj[p].refs = Cardinality(Users(World, p)) + Held(obj[p])
    BY WorldIs DEF Exact
  <2>2. CASE p = o
    <3>1. Held(obj[o]) = 1 /\ Held(v.obj[o]) = 0
      BY <1>1, <1>8 DEF Held
    <3>2. Users(World, p) \in SUBSET Conns
      BY DEF Users
    <3>3. IsFiniteSet(Users(World, p))
      BY <3>2, SessionAssumption, FS_Subset
    <3>4. Cardinality(Users(World, p)) \in Nat
      BY <3>3, FS_CardinalityType
    <3> QED  BY <1>8, <1>9, <2>1, <2>2, <3>1, <3>4
  <2>3. CASE p # o
    BY <1>6, <1>8, <1>9, <2>1, <2>3
  <2> QED  BY <2>2, <2>3
<1>11. Exact(v)
  BY <1>10 DEF Exact
<1> QED  BY <1>3, <1>11, NextExact

LEMMA InitExact ==
  Init => Exact(World)
<1> SUFFICES ASSUME Init, NEW o \in Conns
             PROVE  /\ obj[o].refs = Cardinality(Users(World, o)) + Held(obj[o])
                    /\ Gone(obj[o]) <=> obj[o].refs = 0
  BY WorldIs DEF Exact
<1>1. /\ \A c \in Conns : conn[c].player = NULL
      /\ obj[o].refs = 0 /\ ~obj[o].held /\ obj[o].life = "none"
  BY DEF Init
<1>2. Users(World, o) = {}
  BY <1>1, WorldIs, SessionAssumption DEF Users
<1> QED  BY <1>1, <1>2, FS_EmptySet DEF Held, Gone

LEMMA ExactStep ==
  Good(World) /\ Exact(World) /\ [Next]_vars => Exact(World)'
<1> SUFFICES ASSUME Good(World), Exact(World), [Next]_vars PROVE Exact(World)'
  OBVIOUS
<1>1. CASE UNCHANGED <<conn, obj, tasks, autosend, flushes>>
  BY <1>1, QuietExact
<1>2. ASSUME NEW c \in Conns,
             Accept(c) \/ FirstMessage(c) \/ Packet(c) \/ BreakOff(c) \/ Expire(c)
      PROVE  Exact(World)'
  BY <1>2, NetworkExact
<1>3. ASSUME NEW c \in Conns,
             \/ LoginNew(c) \/ LoginAgain(c) \/ Spectate(c) \/ Turn(c)
             \/ Release(c) \/ Logout(c) \/ Leave(c)
      PROVE  Exact(World)'
  BY <1>3, LoginNewExact, LoginAgainExact, SpectateExact, TurnExact, ReleaseExact, LogoutExact
<1>4. ASSUME NEW c \in Conns, Connect(c)
      PROVE  Exact(World)'
  BY <1>4, ConnectExact
<1>5. ASSUME NEW o \in Conns,
             KickAbsent(o) \/ Kick(o) \/ Die(o) \/ SetCast(o) \/ Cleanup(o)
      PROVE  Exact(World)'
  BY <1>5, KickExact, SetCastExact, CleanupExact
<1>6. CASE SendAll
  BY <1>6, QuietExact DEF SendAll
<1>7. \/ Network \/ RunTask \/ (\E c \in Conns : Connect(c)) \/ Play \/ SendAll
      \/ UNCHANGED <<conn, obj, tasks, autosend, flushes>>
  BY DEF Next, Step, vars
<1> QED  BY <1>1, <1>2, <1>3, <1>4, <1>5, <1>6, <1>7 DEF Network, RunTask, Play

\* A player is deleted when, and only when, no protocol points to him and the
\* game has given him back (addRef and unRef in login, connect, spectate,
\* spectatorTurn, release, placeCreature and cleanup).
THEOREM ReferencesAreExact == Spec => []RefsAreExact
<1>1. Exact(World) => RefsAreExact
  <2> SUFFICES ASSUME Exact(World), NEW o \in Conns, obj[o].life # "none"
               PROVE  /\ obj[o].refs = Cardinality(Playing(o) \cup Watching(o))
                                         + (IF obj[o].held THEN 1 ELSE 0)
                      /\ obj[o].life = "deleted" <=> obj[o].refs = 0
    BY DEF RefsAreExact
  <2>1. Playing(o) \cup Watching(o) = Users(World, o)
    BY WorldIs DEF Playing, Watching, Users
  <2> QED  BY <2>1, WorldIs DEF Exact, Held, Gone
<1>2. Spec => [](Good(World) /\ Exact(World))
  <2>1. Init => Good(World) /\ Exact(World)
    BY InitGood, InitExact
  <2>2. Good(World) /\ Exact(World) /\ [Next]_vars => (Good(World) /\ Exact(World))'
    BY NextGood, ExactStep
  <2> QED  BY <2>1, <2>2, PTL DEF Spec
<1> QED  BY <1>1, <1>2, PTL

----------------------------------------------------------------------------
(* The waiting list: induction                                             *)

\* Every set of numbers has a least one.
LEMMA LeastNumber ==
  ASSUME NEW T \in SUBSET Nat, T # {}
  PROVE  \E x \in T : \A y \in T : x <= y
<1> DEFINE R == {ss \in Nat \X Nat : ss[1] < ss[2]}
<1>1. IsWellFoundedOn(R, Nat)
  BY NatLessThanWellFounded DEF OpToRel
<1>2. \E x \in T : \A y \in T : <<y, x>> \notin R
  <2> HIDE DEF R
  <2> QED BY <1>1, WFMin
<1>3. PICK x \in T : \A y \in T : <<y, x>> \notin R
  BY <1>2
<1>4. \A y \in T : ~(y < x)
  <2> SUFFICES ASSUME NEW y \in T, y < x PROVE FALSE
    OBVIOUS
  <2>1. <<y, x>> \in Nat \X Nat /\ <<y, x>>[1] = y /\ <<y, x>>[2] = x
    OBVIOUS
  <2> QED BY <2>1, <1>3
<1> QED BY <1>4

\* A set that holds 0 and is closed under successor holds every number.
LEMMA NatBySuccessor ==
  ASSUME NEW S, 0 \in S, \A n \in Nat : n \in S => n + 1 \in S
  PROVE  Nat \subseteq S
<1> DEFINE T == {n \in Nat : n \notin S}
<1>1. SUFFICES ASSUME T # {} PROVE FALSE
  OBVIOUS
<1>2. PICK x \in T : \A y \in T : x <= y
  BY <1>1, LeastNumber
<1>3. x # 0 /\ x - 1 \in Nat /\ x - 1 \in S
  BY <1>2
<1> QED BY <1>3

----------------------------------------------------------------------------
(* Valid                                                                   *)

Slots == [who : Players, premium : BOOLEAN, timeout : 0..27]

\* The equation of the recursive function in Valid, up to n.
Keeps(f, list, n) ==
  f = [i \in 0..n |->
         IF i = 0 THEN <<>>
         ELSE IF list[i].timeout > 0 THEN Append(f[i - 1], list[i]) ELSE f[i - 1]]

\* It has a solution.
LEMMA KeepsSolvable ==
  ASSUME NEW list, NEW n \in Nat
  PROVE  \E f : Keeps(f, list, n)
<1> DEFINE S == {k \in Nat : \E f : Keeps(f, list, k)}
<1>1. 0 \in S
  <2> DEFINE f == [i \in 0..0 |-> <<>>]
  <2>1. Keeps(f, list, 0)
    BY DEF Keeps
  <2> QED BY <2>1
<1>2. ASSUME NEW k \in Nat, k \in S PROVE k + 1 \in S
  <2>1. PICK f : Keeps(f, list, k)
    BY <1>2
  <2> DEFINE more == IF list[k + 1].timeout > 0 THEN Append(f[k], list[k + 1]) ELSE f[k]
             g == [i \in 0..(k + 1) |-> IF i = k + 1 THEN more ELSE f[i]]
  <2>2. \A i \in 0..k : f[i] = IF i = 0 THEN <<>>
                             ELSE IF list[i].timeout > 0 THEN Append(f[i - 1], list[i])
                             ELSE f[i - 1]
    BY <2>1 DEF Keeps
  <2>3. \A i \in 0..(k + 1) : g[i] = IF i = 0 THEN <<>>
                             ELSE IF list[i].timeout > 0 THEN Append(g[i - 1], list[i])
                             ELSE g[i - 1]
    <3> SUFFICES ASSUME NEW i \in 0..(k + 1)
                 PROVE  g[i] = IF i = 0 THEN <<>>
                             ELSE IF list[i].timeout > 0 THEN Append(g[i - 1], list[i])
                             ELSE g[i - 1]
      OBVIOUS
    <3>1. CASE i = k + 1
      BY <3>1
    <3>2. CASE i # k + 1
      <4>1. i \in 0..k /\ g[i] = f[i]
        BY <3>2
      <4>2. i # 0 => i - 1 \in 0..(k + 1) /\ i - 1 # k + 1 /\ g[i - 1] = f[i - 1]
        BY <4>1
      <4> HIDE DEF g
      <4> QED BY <4>1, <4>2, <2>2
    <3> QED BY <3>1, <3>2
  <2>4. Keeps(g, list, k + 1)
    BY <2>3 DEF Keeps
  <2> QED BY <2>4
<1>3. Nat \subseteq S
  <2> HIDE DEF S
  <2> QED BY <1>1, <1>2, NatBySuccessor
<1> QED BY <1>3

\* Valid is the end of a solution.
LEMMA ValidIs ==
  ASSUME NEW list \in Seq(Slots)
  PROVE  \E f : Keeps(f, list, Len(list)) /\ Valid(list) = f[Len(list)]
<1> DEFINE f == CHOOSE f : Keeps(f, list, Len(list))
<1>1. Keeps(f, list, Len(list))
  BY KeepsSolvable
<1>2. Valid(list) = f[Len(list)]
  BY DEF Valid, Keeps
<1> QED BY <1>1, <1>2

\* v has the places of list up to n whose time has not run out, and no others.
ValidPart(v, list, n) ==
  /\ v \in Seq(Slots)
  /\ \A j \in DOMAIN v : v[j].timeout > 0 /\ \E k \in 1..n : list[k] = v[j]
  /\ \A k \in 1..n : list[k].timeout > 0 => \E j \in DOMAIN v : v[j] = list[k]

\* No player has two places.
Single(list) == \A i, j \in DOMAIN list : list[i].who = list[j].who => i = j

LEMMA ValidPartGrows ==
  ASSUME NEW list \in Seq(Slots), NEW n \in Nat, n + 1 <= Len(list), NEW v,
         ValidPart(v, list, n), Single(list) => Single(v)
  PROVE  LET w == IF list[n + 1].timeout > 0 THEN Append(v, list[n + 1]) ELSE v
         IN  ValidPart(w, list, n + 1) /\ (Single(list) => Single(w))
<1> DEFINE e == list[n + 1]
           w == IF e.timeout > 0 THEN Append(v, e) ELSE v
<1>1. v \in Seq(Slots) /\ e \in Slots /\ n + 1 \in DOMAIN list
  BY DEF ValidPart
<1>2. 1..(n + 1) = 1..n \cup {n + 1}
  OBVIOUS
<1>3. CASE e.timeout > 0
  <2> DEFINE a == Append(v, e)
  <2>1. w = a
    BY <1>3
  <2>2. /\ a \in Seq(Slots) /\ Len(a) = Len(v) + 1
        /\ DOMAIN a = DOMAIN v \cup {Len(v) + 1}
        /\ \A j \in DOMAIN v : a[j] = v[j]
        /\ a[Len(v) + 1] = e
        /\ Len(v) + 1 \notin DOMAIN v
    BY <1>1
  <2> HIDE DEF a, e, w
  <2>3. \A j \in DOMAIN a : a[j].timeout > 0 /\ \E k \in 1..(n + 1) : list[k] = a[j]
    BY <2>2, <1>2, <1>3 DEF ValidPart, e
  <2>4. \A k \in 1..(n + 1) : list[k].timeout > 0 => \E j \in DOMAIN a : a[j] = list[k]
    BY <2>2, <1>2, <1>3 DEF ValidPart, e
  <2>5. ASSUME Single(list) PROVE Single(a)
    <3>1. \A j \in DOMAIN v : v[j].who # e.who
      <4> SUFFICES ASSUME NEW j \in DOMAIN v, v[j].who = e.who PROVE FALSE
        OBVIOUS
      <4>1. PICK k \in 1..n : list[k] = v[j]
        BY DEF ValidPart
      <4>2. k \in DOMAIN list /\ k # n + 1
        BY <1>1
      <4> QED BY <4>1, <4>2, <1>1, <2>5 DEF Single, e
    <3> QED BY <3>1, <2>2, <2>5 DEF Single
  <2> QED BY <2>1, <2>2, <2>3, <2>4, <2>5 DEF ValidPart, w, e
<1>4. CASE ~(e.timeout > 0)
  <2>1. w = v
    BY <1>4
  <2>2. ValidPart(v, list, n + 1)
    BY <1>2, <1>4 DEF ValidPart
  <2> QED BY <2>1, <2>2
<1> QED BY <1>3, <1>4

\* cleanup throws away the places whose time has run out, and no others.
LEMMA ValidKeeps ==
  ASSUME NEW list \in Seq(Slots)
  PROVE  ValidPart(Valid(list), list, Len(list)) /\ (Single(list) => Single(Valid(list)))
<1>1. PICK f : Keeps(f, list, Len(list)) /\ Valid(list) = f[Len(list)]
  BY ValidIs
<1> DEFINE S == {n \in Nat : n <= Len(list) =>
                    ValidPart(f[n], list, n) /\ (Single(list) => Single(f[n]))}
<1>2. \A i \in 0..Len(list) :
        f[i] = IF i = 0 THEN <<>>
               ELSE IF list[i].timeout > 0 THEN Append(f[i - 1], list[i]) ELSE f[i - 1]
  BY <1>1 DEF Keeps
<1>3. 0 \in S
  <2>1. f[0] = <<>>
    BY <1>2
  <2>2. ValidPart(<<>>, list, 0) /\ Single(<<>>)
    BY DEF ValidPart, Single
  <2> QED BY <2>1, <2>2
<1>4. ASSUME NEW n \in Nat, n \in S PROVE n + 1 \in S
  <2> SUFFICES ASSUME n + 1 <= Len(list)
               PROVE  ValidPart(f[n + 1], list, n + 1) /\ (Single(list) => Single(f[n + 1]))
    OBVIOUS
  <2>1. ValidPart(f[n], list, n) /\ (Single(list) => Single(f[n]))
    BY <1>4
  <2>2. f[n + 1] = IF list[n + 1].timeout > 0 THEN Append(f[n], list[n + 1]) ELSE f[n]
    <3>1. n + 1 \in 0..Len(list) /\ n + 1 # 0 /\ (n + 1) - 1 = n
      OBVIOUS
    <3> QED BY <3>1, <1>2
  <2> QED BY <2>1, <2>2, ValidPartGrows
<1>5. Len(list) \in S
  <2> HIDE DEF S
  <2> QED BY <1>3, <1>4, NatBySuccessor
<1> QED BY <1>5, <1>1

----------------------------------------------------------------------------
(* The other changes of the list                                           *)

\* A list element by element.
LEMMA RemoveAtIs ==
  ASSUME NEW list \in Seq(Slots), NEW i \in DOMAIN list
  PROVE  /\ RemoveAt(list, i) \in Seq(Slots)
         /\ DOMAIN RemoveAt(list, i) = 1..(Len(list) - 1)
         /\ \A j \in 1..(Len(list) - 1) :
              RemoveAt(list, i)[j] = IF j < i THEN list[j] ELSE list[j + 1]
<1> DEFINE front == SubSeq(list, 1, i - 1)
           back  == SubSeq(list, i + 1, Len(list))
<1>1. /\ front \in Seq(Slots) /\ Len(front) = i - 1
      /\ \A j \in 1..(i - 1) : front[j] = list[j]
  OBVIOUS
<1>2. /\ back \in Seq(Slots) /\ Len(back) = Len(list) - i
      /\ \A j \in 1..(Len(list) - i) : back[j] = list[i + j]
  OBVIOUS
<1>9. RemoveAt(list, i) = front \o back
  BY DEF RemoveAt
<1> HIDE DEF front, back
<1>3. /\ front \o back \in Seq(Slots) /\ Len(front \o back) = Len(list) - 1
      /\ \A j \in 1..(Len(list) - 1) :
           (front \o back)[j] = IF j < i THEN front[j] ELSE back[j - (i - 1)]
  BY <1>1, <1>2, SMTT(30)
<1>4. \A j \in 1..(Len(list) - 1) : (front \o back)[j] = IF j < i THEN list[j] ELSE list[j + 1]
  <2> SUFFICES ASSUME NEW j \in 1..(Len(list) - 1)
               PROVE  (front \o back)[j] = IF j < i THEN list[j] ELSE list[j + 1]
    OBVIOUS
  <2>1. CASE j < i
    BY <2>1, <1>1, <1>3
  <2>2. CASE ~(j < i)
    <3>1. j - (i - 1) \in 1..(Len(list) - i) /\ i + (j - (i - 1)) = j + 1
      BY <2>2
    <3> QED BY <3>1, <2>2, <1>2, <1>3
  <2> QED BY <2>1, <2>2
<1> QED BY <1>9, <1>3, <1>4

LEMMA InsertAtIs ==
  ASSUME NEW list \in Seq(Slots), NEW i \in 1..(Len(list) + 1), NEW e \in Slots
  PROVE  /\ InsertAt(list, i, e) \in Seq(Slots)
         /\ DOMAIN InsertAt(list, i, e) = 1..(Len(list) + 1)
         /\ \A j \in 1..(Len(list) + 1) :
              InsertAt(list, i, e)[j] =
                IF j < i THEN list[j] ELSE IF j = i THEN e ELSE list[j - 1]
<1> DEFINE front == SubSeq(list, 1, i - 1)
           back  == SubSeq(list, i, Len(list))
           fe    == front \o <<e>>
<1>1. /\ front \in Seq(Slots) /\ Len(front) = i - 1
      /\ \A j \in 1..(i - 1) : front[j] = list[j]
  OBVIOUS
<1>2. /\ back \in Seq(Slots) /\ Len(back) = Len(list) - i + 1
      /\ \A j \in 1..(Len(list) - i + 1) : back[j] = list[i + j - 1]
  OBVIOUS
<1>9. InsertAt(list, i, e) = fe \o back
  BY DEF InsertAt
<1> HIDE DEF front, back
<1>3. /\ fe \in Seq(Slots) /\ Len(fe) = i
      /\ \A j \in 1..i : fe[j] = IF j < i THEN list[j] ELSE e
  BY <1>1
<1> HIDE DEF fe
<1>4. /\ fe \o back \in Seq(Slots) /\ Len(fe \o back) = Len(list) + 1
      /\ \A j \in 1..(Len(list) + 1) :
           (fe \o back)[j] = IF j <= i THEN fe[j] ELSE back[j - i]
  <2>1. Len(fe \o back) = Len(fe) + Len(back) /\ fe \o back \in Seq(Slots)
    BY <1>2, <1>3
  <2>2. \A j \in 1..(Len(fe) + Len(back)) :
          (fe \o back)[j] = IF j <= Len(fe) THEN fe[j] ELSE back[j - Len(fe)]
    BY <1>2, <1>3
  <2>3. Len(fe) + Len(back) = Len(list) + 1
    BY <1>2, <1>3
  <2> QED BY <2>1, <2>2, <2>3, <1>3
<1>5. \A j \in 1..(Len(list) + 1) :
        (fe \o back)[j] = IF j < i THEN list[j] ELSE IF j = i THEN e ELSE list[j - 1]
  <2> SUFFICES ASSUME NEW j \in 1..(Len(list) + 1)
               PROVE  (fe \o back)[j] =
                        IF j < i THEN list[j] ELSE IF j = i THEN e ELSE list[j - 1]
    OBVIOUS
  <2>1. CASE j <= i
    BY <2>1, <1>3, <1>4
  <2>2. CASE ~(j <= i)
    <3>1. j - i \in 1..(Len(list) - i + 1) /\ i + (j - i) - 1 = j - 1
      BY <2>2
    <3> QED BY <3>1, <2>2, <1>2, <1>4
  <2> QED BY <2>1, <2>2
<1> QED BY <1>9, <1>4, <1>5

\* A new place is on the list, or behind it.
LEMMA NewSlotFits ==
  ASSUME NEW list \in Seq(Slots), NEW p
  PROVE  NewSlot(p, list) \in 1..(Len(list) + 1)
<1> DEFINE I == {i \in 1..Len(list) : ~list[i].premium}
           free == IF I # {} THEN Min(I) ELSE 0
<1>1. SelectInSeq(list, LAMBDA w : ~w.premium) = free
  BY DEF SelectInSeq
<1>2. CASE I # {}
  <2>1. \E x \in I : \A y \in I : x <= y
    <3>1. I \in SUBSET Nat
      OBVIOUS
    <3> HIDE DEF I
    <3> QED BY <3>1, <1>2, LeastNumber
  <2>2. Min(I) \in I
    BY <2>1 DEF Min
  <2> HIDE DEF I
  <2>3. free \in I
    BY <2>2, <1>2
  <2>4. free \in 1..Len(list)
    BY <2>3 DEF I
  <2> HIDE DEF free
  <2> QED BY <1>1, <2>4 DEF NewSlot
<1>3. CASE I = {}
  BY <1>1, <1>3 DEF NewSlot
<1> QED BY <1>2, <1>3

\* A player who is listed has a slot.
LEMMA SlotIs ==
  ASSUME NEW p, NEW list, Listed(p, list)
  PROVE  Slot(p, list) \in DOMAIN list /\ list[Slot(p, list)].who = p
BY DEF Listed, Slot

\* A place lasts longer than its client waits.
LEMMA TimesFit ==
  ASSUME NEW slot \in Nat
  PROVE  Time(slot) \in 1..24 /\ Timeout(slot) \in 0..27 /\ Timeout(slot) > Time(slot)
BY DEF Timeout, Time

\* What is left of a place is a number.
LEMMA SlotTypes ==
  ASSUME NEW e \in Slots
  PROVE  e.timeout \in Nat /\ \A t \in 0..27 : [e EXCEPT !.timeout = t] \in Slots
<1>1. e.timeout \in 0..27
  BY DEF Slots
<1>2. e.timeout \in Nat
  BY <1>1
<1>3. \A t \in 0..27 : [e EXCEPT !.timeout = t] \in Slots
  BY DEF Slots
<1> QED BY <1>2, <1>3

----------------------------------------------------------------------------
(* The inductive invariant                                                 *)

\* Every client that waits has a place that outlasts its wait.
Patient ==
  \A p \in Players : client[p] = "waiting" =>
    \E i \in DOMAIN waitList : waitList[i].who = p /\ waitList[i].timeout > retry[p]

IInv == WaitTypeOK /\ Single(waitList) /\ Patient

\* The types, where a number is needed.
LEMMA Numbers ==
  ASSUME IInv
  PROVE  /\ waitList \in Seq(Slots)
         /\ \A i \in DOMAIN waitList : waitList[i] \in Slots /\ waitList[i].timeout \in Nat
         /\ \A p \in Players : retry[p] \in Nat
<1>1. waitList \in Seq(Slots)
  BY DEF IInv, WaitTypeOK, Slots
<1>2. \A i \in DOMAIN waitList : waitList[i] \in Slots
  BY <1>1
<1>3. \A p \in Players : retry[p] \in 0..24
  BY DEF IInv, WaitTypeOK
<1>4. \A p \in Players : retry[p] \in Nat
  BY <1>3
<1> QED BY <1>1, <1>2, <1>4, SlotTypes

\* The place of a client whose wait is not over outlasts any cleanup.
LEMMA ValidPatient ==
  ASSUME IInv
  PROVE  /\ Valid(waitList) \in Seq(Slots)
         /\ Single(Valid(waitList))
         /\ \A p \in Players : client[p] = "waiting" =>
              \E i \in DOMAIN Valid(waitList) :
                Valid(waitList)[i].who = p /\ Valid(waitList)[i].timeout > retry[p]
<1> DEFINE v == Valid(waitList)
<1>1. waitList \in Seq(Slots)
  BY DEF IInv, WaitTypeOK, Slots
<1>2. ValidPart(v, waitList, Len(waitList)) /\ Single(v)
  BY <1>1, ValidKeeps DEF IInv
<1> HIDE DEF v
<1>3. ASSUME NEW p \in Players, client[p] = "waiting"
      PROVE  \E i \in DOMAIN v : v[i].who = p /\ v[i].timeout > retry[p]
  <2>1. PICK k \in DOMAIN waitList : waitList[k].who = p /\ waitList[k].timeout > retry[p]
    BY <1>3 DEF IInv, Patient
  <2>2. waitList[k].timeout > 0 /\ k \in 1..Len(waitList)
    <3>1. k \in 1..Len(waitList)
      BY <1>1
    <3> QED BY <3>1, Numbers, <2>1
  <2>3. PICK j \in DOMAIN v : v[j] = waitList[k]
    BY <2>2, <1>2 DEF ValidPart
  <2> QED BY <2>1, <2>3
<1> QED BY <1>2, <1>3 DEF ValidPart, v

----------------------------------------------------------------------------
(* Every action keeps it                                                   *)

LEMMA InvInit == WaitInit => IInv
<1> SUFFICES ASSUME WaitInit PROVE IInv
  OBVIOUS
<1>1. WaitTypeOK
  BY WaitListAssumption DEF WaitInit, WaitTypeOK
<1>2. Single(waitList) /\ Patient
  BY DEF WaitInit, Single, Patient
<1> QED BY <1>1, <1>2 DEF IInv

\* Tries counts a visit or none.
LEMMA TriesCounts ==
  ASSUME IInv, NEW p \in Players, Tries(p)
  PROVE  visits' \in [Players -> 0..Visits]
BY WaitListAssumption DEF IInv, WaitTypeOK, Tries

LEMMA LoginAtOnceKeeps ==
  ASSUME IInv, NEW p \in Players, LoginAtOnce(p)
  PROVE  IInv'
<1>1. WaitTypeOK'
  BY TriesCounts DEF IInv, WaitTypeOK, LoginAtOnce, Enters
<1>2. Single(waitList)'
  BY DEF IInv, LoginAtOnce, Single
<1>3. Patient'
  BY DEF IInv, WaitTypeOK, LoginAtOnce, Enters, Patient
<1> QED BY <1>1, <1>2, <1>3 DEF IInv

LEMMA LoginFromListKeeps ==
  ASSUME IInv, NEW p \in Players, LoginFromList(p)
  PROVE  IInv'
<1> DEFINE v == Valid(waitList)
           s == Slot(p, v)
<1>1. /\ v \in Seq(Slots) /\ Single(v)
      /\ \A q \in Players : client[q] = "waiting" =>
           \E i \in DOMAIN v : v[i].who = q /\ v[i].timeout > retry[q]
  BY ValidPatient
<1>2. s \in DOMAIN v /\ v[s].who = p
  BY SlotIs DEF LoginFromList, HasPlace
<1>3. waitList' = RemoveAt(v, s) /\ Enters(p) /\ Tries(p)
  BY DEF LoginFromList
<1> HIDE DEF v, s
<1>4. /\ waitList' \in Seq(Slots)
      /\ DOMAIN waitList' = 1..(Len(v) - 1)
      /\ \A j \in 1..(Len(v) - 1) : waitList'[j] = IF j < s THEN v[j] ELSE v[j + 1]
  BY <1>1, <1>2, <1>3, RemoveAtIs
<1>5. WaitTypeOK'
  BY <1>3, <1>4, TriesCounts DEF IInv, WaitTypeOK, Enters, Slots
<1>6. Single(waitList)'
  <2> SUFFICES ASSUME NEW i \in DOMAIN waitList', NEW j \in DOMAIN waitList',
                      waitList'[i].who = waitList'[j].who
               PROVE  i = j
    BY DEF Single
  <2> QED BY <1>1, <1>2, <1>4 DEF Single
<1>7. Patient'
  <2> SUFFICES ASSUME NEW q \in Players, client'[q] = "waiting"
               PROVE  \E i \in DOMAIN waitList' :
                        waitList'[i].who = q /\ waitList'[i].timeout > retry'[q]
    BY DEF Patient
  <2>1. q # p /\ client[q] = "waiting" /\ retry'[q] = retry[q]
    BY <1>3 DEF Enters, IInv, WaitTypeOK
  <2>2. PICK i \in DOMAIN v : v[i].who = q /\ v[i].timeout > retry[q]
    BY <2>1, <1>1
  <2>3. i # s
    BY <2>1, <2>2, <1>2
  <2>4. CASE i < s
    BY <2>1, <2>2, <2>4, <1>1, <1>2, <1>4
  <2>5. CASE i > s
    <3>1. i - 1 \in 1..(Len(v) - 1) /\ ~(i - 1 < s) /\ (i - 1) + 1 = i
      BY <2>5, <1>1, <1>2
    <3> QED BY <3>1, <2>1, <2>2, <1>4
  <2> QED BY <2>3, <2>4, <2>5, <1>1, <1>2
<1> QED BY <1>5, <1>6, <1>7 DEF IInv

LEMMA WaitLongerKeeps ==
  ASSUME IInv, NEW p \in Players, WaitLonger(p)
  PROVE  IInv'
<1> DEFINE v == Valid(waitList)
           s == Slot(p, v)
<1>1. /\ v \in Seq(Slots) /\ Single(v)
      /\ \A q \in Players : client[q] = "waiting" =>
           \E i \in DOMAIN v : v[i].who = q /\ v[i].timeout > retry[q]
  BY ValidPatient
<1>2. s \in DOMAIN v /\ v[s].who = p
  BY SlotIs DEF WaitLonger, HasPlace
<1>3. waitList' = [v EXCEPT ![s].timeout = Timeout(s)] /\ IsRefused(p, s) /\ Tries(p)
  BY DEF WaitLonger, Refreshed
<1> HIDE DEF v, s
<1>4. Time(s) \in 1..24 /\ Timeout(s) \in 0..27 /\ Timeout(s) > Time(s)
  BY <1>1, <1>2, TimesFit
<1>5. /\ waitList' \in Seq(Slots) /\ DOMAIN waitList' = DOMAIN v
      /\ \A j \in DOMAIN v : waitList'[j].who = v[j].who
      /\ \A j \in DOMAIN v : j # s => waitList'[j] = v[j]
      /\ waitList'[s].timeout = Timeout(s)
  <2>1. v[s] \in Slots /\ [v[s] EXCEPT !.timeout = Timeout(s)] \in Slots
    <3>1. v[s] \in Slots
      BY <1>1, <1>2
    <3> QED BY <3>1, <1>4, SlotTypes
  <2>2. waitList' = [v EXCEPT ![s] = [v[s] EXCEPT !.timeout = Timeout(s)]]
    BY <1>3
  <2>3. waitList' \in Seq(Slots) /\ DOMAIN waitList' = DOMAIN v
    BY <2>1, <2>2, <1>1, <1>2
  <2>4. \A j \in DOMAIN v : j # s => waitList'[j] = v[j]
    BY <2>2
  <2>5. waitList'[s].timeout = Timeout(s) /\ waitList'[s].who = v[s].who
    BY <2>1, <2>2, <1>2 DEF Slots
  <2> QED BY <2>3, <2>4, <2>5
<1>6. WaitTypeOK'
  BY <1>3, <1>4, <1>5, TriesCounts, SMTT(30) DEF IInv, WaitTypeOK, IsRefused, Slots
<1>7. Single(waitList)'
  BY <1>1, <1>5 DEF Single
<1>8. Patient'
  <2> SUFFICES ASSUME NEW q \in Players, client'[q] = "waiting"
               PROVE  \E i \in DOMAIN waitList' :
                        waitList'[i].who = q /\ waitList'[i].timeout > retry'[q]
    BY DEF Patient
  <2>1. CASE q = p
    <3>1. retry'[p] = Time(s)
      BY <1>3 DEF IsRefused, IInv, WaitTypeOK
    <3> QED BY <3>1, <2>1, <1>2, <1>4, <1>5
  <2>2. CASE q # p
    <3>1. client[q] = "waiting" /\ retry'[q] = retry[q]
      BY <2>2, <1>3 DEF IsRefused, IInv, WaitTypeOK
    <3>2. PICK i \in DOMAIN v : v[i].who = q /\ v[i].timeout > retry[q]
      BY <3>1, <1>1
    <3>3. i # s
      BY <2>2, <3>2, <1>2
    <3> QED BY <3>1, <3>2, <3>3, <1>5
  <2> QED BY <2>1, <2>2
<1> QED BY <1>6, <1>7, <1>8 DEF IInv

LEMMA StartWaitingKeeps ==
  ASSUME IInv, NEW p \in Players, StartWaiting(p)
  PROVE  IInv'
<1> DEFINE v == Valid(waitList)
           s == NewSlot(p, v)
           e == Place(p, s)
<1>1. /\ v \in Seq(Slots) /\ Single(v)
      /\ \A q \in Players : client[q] = "waiting" =>
           \E i \in DOMAIN v : v[i].who = q /\ v[i].timeout > retry[q]
  BY ValidPatient
<1>2. s \in 1..(Len(v) + 1)
  <2> HIDE DEF v
  <2> QED BY <1>1, NewSlotFits
<1>3. \A i \in DOMAIN v : v[i].who # p
  BY DEF StartWaiting, HasPlace, Listed
<1>4. waitList' = InsertAt(v, s, e) /\ IsRefused(p, s) /\ Tries(p)
  BY DEF StartWaiting
<1>5. e.who = p /\ e.timeout = Timeout(s) /\ e = [who |-> p, premium |-> p \in Premium, timeout |-> Timeout(s)]
  BY DEF Place
<1> HIDE DEF v, s, e
<1>6. Time(s) \in 1..24 /\ Timeout(s) \in 0..27 /\ Timeout(s) > Time(s)
  BY <1>1, <1>2, TimesFit
<1>7. e \in Slots
  BY <1>5, <1>6 DEF Slots
<1>8. /\ waitList' \in Seq(Slots)
      /\ DOMAIN waitList' = 1..(Len(v) + 1)
      /\ \A j \in 1..(Len(v) + 1) :
           waitList'[j] = IF j < s THEN v[j] ELSE IF j = s THEN e ELSE v[j - 1]
  <2> DEFINE new == InsertAt(v, s, e)
  <2>1. /\ new \in Seq(Slots)
        /\ DOMAIN new = 1..(Len(v) + 1)
        /\ \A j \in 1..(Len(v) + 1) :
             new[j] = IF j < s THEN v[j] ELSE IF j = s THEN e ELSE v[j - 1]
    BY <1>1, <1>2, <1>7, InsertAtIs
  <2>2. waitList' = new
    BY <1>4
  <2> HIDE DEF new
  <2> QED BY <2>1, <2>2
<1>9. WaitTypeOK'
  BY <1>4, <1>6, <1>8, TriesCounts DEF IInv, WaitTypeOK, IsRefused, Slots
<1>10. Single(waitList)'
  <2> SUFFICES ASSUME NEW i \in DOMAIN waitList', NEW j \in DOMAIN waitList',
                      waitList'[i].who = waitList'[j].who
               PROVE  i = j
    BY DEF Single
  <2> DEFINE old(k) == IF k < s THEN k ELSE k - 1
  <2>1. \A k \in 1..(Len(v) + 1) : k # s =>
          old(k) \in DOMAIN v /\ waitList'[k] = v[old(k)] /\ waitList'[k].who # p
    BY <1>1, <1>2, <1>3, <1>8
  <2>2. waitList'[s].who = p
    BY <1>2, <1>5, <1>8
  <2>3. CASE i = s \/ j = s
    BY <2>1, <2>2, <2>3, <1>8
  <2>4. CASE i # s /\ j # s
    <3>1. old(i) = old(j)
      BY <2>1, <2>4, <1>1, <1>8 DEF Single
    <3> QED BY <3>1, <2>4, <1>2, <1>8
  <2> QED BY <2>3, <2>4
<1>11. Patient'
  <2> SUFFICES ASSUME NEW q \in Players, client'[q] = "waiting"
               PROVE  \E i \in DOMAIN waitList' :
                        waitList'[i].who = q /\ waitList'[i].timeout > retry'[q]
    BY DEF Patient
  <2>1. CASE q = p
    <3>1. retry'[p] = Time(s)
      BY <1>4 DEF IsRefused, IInv, WaitTypeOK
    <3> QED BY <3>1, <2>1, <1>2, <1>5, <1>6, <1>8, SMTT(30)
  <2>2. CASE q # p
    <3>1. client[q] = "waiting" /\ retry'[q] = retry[q]
      BY <2>2, <1>4 DEF IsRefused, IInv, WaitTypeOK
    <3>2. PICK i \in DOMAIN v : v[i].who = q /\ v[i].timeout > retry[q]
      BY <3>1, <1>1
    <3>3. CASE i < s
      BY <3>1, <3>2, <3>3, <1>1, <1>8
    <3>4. CASE i >= s
      <4>1. i + 1 \in 1..(Len(v) + 1) /\ ~(i + 1 < s) /\ i + 1 # s /\ (i + 1) - 1 = i
        BY <3>4, <1>1, <1>2
      <4> QED BY <4>1, <3>1, <3>2, <1>8
    <3> QED BY <3>3, <3>4, <1>1, <1>2
  <2> QED BY <2>1, <2>2
<1> QED BY <1>9, <1>10, <1>11 DEF IInv

\* Time runs out for the clients before it does for their places.
LEMMA TickKeeps ==
  ASSUME IInv, Tick
  PROVE  IInv'
<1>1. waitList \in Seq(Slots) /\ retry \in [Players -> 0..24]
  BY DEF IInv, WaitTypeOK, Slots
<1>2. /\ waitList' \in Seq(Slots) /\ DOMAIN waitList' = DOMAIN waitList
      /\ \A i \in DOMAIN waitList :
           /\ waitList'[i].who = waitList[i].who
           /\ waitList'[i].timeout = Less(waitList[i].timeout)
  <2> DEFINE new == [i \in DOMAIN waitList |-> [waitList[i] EXCEPT !.timeout = Less(@)]]
  <2>1. \A i \in DOMAIN waitList : waitList[i] \in Slots
    BY <1>1
  <2>2. ASSUME NEW i \in DOMAIN waitList
        PROVE  /\ new[i] \in Slots
               /\ new[i].who = waitList[i].who
               /\ new[i].timeout = Less(waitList[i].timeout)
    BY <2>1 DEF Slots, Less
  <2>3. waitList' = new
    BY DEF Tick
  <2> HIDE DEF new
  <2>4. new \in Seq(Slots) /\ DOMAIN new = DOMAIN waitList
    <3>1. DOMAIN waitList = 1..Len(waitList) /\ Len(waitList) \in Nat
      BY <1>1
    <3>2. new \in [1..Len(waitList) -> Slots]
      BY <2>2, <3>1 DEF new
    <3> QED BY <3>1, <3>2
  <2> QED BY <2>2, <2>3, <2>4
<1>3. retry' \in [Players -> 0..24] /\ \A p \in Players : retry'[p] = Less(retry[p])
  BY <1>1 DEF Tick, Less
<1>4. WaitTypeOK'
  BY <1>2, <1>3 DEF IInv, WaitTypeOK, Tick, Slots
<1>5. Single(waitList)'
  BY <1>2 DEF IInv, Single
<1>6. Patient'
  <2> SUFFICES ASSUME NEW p \in Players, client'[p] = "waiting"
               PROVE  \E i \in DOMAIN waitList' :
                        waitList'[i].who = p /\ waitList'[i].timeout > retry'[p]
    BY DEF Patient
  <2>1. client[p] = "waiting" /\ retry[p] > 0
    BY DEF Tick
  <2>2. PICK i \in DOMAIN waitList : waitList[i].who = p /\ waitList[i].timeout > retry[p]
    BY <2>1 DEF IInv, Patient
  <2>3. waitList[i].timeout \in Nat /\ retry[p] \in Nat
    BY Numbers
  <2>4. Less(waitList[i].timeout) > Less(retry[p])
    BY <2>1, <2>2, <2>3 DEF Less
  <2> QED BY <2>2, <2>4, <1>2, <1>3
<1> QED BY <1>4, <1>5, <1>6 DEF IInv

LEMMA InvStep == IInv /\ [WaitNext]_waitVars => IInv'
<1> SUFFICES ASSUME IInv, [WaitNext]_waitVars PROVE IInv'
  OBVIOUS
<1>1. ASSUME NEW p \in Players, Login(p) PROVE IInv'
  BY <1>1, LoginAtOnceKeeps, LoginFromListKeeps, WaitLongerKeeps, StartWaitingKeeps DEF Login
<1>2. ASSUME NEW p \in Players, LogsOut(p) PROVE IInv'
  BY <1>2 DEF LogsOut, IInv, WaitTypeOK, Patient, Single
<1>3. ASSUME NEW p \in Players, GiveUp(p) PROVE IInv'
  <2>1. WaitTypeOK'
    BY <1>3 DEF GiveUp, IInv, WaitTypeOK
  <2>2. Single(waitList)'
    BY <1>3 DEF GiveUp, IInv, Single
  <2>3. Patient'
    BY <1>3 DEF GiveUp, IInv, WaitTypeOK, Patient
  <2> QED BY <2>1, <2>2, <2>3 DEF IInv
<1>4. CASE Tick
  BY <1>4, TickKeeps
<1>5. CASE UNCHANGED waitVars
  BY <1>5 DEF waitVars, IInv, WaitTypeOK, Patient, Single
<1> QED BY <1>1, <1>2, <1>3, <1>4, <1>5 DEF WaitNext

----------------------------------------------------------------------------
(* The theorems                                                            *)

\* Types, and no player ever has two places: login looks for the one he has
\* before it adds another one.
THEOREM OnePlaceEach == WaitSpec => [](WaitTypeOK /\ Single(waitList))
<1>1. IInv => WaitTypeOK /\ Single(waitList)
  BY DEF IInv
<1> QED BY <1>1, InvInit, InvStep, PTL DEF WaitSpec

\* The client that tries again when WaitingList told it to finds its place, for
\* any number of players before and behind it: getTimeout is longer than getTime
\* in every slot, and neither cleanup nor a place that is inserted in front
\* takes a valid one away.
THEOREM PlacesOutlastWaits == WaitSpec => []WaitersKeepTheirPlace
<1>1. IInv => WaitersKeepTheirPlace
  <2> SUFFICES ASSUME IInv, NEW p \in Players, client[p] = "waiting"
               PROVE  \E i \in DOMAIN waitList : waitList[i].who = p /\ waitList[i].timeout > 0
    BY DEF WaitersKeepTheirPlace
  <2>1. PICK i \in DOMAIN waitList : waitList[i].who = p /\ waitList[i].timeout > retry[p]
    BY DEF IInv, Patient
  <2>2. waitList[i].timeout \in Nat /\ retry[p] \in Nat
    BY Numbers
  <2> QED BY <2>1, <2>2
<1> QED BY <1>1, InvInit, InvStep, PTL DEF WaitSpec

\* Those who are online can be counted.
LEMMA OnlineIsNumber == Online \in Nat
<1>1. IsFiniteSet({p \in Players : client[p] = "online"})
  BY WaitListAssumption, FS_Subset
<1> QED BY <1>1, FS_CardinalityType DEF Online

\* Whoever enters without a privilege leaves room for all the valid places in
\* front of his own, or for all of them if he had none: login lets him pass the
\* list only when it is empty.
THEOREM EveryoneInTurn == WaitSpec => NobodyIsOvertaken
<1> DEFINE InTurn ==
      \A p \in Players \ Privileged :
        ~(SkipWait /\ p \in Premium) /\ client[p] # "online" /\ client'[p] = "online" =>
          LET list  == Valid(waitList)
              ahead == IF Listed(p, list) THEN Slot(p, list) - 1 ELSE Len(list)
          IN  Online + 1 + ahead =< MaxPlayers
<1>1. ASSUME IInv, [WaitNext]_waitVars PROVE InTurn
  <2> DEFINE v == Valid(waitList)
             ahead(p) == IF Listed(p, v) THEN Slot(p, v) - 1 ELSE Len(v)
  <2> SUFFICES ASSUME NEW p \in Players \ Privileged, ~(SkipWait /\ p \in Premium),
                      client[p] # "online", client'[p] = "online"
               PROVE  Online + 1 + ahead(p) =< MaxPlayers
    OBVIOUS
  <2>1. v \in Seq(Slots)
    BY <1>1, ValidPatient
  <2>2. client \in [Players -> {"away", "waiting", "online"}] /\ MaxPlayers \in Nat
    BY <1>1, WaitListAssumption DEF IInv, WaitTypeOK
  <2>3. LoginAtOnce(p) \/ LoginFromList(p)
    BY <1>1, <2>2 DEF WaitNext, waitVars, Login, LoginAtOnce, LoginFromList, WaitLonger, StartWaiting,
                      Enters, IsRefused, LogsOut, GiveUp, Tick
  <2>4. CASE LoginAtOnce(p)
    <3>1. waitList = <<>> /\ Online < MaxPlayers
      BY <2>4 DEF LoginAtOnce, Passes
    <3>2. Len(v) = 0
      <4>1. ValidPart(v, <<>>, 0)
        BY <1>1, <3>1, ValidKeeps DEF IInv, WaitTypeOK, Slots
      <4>2. \A j \in DOMAIN v : FALSE
        BY <4>1 DEF ValidPart
      <4>3. DOMAIN v = 1..Len(v) /\ Len(v) \in Nat
        BY <2>1
      <4> HIDE DEF v
      <4> QED BY <4>2, <4>3
    <3>3. ahead(p) = 0
      <4> HIDE DEF v
      <4> QED BY <3>2, <2>1 DEF Listed
    <3> HIDE DEF ahead
    <3> QED BY <3>1, <3>3, <2>2, OnlineIsNumber
  <2>5. CASE LoginFromList(p)
    <3>1. Listed(p, v) /\ Online + Slot(p, v) =< MaxPlayers
      BY <2>5 DEF LoginFromList, HasPlace, RoomFor
    <3>2. Slot(p, v) \in Nat
      <4>1. Slot(p, v) \in DOMAIN v
        BY <3>1, SlotIs
      <4> HIDE DEF v
      <4> QED BY <4>1, <2>1
    <3> HIDE DEF v
    <3> QED BY <3>1, <3>2, <2>2, OnlineIsNumber
  <2> QED BY <2>3, <2>4, <2>5
<1>2. IInv /\ [WaitNext]_waitVars => [InTurn]_waitVars
  BY <1>1
<1> QED BY <1>2, InvInit, InvStep, PTL DEF WaitSpec, NobodyIsOvertaken

=============================================================================
