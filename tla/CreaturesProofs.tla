---------------------------- MODULE CreaturesProofs ----------------------------
(***************************************************************************)
(* Proofs about Creatures, for any monsters, players, places and number of *)
(* check vectors: references are exact and nothing dangles, every creature *)
(* is listed where its checkVector says, the dying are checked, and the    *)
(* spawn keeps its places.                                                 *)
(*                                                                         *)
(* The methods take a world to a world, and so does the invariant:         *)
(* Sound(w, owed, left) is kept by every method.  While one runs, the      *)
(* references of the creatures in owed are still to be given back, and     *)
(* those in left are still to follow their master out of the game.         *)
(* Methods that go through a set are folds, over which the invariant is    *)
(* carried by induction on finite sets (SubsetInduction).                  *)
(***************************************************************************)
EXTENDS Creatures, FiniteSetTheorems, SequenceTheorems, WellFoundedInduction, TLAPS

Objects ==
  [life : {"none", "game", "removed"}, alive : BOOLEAN, checked : BOOLEAN,
   vec : {-1} \cup Vectors, refs : Int, freed : Int, client : BOOLEAN,
   master : Creature \cup {NULL}, summons : SUBSET Monsters, place : Places \cup {NULL}]

Worlds ==
  [cr : [Creature -> Objects], toAdd : Seq(Creature), known : SUBSET (Monsters \X Lists \X Creature),
   spawned : [Places -> SUBSET Monsters], armed : BOOLEAN]

-----------------------------------------------------------------------------
(* The inductive invariant                                                   *)

Housed(w, c) == \E p \in Places : c \in w.spawned[p]

\* The entries of k for c.
Noted(k, c) == Cardinality({n \in k : n[3] = c})

\* The references that are owned.
Held(w, c) ==
  Count(InGame(w, c)) + w.cr[c].freed + Count(w.cr[c].vec >= 0) + Count(w.cr[c].client)
    + Count(w.cr[c].master # NULL) + Count(Housed(w, c)) + Noted(w.known, c)

\* RefsAreExact, with the references of some still to be given back.
Exact(w, owed) ==
  \A c \in Creature :
    /\ w.cr[c].freed >= 0
    /\ w.cr[c].refs = Held(w, c) + Count(c \in owed)
    /\ w.cr[c].life = "none" => w.cr[c] = Nothing
    /\ w.cr[c].life # "none" => w.cr[c].refs > 0

\* TheDyingAreChecked; and players always are.
Alert(w) ==
  \A c \in Creature :
    /\ w.cr[c].checked => InGame(w, c) /\ w.cr[c].vec >= 0
    /\ InGame(w, c) /\ (c \in Players \/ ~w.cr[c].alive) => w.cr[c].checked

\* Masters and summons know each other, and who is a summon has none.
Linked(w) ==
  \A m, c \in Creature :
    /\ m \in w.cr[c].summons <=> w.cr[m].master = c
    /\ w.cr[m].master = c => w.cr[m].summons = {}

\* They are in the game together, but for those left by their master.
Together(w, left) ==
  \A m \in Creature : w.cr[m].master # NULL =>
    /\ InGame(w, m) => InGame(w, w.cr[m].master) \/ m \in left
    /\ InGame(w, w.cr[m].master) => InGame(w, m)

\* A monster lives in one place, and knows it while it is in the game.
AtHome(w) ==
  \A m \in Creature, p, q \in Places :
    /\ m \in w.spawned[p] /\ m \in w.spawned[q] => p = q
    /\ InGame(w, m) => (w.cr[m].place = p <=> m \in w.spawned[p])

\* VectorsAgree: every creature with a vector is once among those to be added or
\* in its vector.
Listed(w) ==
  /\ checks \in [Vectors -> Seq(Creature)]
  /\ \A i \in DOMAIN w.toAdd : w.cr[w.toAdd[i]].vec >= 0
  /\ \A i, j \in DOMAIN w.toAdd : w.toAdd[i] = w.toAdd[j] => i = j
  /\ \A v \in Vectors : \A i \in DOMAIN checks[v] :
       /\ w.cr[checks[v][i]].vec = v
       /\ \A j \in DOMAIN checks[v] : checks[v][i] = checks[v][j] => i = j
       /\ \A j \in DOMAIN w.toAdd : w.toAdd[j] # checks[v][i]
  /\ \A c \in Creature : w.cr[c].vec >= 0 =>
       \/ \E i \in DOMAIN w.toAdd : w.toAdd[i] = c
       \/ \E i \in DOMAIN checks[w.cr[c].vec] : checks[w.cr[c].vec][i] = c

\* Who is deleted takes its lists along.
Noting(w) == \A n \in w.known : w.cr[n[1]].life # "none"

Sound(w, owed, left) ==
  /\ w \in Worlds
  /\ Exact(w, owed) /\ Alert(w) /\ Linked(w) /\ Together(w, left) /\ AtHome(w) /\ Listed(w)
  /\ Noting(w)

\* PlacesAreKept.
Living(w) == {m \in Monsters : InGame(w, m) /\ Housed(w, m)}

Guarded(w) ==
  /\ ~w.armed => Cardinality(Living(w)) + convinced >= Cardinality(Places)
  /\ \A p \in Places \ doubled : Cardinality(w.spawned[p]) + blinking[p] <= 1

Loop ==
  /\ last \in Vectors
  /\ at \in Nat
  /\ blinking \in [Places -> Nat]
  /\ rested \in [Places -> BOOLEAN]
  /\ convinced \in Nat
  /\ doubled \subseteq Places

IInv == Sound(World, {}, {}) /\ Guarded(World) /\ Loop

-----------------------------------------------------------------------------
(* Induction                                                                 *)

\* Every set of numbers has a least one.
LEMMA LeastNumber ==
  ASSUME NEW T \in SUBSET Nat, T # {}
  PROVE  \E x \in T : \A y \in T : x <= y
<1> DEFINE R == {ss \in Nat \X Nat : ss[1] < ss[2]}
<1>1. IsWellFoundedOn(R, Nat)
  BY NatLessThanWellFounded DEF OpToRel
<1>2. PICK x \in T : \A y \in T : <<y, x>> \notin R
  <2> HIDE DEF R
  <2> QED BY <1>1, WFMin
<1>3. ASSUME NEW y \in T, y < x PROVE FALSE
  <2>1. <<y, x>> \in Nat \X Nat /\ <<y, x>>[1] = y /\ <<y, x>>[2] = x
    OBVIOUS
  <2> QED BY <2>1, <1>2, <1>3
<1> QED BY <1>3

\* A set that holds 0 and is closed under successor holds every number.
LEMMA NatBySuccessor ==
  ASSUME NEW T, 0 \in T, \A n \in Nat : n \in T => n + 1 \in T
  PROVE  Nat \subseteq T
<1> DEFINE R == {n \in Nat : n \notin T}
<1>1. SUFFICES ASSUME R # {} PROVE FALSE
  OBVIOUS
<1>2. PICK x \in R : \A y \in R : x <= y
  BY <1>1, LeastNumber
<1>3. x # 0 /\ x - 1 \in Nat /\ x - 1 \in T
  BY <1>2
<1> QED BY <1>3

\* A set of subsets that holds the empty one and grows by one element at a time.
LEMMA SubsetInduction ==
  ASSUME NEW S, IsFiniteSet(S), NEW T, {} \in T,
         \A s \in SUBSET S : s # {} => \E c \in s : s \ {c} \in T => s \in T
  PROVE  SUBSET S \subseteq T
<1> DEFINE N == {n \in Nat : \A s \in SUBSET S : Cardinality(s) = n => s \in T}
<1>1. \A s \in SUBSET S : IsFiniteSet(s) /\ Cardinality(s) \in Nat
  BY FS_Subset, FS_CardinalityType
<1>2. 0 \in N
  BY <1>1, FS_EmptySet
<1>3. ASSUME NEW n \in Nat, n \in N PROVE n + 1 \in N
  <2> SUFFICES ASSUME NEW s \in SUBSET S, Cardinality(s) = n + 1 PROVE s \in T
    OBVIOUS
  <2>0. Cardinality(s) # 0 /\ IsFiniteSet(s)
    BY <1>1
  <2>1. s # {}
    BY <2>0, FS_EmptySet
  <2>2. PICK c \in s : s \ {c} \in T => s \in T
    BY <2>1
  <2>3. Cardinality(s \ {c}) = n /\ s \ {c} \in SUBSET S
    <3>1. Cardinality(s \ {c}) = Cardinality(s) - 1
      BY <2>0, FS_RemoveElement
    <3> QED BY <3>1
  <2> QED BY <1>3, <2>2, <2>3
<1>4. Nat \subseteq N
  <2> HIDE DEF N
  <2> QED BY <1>2, <1>3, NatBySuccessor
<1> QED BY <1>1, <1>4

Chosen(s) == CHOOSE c \in s : TRUE

\* What FoldSet iterates.
Folds(f, S, base, step) ==
  f = [s \in SUBSET S |->
         IF s = {} THEN base ELSE step[<<Chosen(s), f[s \ {Chosen(s)}]>>]]

LEMMA FoldSolvable ==
  ASSUME NEW S, IsFiniteSet(S), NEW W, NEW base \in W, NEW step \in [S \X W -> W]
  PROVE  \E f \in [SUBSET S -> W] : Folds(f, S, base, step)
<1> DEFINE Small(n) == {s \in SUBSET S : Cardinality(s) <= n}
           Following(f, s) == IF s = {} THEN base ELSE step[<<Chosen(s), f[s \ {Chosen(s)}]>>]
           Solved(f, n) == \A s \in Small(n) : f[s] = Following(f, s)
           N == {n \in Nat : \E f \in [SUBSET S -> W] : Solved(f, n)}
<1>1. \A s \in SUBSET S : IsFiniteSet(s) /\ Cardinality(s) \in Nat
  BY FS_Subset, FS_CardinalityType
<1>2. ASSUME NEW s \in SUBSET S, s # {}
      PROVE  /\ Chosen(s) \in s /\ s \ {Chosen(s)} \in SUBSET S
             /\ Cardinality(s \ {Chosen(s)}) = Cardinality(s) - 1
  <2>1. Chosen(s) \in s
    BY <1>2 DEF Chosen
  <2> QED BY <1>1, <2>1, FS_RemoveElement
<1>3. ASSUME NEW f \in [SUBSET S -> W], NEW s \in SUBSET S PROVE Following(f, s) \in W
  BY <1>2
<1>4. 0 \in N
  <2> DEFINE f == [s \in SUBSET S |-> base]
  <2>1. f \in [SUBSET S -> W]
    OBVIOUS
  <2>2. \A s \in Small(0) : s = {}
    BY <1>1, FS_EmptySet
  <2>3. Solved(f, 0)
    BY <2>2
  <2> QED BY <2>1, <2>3
<1>5. ASSUME NEW n \in Nat, n \in N PROVE n + 1 \in N
  <2>1. PICK f \in [SUBSET S -> W] : Solved(f, n)
    BY <1>5
  <2> DEFINE g == [s \in SUBSET S |-> IF Cardinality(s) <= n THEN f[s] ELSE Following(f, s)]
  <2>2. g \in [SUBSET S -> W]
    <3> HIDE DEF Following
    <3> QED BY <1>3
  <2>3. ASSUME NEW s \in Small(n + 1) PROVE g[s] = Following(g, s)
    <3>1. CASE s = {}
      <4>1. Cardinality(s) <= n
        BY <3>1, FS_EmptySet
      <4> QED BY <4>1, <3>1, <2>1
    <3>2. CASE s # {}
      <4>1. /\ s \ {Chosen(s)} \in SUBSET S /\ Cardinality(s \ {Chosen(s)}) <= n
            /\ Chosen(s) \in S
        BY <1>1, <1>2, <3>2
      <4>2. g[s \ {Chosen(s)}] = f[s \ {Chosen(s)}]
        BY <4>1
      <4>3. Following(g, s) = Following(f, s)
        BY <4>2
      <4>4. Cardinality(s) <= n => f[s] = Following(f, s)
        BY <2>1
      <4> HIDE DEF Following
      <4> QED BY <4>3, <4>4
    <3> QED BY <3>1, <3>2
  <2> HIDE DEF g, Following
  <2> QED BY <2>2, <2>3
<1>6. Nat \subseteq N
  <2> HIDE DEF N
  <2> QED BY <1>4, <1>5, NatBySuccessor
<1>7. PICK f \in [SUBSET S -> W] : Solved(f, Cardinality(S))
  BY <1>6, FS_CardinalityType
<1>8. \A s \in SUBSET S : Cardinality(s) <= Cardinality(S)
  BY FS_Subset
<1>9. f = [s \in SUBSET S |-> f[s]]
  OBVIOUS
<1>10. \A s \in SUBSET S : f[s] = Following(f, s)
  BY <1>7, <1>8
<1>11. f = [s \in SUBSET S |-> Following(f, s)]
  <2> HIDE DEF Following
  <2> QED BY <1>9, <1>10
<1> QED BY <1>11 DEF Folds

-----------------------------------------------------------------------------
(* The methods take worlds to worlds                                         *)

LEMMA NothingType == Nothing \in Objects
BY DEF Nothing, Objects, Creature

\* The object of one creature is replaced.
LEMMA Replaced ==
  ASSUME NEW w \in Worlds, NEW c \in Creature, NEW o \in Objects
  PROVE  LET x == [w EXCEPT !.cr[c] = o]
         IN  /\ x \in Worlds
             /\ x.cr = [w.cr EXCEPT ![c] = o] /\ x.cr[c] = o
             /\ \A d \in Creature : d # c => x.cr[d] = w.cr[d]
             /\ x.toAdd = w.toAdd /\ x.spawned = w.spawned /\ x.armed = w.armed /\ x.known = w.known
BY DEF Worlds

\* The objects of all creatures are replaced.
LEMMA AllReplaced ==
  ASSUME NEW w \in Worlds, NEW f \in [Creature -> Objects]
  PROVE  LET x == [w EXCEPT !.cr = f]
         IN  /\ x \in Worlds /\ x.cr = f
             /\ x.toAdd = w.toAdd /\ x.spawned = w.spawned /\ x.armed = w.armed /\ x.known = w.known
BY DEF Worlds

\* Worlds with the same parts are the same.
LEMMA SameWorld ==
  ASSUME NEW w \in Worlds, NEW x \in Worlds,
         x.cr = w.cr, x.toAdd = w.toAdd, x.spawned = w.spawned, x.armed = w.armed /\ x.known = w.known
  PROVE  x = w
BY DEF Worlds

LEMMA ObjectsOf ==
  ASSUME NEW w \in Worlds, NEW c \in Creature
  PROVE  w.cr[c] \in Objects
BY DEF Worlds

\* What the methods make of an object.
LEMMA Edits ==
  ASSUME NEW o \in Objects
  PROVE  /\ [o EXCEPT !.refs = o.refs - 1] \in Objects
         /\ [o EXCEPT !.master = NULL] \in Objects
         /\ [o EXCEPT !.master = NULL, !.refs = o.refs - 1] \in Objects
         /\ [o EXCEPT !.checked = TRUE] \in Objects
         /\ [o EXCEPT !.checked = FALSE] \in Objects
         /\ [o EXCEPT !.alive = FALSE] \in Objects
         /\ [o EXCEPT !.alive = TRUE] \in Objects
         /\ [o EXCEPT !.freed = o.freed - 1] \in Objects
         /\ \A v \in Vectors :
              [o EXCEPT !.checked = TRUE, !.vec = v, !.refs = o.refs + 1] \in Objects
         /\ \A m : [o EXCEPT !.summons = o.summons \ {m}] \in Objects
         /\ [o EXCEPT !.life = "removed", !.alive = TRUE, !.place = NULL,
                      !.checked = FALSE, !.freed = o.freed + 1] \in Objects
<1>1. [o EXCEPT !.refs = o.refs - 1] \in Objects
  BY DEF Objects
<1>2. [o EXCEPT !.master = NULL] \in Objects
  BY DEF Objects
<1>3. [o EXCEPT !.master = NULL, !.refs = o.refs - 1] \in Objects
  <2> DEFINE a == [o EXCEPT !.master = NULL]
  <2>1. a \in Objects /\ o.refs - 1 \in Int
    BY DEF Objects
  <2>2. [a EXCEPT !.refs = o.refs - 1] \in Objects
    <3> HIDE DEF a
    <3> QED BY <2>1 DEF Objects
  <2> QED BY <2>2
<1>4. [o EXCEPT !.checked = TRUE] \in Objects /\ [o EXCEPT !.checked = FALSE] \in Objects
  BY DEF Objects
<1>5. [o EXCEPT !.alive = FALSE] \in Objects /\ [o EXCEPT !.alive = TRUE] \in Objects
  BY DEF Objects
<1>6. [o EXCEPT !.freed = o.freed - 1] \in Objects
  BY DEF Objects
<1>7. ASSUME NEW v \in Vectors
      PROVE  [o EXCEPT !.checked = TRUE, !.vec = v, !.refs = o.refs + 1] \in Objects
  <2> DEFINE a == [o EXCEPT !.checked = TRUE]
             b == [a EXCEPT !.vec = v]
  <2>1. a \in Objects /\ o.refs + 1 \in Int
    BY <1>4 DEF Objects
  <2>2. b \in Objects
    <3> HIDE DEF a
    <3> QED BY <2>1 DEF Objects
  <2>3. [b EXCEPT !.refs = o.refs + 1] \in Objects
    <3> HIDE DEF b
    <3> QED BY <2>1, <2>2 DEF Objects
  <2> QED BY <2>3
<1>8. ASSUME NEW m PROVE [o EXCEPT !.summons = o.summons \ {m}] \in Objects
  BY DEF Objects
<1>9. [o EXCEPT !.life = "removed", !.alive = TRUE, !.place = NULL,
                !.checked = FALSE, !.freed = o.freed + 1] \in Objects
  <2> DEFINE a == [o EXCEPT !.life = "removed"]
             b == [a EXCEPT !.alive = TRUE]
             e == [b EXCEPT !.place = NULL]
             g == [e EXCEPT !.checked = FALSE]
  <2>1. a \in Objects /\ o.freed + 1 \in Int
    BY DEF Objects
  <2>2. b \in Objects
    <3> HIDE DEF a
    <3> QED BY <2>1 DEF Objects
  <2>3. e \in Objects
    <3> HIDE DEF b
    <3> QED BY <2>2 DEF Objects
  <2>4. g \in Objects
    <3> HIDE DEF e
    <3> QED BY <2>3 DEF Objects
  <2>5. [g EXCEPT !.freed = o.freed + 1] \in Objects
    <3> HIDE DEF g
    <3> QED BY <2>1, <2>4 DEF Objects
  <2> QED BY <2>5
<1> QED BY <1>1, <1>2, <1>3, <1>4, <1>5, <1>6, <1>7, <1>8, <1>9

LEMMA CreatureFinite == IsFiniteSet(Creature)
BY FS_Union, CreaturesAssumption DEF CreaturesAssumption, Creature

\* The entries of lists.
LEMMA EntriesFinite == IsFiniteSet(Monsters \X Lists \X Creature)
<1> DEFINE S == Monsters \X Lists \X Creature
           T == (Monsters \X Lists) \X Creature
           f == [n \in S |-> <<<<n[1], n[2]>>, n[3]>>]
<1>1. IsFiniteSet({"target"} \cup {"friend"})
  BY FS_Singleton, FS_AddElement
<1>2. IsFiniteSet(Lists)
  <2>1. Lists \in SUBSET ({"target"} \cup {"friend"})
    BY CreaturesAssumption DEF CreaturesAssumption
  <2> QED BY <1>1, <2>1, FS_Subset
<1>3. IsFiniteSet(T)
  BY <1>2, FS_Product, CreatureFinite, CreaturesAssumption DEF CreaturesAssumption
<1>4. f \in Injection(S, T)
  <2>1. f \in [S -> T]
    OBVIOUS
  <2>2. ASSUME NEW a \in S, NEW b \in S, f[a] = f[b] PROVE a = b
    BY <2>2
  <2> QED BY <2>1, <2>2 DEF Injection, IsInjective
<1> HIDE DEF f
<1> QED BY <1>3, <1>4, FS_Injection

LEMMA NotedType ==
  ASSUME NEW w \in Worlds, NEW c
  PROVE  IsFiniteSet(w.known) /\ Noted(w.known, c) \in Nat
<1>1. w.known \in SUBSET (Monsters \X Lists \X Creature)
  BY DEF Worlds
<1>2. IsFiniteSet(w.known)
  BY <1>1, EntriesFinite, FS_Subset
<1>3. {n \in w.known : n[3] = c} \in SUBSET w.known
  OBVIOUS
<1> QED BY <1>2, <1>3, FS_Subset, FS_CardinalityType DEF Noted

LEMMA OwnedType ==
  ASSUME NEW w \in Worlds, NEW X \in SUBSET Creature, NEW c
  PROVE  Owned(w, X, c) \in Nat
<1>1. IsFiniteSet(X) /\ IsFiniteSet(w.known)
  BY CreatureFinite, FS_Subset, NotedType
<1>2. /\ {d \in X : c \in w.cr[d].summons} \in SUBSET X
      /\ {n \in w.known : n[1] \in X /\ n[3] = c} \in SUBSET w.known
  OBVIOUS
<1>3. /\ Cardinality({d \in X : c \in w.cr[d].summons}) \in Nat
      /\ Cardinality({n \in w.known : n[1] \in X /\ n[3] = c}) \in Nat
  BY <1>1, <1>2, FS_Subset, FS_CardinalityType
<1> QED BY <1>3 DEF Owned

\* Who is not deleted with X.
Survives(w, X, c) ==
  [w.cr[c] EXCEPT !.refs = w.cr[c].refs - Owned(w, X, c),
                  !.master = IF \E e \in X : c \in w.cr[e].summons THEN NULL ELSE w.cr[c].master]

LEMMA DeletedWorld ==
  ASSUME NEW w \in Worlds, NEW X \in SUBSET Creature
  PROVE  LET x == Deleted(w, X)
         IN  /\ x \in Worlds
             /\ x.toAdd = w.toAdd /\ x.spawned = w.spawned /\ x.armed = w.armed
             /\ x.known = {n \in w.known : n[1] \notin X}
             /\ \A d \in Creature : x.cr[d] = IF d \in X THEN Nothing ELSE Survives(w, X, d)
<1> DEFINE h(d) == IF \E e \in X : d \in w.cr[e].summons THEN NULL ELSE w.cr[d].master
           f == [d \in Creature |-> IF d \in X THEN Nothing ELSE Survives(w, X, d)]
           k == {n \in w.known : n[1] \notin X}
<1>1. ASSUME NEW d \in Creature
      PROVE  [w.cr[d] EXCEPT !.refs = w.cr[d].refs - Owned(w, X, d), !.master = h(d)] \in Objects
  <2> DEFINE r == w.cr[d].refs - Owned(w, X, d)
             a == [w.cr[d] EXCEPT !.refs = r]
  <2>1. w.cr[d] \in Objects /\ r \in Int /\ h(d) \in Creature \cup {NULL}
    BY ObjectsOf, OwnedType DEF Objects
  <2> HIDE DEF h, r
  <2>2. a \in Objects
    BY <2>1 DEF Objects
  <2>3. [a EXCEPT !.master = h(d)] \in Objects
    <3> HIDE DEF a
    <3> QED BY <2>1, <2>2 DEF Objects
  <2> QED BY <2>3 DEF r
<1>2. f \in [Creature -> Objects]
  <2>1. \A d \in Creature : Survives(w, X, d) \in Objects
    BY <1>1 DEF Survives
  <2> QED BY <2>1, NothingType
<1>3. Deleted(w, X) = [[w EXCEPT !.cr = f] EXCEPT !.known = k]
  BY DEF Deleted, Survives, Worlds
<1>4. \A d \in Creature : f[d] = IF d \in X THEN Nothing ELSE Survives(w, X, d)
  OBVIOUS
<1>5. LET x == [w EXCEPT !.cr = f]
      IN  /\ x \in Worlds /\ x.cr = f
          /\ x.toAdd = w.toAdd /\ x.spawned = w.spawned /\ x.armed = w.armed
  <2> HIDE DEF f
  <2> QED BY <1>2, AllReplaced
<1>6. k \in SUBSET (Monsters \X Lists \X Creature)
  BY DEF Worlds
<1> DEFINE y == [w EXCEPT !.cr = f]
<1> HIDE DEF f, k
<1>7. LET x == [y EXCEPT !.known = k]
      IN  /\ x \in Worlds /\ x.cr = f /\ x.known = k
          /\ x.toAdd = w.toAdd /\ x.spawned = w.spawned /\ x.armed = w.armed
  <2> HIDE DEF y
  <2>1. y \in Worlds /\ y.cr = f /\ y.toAdd = w.toAdd /\ y.spawned = w.spawned /\ y.armed = w.armed
    BY <1>5 DEF y
  <2> QED BY <1>6, <2>1 DEF Worlds
<1> QED BY <1>3, <1>4, <1>7 DEF k

LEMMA UnRefWorld ==
  ASSUME NEW w \in Worlds, NEW c \in Creature
  PROVE  UnRef(w, c) \in Worlds
<1> DEFINE v == [w EXCEPT !.cr[c] = [w.cr[c] EXCEPT !.refs = w.cr[c].refs - 1]]
<1>1. [w.cr[c] EXCEPT !.refs = w.cr[c].refs - 1] \in Objects
  BY ObjectsOf, Edits
<1>2. v \in Worlds
  BY <1>1, Replaced
<1>3. UnRef(w, c) = IF w.cr[c].refs # 1 THEN v ELSE Deleted(v, Doomed(v))
  BY DEF UnRef
<1> HIDE DEF v
<1> DEFINE X == Doomed(v)
<1>4. X \in SUBSET Creature
  BY DEF Doomed
<1> HIDE DEF X
<1>5. Deleted(v, X) \in Worlds
  BY <1>2, <1>4, DeletedWorld
<1> QED BY <1>2, <1>3, <1>5 DEF X

\* An entry is erased, and its reference given back.
Forgot(x, n) == IF n \in x.known THEN UnRef([x EXCEPT !.known = @ \ {n}], n[3]) ELSE x

LEMMA WithoutEntry ==
  ASSUME NEW w \in Worlds, NEW n
  PROVE  LET x == [w EXCEPT !.known = @ \ {n}]
         IN  /\ x \in Worlds /\ x.cr = w.cr /\ x.known = w.known \ {n}
             /\ x.toAdd = w.toAdd /\ x.spawned = w.spawned /\ x.armed = w.armed
BY DEF Worlds

LEMMA ForgotWorld ==
  ASSUME NEW w \in Worlds, NEW n
  PROVE  Forgot(w, n) \in Worlds
<1> DEFINE x == [w EXCEPT !.known = @ \ {n}]
<1>1. x \in Worlds
  BY WithoutEntry
<1>2. n \in w.known => n[3] \in Creature
  BY DEF Worlds
<1>3. Forgot(w, n) = IF n \in w.known THEN UnRef(x, n[3]) ELSE w
  BY DEF Forgot
<1> HIDE DEF x
<1> QED BY <1>1, <1>2, <1>3, UnRefWorld

\* Forgets goes through entries of lists.
Forgetting(f, w, S) ==
  /\ f[{}] = w
  /\ \A s \in SUBSET S : s # {} => \E n \in s : f[s] = Forgot(f[s \ {n}], n)

LEMMA ForgetFold ==
  ASSUME NEW w \in Worlds, NEW S \in SUBSET w.known
  PROVE  \E f : Forgets(w, S) = f[S] /\ Forgetting(f, w, S)
<1> DEFINE step == [p \in S \X Worlds |-> Forgot(p[2], p[1])]
           G(f, s) == IF s = {} THEN w ELSE Forgot(f[s \ {Chosen(s)}], Chosen(s))
           Eq(f) == f = [s \in SUBSET S |-> G(f, s)]
<1>1. w \in Worlds /\ IsFiniteSet(S)
  BY FS_Subset, NotedType
<1>2. step \in [S \X Worlds -> Worlds]
  <2> SUFFICES ASSUME NEW m \in S, NEW x \in Worlds PROVE Forgot(x, m) \in Worlds
    OBVIOUS
  <2> QED BY ForgotWorld
<1>3. PICK f \in [SUBSET S -> Worlds] : Folds(f, S, w, step)
  <2> HIDE DEF step
  <2> QED BY <1>1, <1>2, FoldSolvable
<1>4. Eq(f)
  <2>1. \A s \in SUBSET S : f[s] = IF s = {} THEN w ELSE step[<<Chosen(s), f[s \ {Chosen(s)}]>>]
    BY <1>3 DEF Folds
  <2>2. ASSUME NEW s \in SUBSET S, s # {}
        PROVE  step[<<Chosen(s), f[s \ {Chosen(s)}]>>] = Forgot(f[s \ {Chosen(s)}], Chosen(s))
    <3>1. Chosen(s) \in S /\ f[s \ {Chosen(s)}] \in Worlds
      BY <2>2 DEF Chosen
    <3> QED BY <3>1
  <2>3. \A s \in SUBSET S : f[s] = G(f, s)
    BY <2>1, <2>2
  <2> HIDE DEF G
  <2> QED BY <2>3
<1>5. Forgets(w, S) = (CHOOSE g : Eq(g))[S]
  BY DEF Forgets, FoldSet, MapThenFoldSet, Forgot, Chosen
<1> DEFINE g == CHOOSE g : Eq(g)
<1>6. Eq(g)
  <2> HIDE DEF Eq
  <2> QED BY <1>4
<1>7. g[{}] = w
  BY <1>6
<1>8. ASSUME NEW s \in SUBSET S, s # {}
      PROVE  \E m \in s : g[s] = Forgot(g[s \ {m}], m)
  BY <1>6, <1>8 DEF Chosen
<1> HIDE DEF g, step
<1>9. Forgetting(g, w, S)
  BY <1>7, <1>8 DEF Forgetting
<1>10. Forgets(w, S) = g[S]
  BY <1>5 DEF g
<1> QED BY <1>9, <1>10

LEMMA ForgetsWorld ==
  ASSUME NEW w \in Worlds, NEW S \in SUBSET w.known
  PROVE  Forgets(w, S) \in Worlds
<1>1. PICK f : Forgets(w, S) = f[S] /\ Forgetting(f, w, S)
  BY ForgetFold
<1> DEFINE T == {s \in SUBSET S : f[s] \in Worlds}
<1>2. {} \in T
  BY <1>1 DEF Forgetting
<1>3. \A s \in SUBSET S : s # {} => \E n \in s : s \ {n} \in T => s \in T
  <2> SUFFICES ASSUME NEW s \in SUBSET S, s # {}
               PROVE  \E n \in s : s \ {n} \in T => s \in T
    OBVIOUS
  <2>1. PICK n \in s : f[s] = Forgot(f[s \ {n}], n)
    BY <1>1 DEF Forgetting
  <2> QED BY <2>1, ForgotWorld
<1>4. IsFiniteSet(S)
  BY FS_Subset, NotedType
<1> HIDE DEF T
<1>5. SUBSET S \subseteq T
  BY <1>2, <1>3, <1>4, SubsetInduction
<1> QED BY <1>1, <1>5 DEF T

LEMMA AddCheckWorld ==
  ASSUME NEW w \in Worlds, NEW c \in Creature, NEW v \in Vectors
  PROVE  AddCheck(w, c, v) \in Worlds
<1>1. w.cr[c] \in Objects
  BY ObjectsOf
<1> DEFINE o == [w.cr[c] EXCEPT !.checked = TRUE]
           l == [w.cr[c] EXCEPT !.checked = TRUE, !.vec = v, !.refs = w.cr[c].refs + 1]
<1>2. o \in Objects /\ l \in Objects
  BY <1>1, Edits
<1>3. [w EXCEPT !.cr[c] = o] \in Worlds /\ [w EXCEPT !.cr[c] = l] \in Worlds
  BY <1>2, Replaced
<1>4. [w EXCEPT !.cr[c] = l, !.toAdd = Append(w.toAdd, c)] \in Worlds
  BY <1>3, AppendProperties DEF Worlds
<1>5. CASE ~InGame(w, c)
  BY <1>5 DEF AddCheck
<1>6. CASE InGame(w, c) /\ IsListed(w, c)
  <2>1. AddCheck(w, c, v) = [w EXCEPT !.cr[c] = o]
    BY <1>6 DEF AddCheck
  <2> QED BY <1>3, <2>1
<1>7. CASE InGame(w, c) /\ ~IsListed(w, c)
  <2>1. AddCheck(w, c, v) =
          [w EXCEPT !.cr[c] = [w.cr[c] EXCEPT !.checked = TRUE, !.vec = v, !.refs = w.cr[c].refs + 1],
                    !.toAdd = Append(w.toAdd, c)]
    BY <1>7 DEF AddCheck
  <2> QED BY <1>4, <2>1
<1> QED BY <1>5, <1>6, <1>7

LEMMA KilledWorld ==
  ASSUME NEW w \in Worlds, NEW c \in Creature, NEW v \in Vectors
  PROVE  Killed(w, c, v) \in Worlds
<1> DEFINE x == SetIdle(w, c, FALSE, v)
<1>1. x \in Worlds
  BY AddCheckWorld DEF SetIdle
<1> HIDE DEF x
<1>2. [x.cr[c] EXCEPT !.alive = FALSE] \in Objects
  BY <1>1, ObjectsOf, Edits
<1>3. Killed(w, c, v) = [x EXCEPT !.cr[c] = [x.cr[c] EXCEPT !.alive = FALSE]]
  BY DEF Killed, x
<1>4. [x EXCEPT !.cr[c] = [x.cr[c] EXCEPT !.alive = FALSE]] \in Worlds
  BY <1>1, <1>2, Replaced
<1> QED BY <1>3, <1>4

\* A summon and its master do not know each other any more.
Cut(w, c, m) == [w EXCEPT !.cr[m].master = NULL, !.cr[c].summons = @ \ {m}]

LEMMA CutWorld ==
  ASSUME NEW w \in Worlds, NEW c \in Creature, NEW m \in Creature
  PROVE  LET x == Cut(w, c, m)
         IN  /\ x \in Worlds
             /\ x.toAdd = w.toAdd /\ x.spawned = w.spawned /\ x.armed = w.armed /\ x.known = w.known
             /\ c # m =>
                  /\ x.cr[m] = [w.cr[m] EXCEPT !.master = NULL]
                  /\ x.cr[c] = [w.cr[c] EXCEPT !.summons = w.cr[c].summons \ {m}]
             /\ \A d \in Creature : d # m /\ d # c => x.cr[d] = w.cr[d]
<1> DEFINE o == [w.cr[m] EXCEPT !.master = NULL]
           x == [w EXCEPT !.cr[m] = o]
           l == [x.cr[c] EXCEPT !.summons = x.cr[c].summons \ {m}]
           y == [x EXCEPT !.cr[c] = l]
<1>1. w.cr[m] \in Objects /\ o \in Objects
  BY ObjectsOf, Edits
<1>2. /\ x \in Worlds /\ x.cr[m] = o
      /\ \A d \in Creature : d # m => x.cr[d] = w.cr[d]
      /\ x.toAdd = w.toAdd /\ x.spawned = w.spawned /\ x.armed = w.armed /\ x.known = w.known
  BY <1>1, Replaced
<1>3. Cut(w, c, m) = y
  BY DEF Cut, Worlds
<1> HIDE DEF o, x
<1>4. l \in Objects
  BY <1>2, ObjectsOf, Edits
<1> HIDE DEF l
<1>5. /\ y \in Worlds /\ y.cr[c] = l
      /\ \A d \in Creature : d # c => y.cr[d] = x.cr[d]
      /\ y.toAdd = x.toAdd /\ y.spawned = x.spawned /\ y.armed = x.armed /\ y.known = x.known
  BY <1>2, <1>4, Replaced
<1> HIDE DEF y
<1>6. c # m => l = [w.cr[c] EXCEPT !.summons = w.cr[c].summons \ {m}]
  BY <1>2 DEF l
<1> QED BY <1>2, <1>3, <1>5, <1>6 DEF o

LEMMA RemoveSummonWorld ==
  ASSUME NEW w \in Worlds, NEW c \in Creature \cup {NULL}, NEW m \in Creature
  PROVE  RemoveSummon(w, c, m) \in Worlds
<1>1. CASE c = NULL \/ m \notin w.cr[c].summons
  BY <1>1 DEF RemoveSummon
<1>2. CASE ~(c = NULL \/ m \notin w.cr[c].summons)
  BY <1>2, CutWorld, UnRefWorld DEF RemoveSummon, Cut
<1> QED BY <1>1, <1>2

\* What is left of a creature that is taken out of the game, but for its master.
Out(w, c) ==
  [w EXCEPT !.armed = StartsEvent(w, c),
            !.cr[c] = [w.cr[c] EXCEPT !.life = "removed", !.alive = TRUE, !.place = NULL,
                                      !.checked = FALSE, !.freed = w.cr[c].freed + 1]]

LEMMA OutWorld ==
  ASSUME NEW w \in Worlds, NEW c \in Creature
  PROVE  LET x == Out(w, c)
         IN  /\ x \in Worlds
             /\ x.cr[c] = [w.cr[c] EXCEPT !.life = "removed", !.alive = TRUE, !.place = NULL,
                                          !.checked = FALSE, !.freed = w.cr[c].freed + 1]
             /\ \A d \in Creature : d # c => x.cr[d] = w.cr[d]
             /\ x.toAdd = w.toAdd /\ x.spawned = w.spawned /\ x.known = w.known
             /\ x.armed = (w.armed \/ w.cr[c].place # NULL)
<1> DEFINE o == [w.cr[c] EXCEPT !.life = "removed", !.alive = TRUE, !.place = NULL,
                                !.checked = FALSE, !.freed = w.cr[c].freed + 1]
           y == [w EXCEPT !.cr[c] = o]
           a == w.armed \/ w.cr[c].place # NULL
<1>1. o \in Objects
  BY ObjectsOf, Edits
<1>2. Out(w, c) = [y EXCEPT !.armed = a]
  BY DEF Out, StartsEvent, Worlds
<1> HIDE DEF o
<1>3. /\ y \in Worlds /\ y.cr[c] = o
      /\ \A d \in Creature : d # c => y.cr[d] = w.cr[d]
      /\ y.toAdd = w.toAdd /\ y.spawned = w.spawned /\ y.known = w.known
  BY <1>1, Replaced
<1>4. a \in BOOLEAN
  OBVIOUS
<1> HIDE DEF y, a
<1>5. LET x == [y EXCEPT !.armed = a]
      IN  /\ x \in Worlds /\ x.cr = y.cr /\ x.toAdd = y.toAdd /\ x.spawned = y.spawned
          /\ x.armed = a /\ x.known = y.known
  BY <1>3, <1>4 DEF Worlds
<1> QED BY <1>2, <1>3, <1>5 DEF o, a

\* And it leaves its master.
Leaves(w, c) ==
  IF w.cr[c].master # NULL /\ InGame(Out(w, c), w.cr[c].master)
  THEN RemoveSummon(Out(w, c), w.cr[c].master, c) ELSE Out(w, c)

\* The entries that are erased before.
Leaving(w, c, told) ==
  {n \in w.known : \/ n[3] = c /\ n \in told
                   \/ n[1] = c /\ w.cr[c].alive}

LEMMA TakenOutIs ==
  ASSUME NEW w, NEW c, NEW told
  PROVE  TakenOut(w, c, told) = Leaves(Forgets(w, Leaving(w, c, told)), c)
BY DEF TakenOut, Out, Leaves, Leaving

LEMMA LeavesWorld ==
  ASSUME NEW w \in Worlds, NEW c \in Creature
  PROVE  Leaves(w, c) \in Worlds
<1>1. w.cr[c].master \in Creature \cup {NULL}
  BY ObjectsOf DEF Objects
<1>2. Out(w, c) \in Worlds
  BY OutWorld
<1>3. RemoveSummon(Out(w, c), w.cr[c].master, c) \in Worlds
  BY <1>1, <1>2, RemoveSummonWorld
<1> QED BY <1>2, <1>3 DEF Leaves

LEMMA TakenOutWorld ==
  ASSUME NEW w \in Worlds, NEW c \in Creature, NEW told
  PROVE  TakenOut(w, c, told) \in Worlds
<1>1. Leaving(w, c, told) \in SUBSET w.known
  BY DEF Leaving
<1> QED BY <1>1, ForgetsWorld, LeavesWorld, TakenOutIs

-----------------------------------------------------------------------------
(* The folds                                                                 *)


LEMMA SummonsFinite ==
  ASSUME NEW w \in Worlds, NEW c \in Creature
  PROVE  IsFiniteSet(w.cr[c].summons) /\ w.cr[c].summons \subseteq Monsters
<1>1. w.cr[c].summons \subseteq Monsters
  BY ObjectsOf DEF Objects
<1> QED BY <1>1, FS_Subset, CreaturesAssumption DEF CreaturesAssumption

\* destroySummons goes through the summons of c.
Destroys(f, w, c, v) ==
  /\ f[{}] = w
  /\ \A s \in SUBSET w.cr[c].summons : s # {} => \E m \in s : f[s] = RemoveSummon(Killed(f[s \ {m}], m, v), c, m)

LEMMA DestroyFold ==
  ASSUME NEW w \in Worlds, NEW c \in Creature, NEW v \in Vectors
  PROVE  \E f : DestroySummons(w, c, v) = f[w.cr[c].summons] /\ Destroys(f, w, c, v)
<1> DEFINE S == w.cr[c].summons
           step == [p \in S \X Worlds |-> RemoveSummon(Killed(p[2], p[1], v), c, p[1])]
           G(f, s) == IF s = {} THEN w ELSE RemoveSummon(Killed(f[s \ {Chosen(s)}], Chosen(s), v), c, Chosen(s))
           Eq(f) == f = [s \in SUBSET S |-> G(f, s)]
<1>1. w \in Worlds /\ IsFiniteSet(S) /\ S \subseteq Creature
  BY SummonsFinite DEF Creature
<1>2. step \in [S \X Worlds -> Worlds]
  <2> SUFFICES ASSUME NEW m \in S, NEW x \in Worlds PROVE RemoveSummon(Killed(x, m, v), c, m) \in Worlds
    OBVIOUS
  <2>1. m \in Creature
    BY <1>1
  <2> QED BY <2>1, KilledWorld, RemoveSummonWorld
<1>3. PICK f \in [SUBSET S -> Worlds] : Folds(f, S, w, step)
  <2> HIDE DEF step, S
  <2> QED BY <1>1, <1>2, FoldSolvable
<1>4. Eq(f)
  <2>1. \A s \in SUBSET S : f[s] = IF s = {} THEN w ELSE step[<<Chosen(s), f[s \ {Chosen(s)}]>>]
    BY <1>3 DEF Folds
  <2>2. ASSUME NEW s \in SUBSET S, s # {}
        PROVE  step[<<Chosen(s), f[s \ {Chosen(s)}]>>] = RemoveSummon(Killed(f[s \ {Chosen(s)}], Chosen(s), v), c, Chosen(s))
    <3>1. Chosen(s) \in S /\ f[s \ {Chosen(s)}] \in Worlds
      BY <2>2 DEF Chosen
    <3> QED BY <3>1
  <2>3. \A s \in SUBSET S : f[s] = G(f, s)
    BY <2>1, <2>2
  <2> HIDE DEF G
  <2> QED BY <2>3
<1>5. DestroySummons(w, c, v) = (CHOOSE g : Eq(g))[S]
  BY DEF DestroySummons, FoldSet, MapThenFoldSet, Chosen
<1> DEFINE g == CHOOSE g : Eq(g)
<1>6. Eq(g)
  <2> HIDE DEF Eq
  <2> QED BY <1>4
<1>7. g[{}] = w
  BY <1>6
<1>8. ASSUME NEW s \in SUBSET S, s # {}
      PROVE  \E m \in s : g[s] = RemoveSummon(Killed(g[s \ {m}], m, v), c, m)
  BY <1>6, <1>8 DEF Chosen
<1> HIDE DEF g, step
<1>9. Destroys(g, w, c, v)
  BY <1>7, <1>8 DEF Destroys
<1>10. DestroySummons(w, c, v) = g[S]
  BY <1>5 DEF g
<1> QED BY <1>9, <1>10

\* And so does removeCreature.
Removes(f, w, c, told) ==
  /\ f[{}] = TakenOut(w, c, told)
  /\ \A s \in SUBSET w.cr[c].summons : s # {} => \E m \in s : f[s] = TakenOut(f[s \ {m}], m, told)

LEMMA RemoveFold ==
  ASSUME NEW w \in Worlds, NEW c \in Creature, NEW told
  PROVE  \E f : RemoveCreature(w, c, told) = f[w.cr[c].summons] /\ Removes(f, w, c, told)
<1> DEFINE S == w.cr[c].summons
           step == [p \in S \X Worlds |-> TakenOut(p[2], p[1], told)]
           G(f, s) == IF s = {} THEN TakenOut(w, c, told) ELSE TakenOut(f[s \ {Chosen(s)}], Chosen(s), told)
           Eq(f) == f = [s \in SUBSET S |-> G(f, s)]
<1>1. TakenOut(w, c, told) \in Worlds /\ IsFiniteSet(S) /\ S \subseteq Creature
  BY SummonsFinite, TakenOutWorld DEF Creature
<1>2. step \in [S \X Worlds -> Worlds]
  <2> SUFFICES ASSUME NEW m \in S, NEW x \in Worlds PROVE TakenOut(x, m, told) \in Worlds
    OBVIOUS
  <2>1. m \in Creature
    BY <1>1
  <2> QED BY <2>1, TakenOutWorld
<1>3. PICK f \in [SUBSET S -> Worlds] : Folds(f, S, TakenOut(w, c, told), step)
  <2> HIDE DEF step, S
  <2> QED BY <1>1, <1>2, FoldSolvable
<1>4. Eq(f)
  <2>1. \A s \in SUBSET S : f[s] = IF s = {} THEN TakenOut(w, c, told) ELSE step[<<Chosen(s), f[s \ {Chosen(s)}]>>]
    BY <1>3 DEF Folds
  <2>2. ASSUME NEW s \in SUBSET S, s # {}
        PROVE  step[<<Chosen(s), f[s \ {Chosen(s)}]>>] = TakenOut(f[s \ {Chosen(s)}], Chosen(s), told)
    <3>1. Chosen(s) \in S /\ f[s \ {Chosen(s)}] \in Worlds
      BY <2>2 DEF Chosen
    <3> QED BY <3>1
  <2>3. \A s \in SUBSET S : f[s] = G(f, s)
    BY <2>1, <2>2
  <2> HIDE DEF G
  <2> QED BY <2>3
<1>5. RemoveCreature(w, c, told) = (CHOOSE g : Eq(g))[S]
  BY DEF RemoveCreature, FoldSet, MapThenFoldSet, Chosen
<1> DEFINE g == CHOOSE g : Eq(g)
<1>6. Eq(g)
  <2> HIDE DEF Eq
  <2> QED BY <1>4
<1>7. g[{}] = TakenOut(w, c, told)
  BY <1>6
<1>8. ASSUME NEW s \in SUBSET S, s # {}
      PROVE  \E m \in s : g[s] = TakenOut(g[s \ {m}], m, told)
  BY <1>6, <1>8 DEF Chosen
<1> HIDE DEF g, step
<1>9. Removes(g, w, c, told)
  BY <1>7, <1>8 DEF Removes
<1>10. RemoveCreature(w, c, told) = g[S]
  BY <1>5 DEF g
<1> QED BY <1>9, <1>10

\* A reference of c in releaseThings is given back.
CleanedOf(x, c) == UnRef([x EXCEPT !.cr[c].freed = @ - 1], c)

LEMMA CleanedOfWorld ==
  ASSUME NEW w \in Worlds, NEW c \in Creature
  PROVE  CleanedOf(w, c) \in Worlds
<1> DEFINE o == [w.cr[c] EXCEPT !.freed = w.cr[c].freed - 1]
           x == [w EXCEPT !.cr[c] = o]
<1>1. o \in Objects
  BY ObjectsOf, Edits
<1>2. x \in Worlds
  BY <1>1, Replaced
<1>3. CleanedOf(w, c) = UnRef(x, c)
  BY DEF CleanedOf
<1> HIDE DEF x
<1> QED BY <1>2, <1>3, UnRefWorld

\* cleanup goes through those that have references in releaseThings.
Cleans(f, w, S) ==
  /\ f[{}] = w
  /\ \A s \in SUBSET S : s # {} => \E m \in s : f[s] = CleanedOf(f[s \ {m}], m)

LEMMA CleanFold ==
  ASSUME NEW w \in Worlds, NEW S \in SUBSET Creature
  PROVE  \E f : FoldSet(LAMBDA c, x : UnRef([x EXCEPT !.cr[c].freed = @ - 1], c), w, S) = f[S] /\ Cleans(f, w, S)
<1> DEFINE step == [p \in S \X Worlds |-> CleanedOf(p[2], p[1])]
           G(f, s) == IF s = {} THEN w ELSE CleanedOf(f[s \ {Chosen(s)}], Chosen(s))
           Eq(f) == f = [s \in SUBSET S |-> G(f, s)]
<1>1. w \in Worlds /\ IsFiniteSet(S) /\ S \subseteq Creature
  BY FS_Subset, CreatureFinite
<1>2. step \in [S \X Worlds -> Worlds]
  <2> SUFFICES ASSUME NEW m \in S, NEW x \in Worlds PROVE CleanedOf(x, m) \in Worlds
    OBVIOUS
  <2>1. m \in Creature
    BY <1>1
  <2> QED BY <2>1, CleanedOfWorld
<1>3. PICK f \in [SUBSET S -> Worlds] : Folds(f, S, w, step)
  <2> HIDE DEF step
  <2> QED BY <1>1, <1>2, FoldSolvable
<1>4. Eq(f)
  <2>1. \A s \in SUBSET S : f[s] = IF s = {} THEN w ELSE step[<<Chosen(s), f[s \ {Chosen(s)}]>>]
    BY <1>3 DEF Folds
  <2>2. ASSUME NEW s \in SUBSET S, s # {}
        PROVE  step[<<Chosen(s), f[s \ {Chosen(s)}]>>] = CleanedOf(f[s \ {Chosen(s)}], Chosen(s))
    <3>1. Chosen(s) \in S /\ f[s \ {Chosen(s)}] \in Worlds
      BY <2>2 DEF Chosen
    <3> QED BY <3>1
  <2>3. \A s \in SUBSET S : f[s] = G(f, s)
    BY <2>1, <2>2
  <2> HIDE DEF G
  <2> QED BY <2>3
<1>5. FoldSet(LAMBDA c, x : UnRef([x EXCEPT !.cr[c].freed = @ - 1], c), w, S) = (CHOOSE g : Eq(g))[S]
  BY DEF FoldSet, MapThenFoldSet, CleanedOf, Chosen
<1> DEFINE g == CHOOSE g : Eq(g)
<1>6. Eq(g)
  <2> HIDE DEF Eq
  <2> QED BY <1>4
<1>7. g[{}] = w
  BY <1>6
<1>8. ASSUME NEW s \in SUBSET S, s # {}
      PROVE  \E m \in s : g[s] = CleanedOf(g[s \ {m}], m)
  BY <1>6, <1>8 DEF Chosen
<1> HIDE DEF g, step
<1>9. Cleans(g, w, S)
  BY <1>7, <1>8 DEF Cleans
<1>10. FoldSet(LAMBDA c, x : UnRef([x EXCEPT !.cr[c].freed = @ - 1], c), w, S) = g[S]
  BY <1>5 DEF g
<1> QED BY <1>9, <1>10

\* checkSpawn goes through the monsters that are gone.
Erases(f, w, S) ==
  /\ f[{}] = w
  /\ \A s \in SUBSET S : s # {} => \E m \in s : f[s] = UnRef(f[s \ {m}], m)

LEMMA EraseFold ==
  ASSUME NEW w \in Worlds, NEW S \in SUBSET Creature
  PROVE  \E f : FoldSet(LAMBDA m, x : UnRef(x, m), w, S) = f[S] /\ Erases(f, w, S)
<1> DEFINE step == [p \in S \X Worlds |-> UnRef(p[2], p[1])]
           G(f, s) == IF s = {} THEN w ELSE UnRef(f[s \ {Chosen(s)}], Chosen(s))
           Eq(f) == f = [s \in SUBSET S |-> G(f, s)]
<1>1. w \in Worlds /\ IsFiniteSet(S) /\ S \subseteq Creature
  BY FS_Subset, CreatureFinite
<1>2. step \in [S \X Worlds -> Worlds]
  <2> SUFFICES ASSUME NEW m \in S, NEW x \in Worlds PROVE UnRef(x, m) \in Worlds
    OBVIOUS
  <2>1. m \in Creature
    BY <1>1
  <2> QED BY <2>1, UnRefWorld
<1>3. PICK f \in [SUBSET S -> Worlds] : Folds(f, S, w, step)
  <2> HIDE DEF step
  <2> QED BY <1>1, <1>2, FoldSolvable
<1>4. Eq(f)
  <2>1. \A s \in SUBSET S : f[s] = IF s = {} THEN w ELSE step[<<Chosen(s), f[s \ {Chosen(s)}]>>]
    BY <1>3 DEF Folds
  <2>2. ASSUME NEW s \in SUBSET S, s # {}
        PROVE  step[<<Chosen(s), f[s \ {Chosen(s)}]>>] = UnRef(f[s \ {Chosen(s)}], Chosen(s))
    <3>1. Chosen(s) \in S /\ f[s \ {Chosen(s)}] \in Worlds
      BY <2>2 DEF Chosen
    <3> QED BY <3>1
  <2>3. \A s \in SUBSET S : f[s] = G(f, s)
    BY <2>1, <2>2
  <2> HIDE DEF G
  <2> QED BY <2>3
<1>5. FoldSet(LAMBDA m, x : UnRef(x, m), w, S) = (CHOOSE g : Eq(g))[S]
  BY DEF FoldSet, MapThenFoldSet, Chosen
<1> DEFINE g == CHOOSE g : Eq(g)
<1>6. Eq(g)
  <2> HIDE DEF Eq
  <2> QED BY <1>4
<1>7. g[{}] = w
  BY <1>6
<1>8. ASSUME NEW s \in SUBSET S, s # {}
      PROVE  \E m \in s : g[s] = UnRef(g[s \ {m}], m)
  BY <1>6, <1>8 DEF Chosen
<1> HIDE DEF g, step
<1>9. Erases(g, w, S)
  BY <1>7, <1>8 DEF Erases
<1>10. FoldSet(LAMBDA m, x : UnRef(x, m), w, S) = g[S]
  BY <1>5 DEF g
<1> QED BY <1>9, <1>10

-----------------------------------------------------------------------------
(* Parts of the invariant                                                    *)

\* Objects that differ at most in who refers to them.
Alike(a, b) ==
  /\ a.life = b.life /\ a.alive = b.alive /\ a.checked = b.checked /\ a.vec = b.vec
  /\ a.master = b.master /\ a.summons = b.summons /\ a.place = b.place

\* Creatures are listed as before when their vectors are the same.
LEMMA SameVectors ==
  ASSUME NEW w \in Worlds, NEW x, Listed(w), x.toAdd = w.toAdd,
         \A d \in Creature : x.cr[d].vec = w.cr[d].vec
  PROVE  Listed(x)
<1>1. \A i \in DOMAIN w.toAdd : w.toAdd[i] \in Creature
  BY DEF Worlds
<1>2. \A v \in Vectors : \A i \in DOMAIN checks[v] : checks[v][i] \in Creature
  BY DEF Listed
<1> QED BY <1>1, <1>2 DEF Listed

LEMMA SameNotes ==
  ASSUME NEW w \in Worlds, NEW x, Noting(w), x.known \subseteq w.known,
         \A d \in Creature : x.cr[d].life = "none" => w.cr[d].life = "none"
  PROVE  Noting(x)
<1>1. \A n \in w.known : n[1] \in Creature
  BY DEF Worlds, Creature
<1> QED BY <1>1 DEF Noting

LEMMA AlikeWorlds ==
  ASSUME NEW w, NEW x, NEW left,
         Alert(w), Linked(w), Together(w, left), AtHome(w), Listed(w), w \in Worlds, x \in Worlds,
         Noting(w), x.toAdd = w.toAdd, x.spawned = w.spawned, x.known = w.known,
         \A d \in Creature : Alike(x.cr[d], w.cr[d])
  PROVE  Alert(x) /\ Linked(x) /\ Together(x, left) /\ AtHome(x) /\ Listed(x) /\ Noting(x)
<1>1. Alert(x)
  BY DEF Alert, Alike, InGame
<1>2. Linked(x)
  BY DEF Linked, Alike
<1>3. Together(x, left)
  <2>1. \A d \in Creature : w.cr[d].master \in Creature \cup {NULL}
    BY ObjectsOf DEF Objects
  <2> QED BY <2>1 DEF Together, Alike, InGame
<1>4. AtHome(x)
  BY DEF AtHome, Alike, InGame
<1>5. Listed(x)
  BY SameVectors DEF Alike
<1>6. Noting(x)
  BY SameNotes DEF Alike
<1> QED BY <1>1, <1>2, <1>3, <1>4, <1>5, <1>6

\* The fields of an object.
LEMMA FieldsOf ==
  ASSUME NEW w \in Worlds, NEW c \in Creature
  PROVE  /\ w.cr[c].life \in {"none", "game", "removed"} /\ w.cr[c].alive \in BOOLEAN
         /\ w.cr[c].checked \in BOOLEAN /\ w.cr[c].vec \in {-1} \cup Vectors
         /\ w.cr[c].refs \in Int /\ w.cr[c].freed \in Int /\ w.cr[c].client \in BOOLEAN
         /\ w.cr[c].master \in Creature \cup {NULL} /\ w.cr[c].summons \subseteq Monsters
         /\ w.cr[c].place \in Places \cup {NULL}
BY ObjectsOf DEF Objects

LEMMA HeldType ==
  ASSUME NEW w \in Worlds, NEW c \in Creature, w.cr[c].freed >= 0
  PROVE  /\ Held(w, c) \in Nat
         /\ Held(w, c) = 0 <=>
              /\ ~InGame(w, c) /\ w.cr[c].freed = 0 /\ w.cr[c].vec = -1 /\ ~w.cr[c].client
              /\ w.cr[c].master = NULL /\ ~Housed(w, c) /\ Noted(w.known, c) = 0
<1> DEFINE a == Count(InGame(w, c))
           b == Count(w.cr[c].vec >= 0)
           e == Count(w.cr[c].client)
           g == Count(w.cr[c].master # NULL)
           h == Count(Housed(w, c))
           n == Noted(w.known, c)
           f == w.cr[c].freed
<1>1. /\ a \in {0, 1} /\ b \in {0, 1} /\ e \in {0, 1} /\ g \in {0, 1} /\ h \in {0, 1}
      /\ a = 0 <=> ~InGame(w, c)
      /\ b = 0 <=> ~(w.cr[c].vec >= 0)
      /\ e = 0 <=> ~w.cr[c].client
      /\ g = 0 <=> w.cr[c].master = NULL
      /\ h = 0 <=> ~Housed(w, c)
  BY DEF Count
<1>2. n \in Nat /\ f \in Nat
  BY NotedType, FieldsOf
<1>3. w.cr[c].vec = -1 <=> ~(w.cr[c].vec >= 0)
  <2>1. w.cr[c].vec \in {-1} \cup Vectors
    BY FieldsOf
  <2> QED BY <2>1 DEF Vectors
<1>4. Held(w, c) = a + f + b + e + g + h + n
  BY DEF Held
<1> HIDE DEF a, b, e, g, h, n, f
<1>5. a + f + b + e + g + h + n \in Nat
  BY <1>1, <1>2
<1>6. a + f + b + e + g + h + n = 0 <=> a = 0 /\ f = 0 /\ b = 0 /\ e = 0 /\ g = 0 /\ h = 0 /\ n = 0
  BY <1>1, <1>2
<1> QED BY <1>1, <1>3, <1>4, <1>5, <1>6 DEF n, f

\* Who is owed a reference exists.
LEMMA OwedExist ==
  ASSUME NEW w \in Worlds, NEW owed, Exact(w, owed), NEW c \in Creature, c \in owed
  PROVE  w.cr[c].life # "none"
<1> SUFFICES ASSUME w.cr[c].life = "none" PROVE FALSE
  OBVIOUS
<1>1. w.cr[c].refs = 0 /\ w.cr[c].freed = 0
  BY DEF Exact, Nothing
<1>2. Held(w, c) + Count(c \in owed) = 0
  BY <1>1 DEF Exact
<1>3. Held(w, c) \in Nat
  BY <1>1, HeldType
<1> QED BY <1>2, <1>3 DEF Count

\* Nobody refers to who does not exist.
LEMMA NobodyNotes ==
  ASSUME NEW w \in Worlds, NEW owed, Exact(w, owed), NEW c \in Creature, w.cr[c].life = "none"
  PROVE  Noted(w.known, c) = 0 /\ \A n \in w.known : n[3] # c
<1>1. w.cr[c].refs = 0 /\ w.cr[c].freed = 0
  BY DEF Exact, Nothing
<1>2. Held(w, c) + Count(c \in owed) = 0
  BY <1>1 DEF Exact
<1>3. Held(w, c) \in Nat /\ (Held(w, c) = 0 => Noted(w.known, c) = 0)
  BY <1>1, HeldType
<1>4. Noted(w.known, c) = 0
  BY <1>2, <1>3 DEF Count
<1>5. {n \in w.known : n[3] = c} = {}
  <2>1. {n \in w.known : n[3] = c} \in SUBSET w.known
    OBVIOUS
  <2> QED BY <1>4, <2>1, NotedType, FS_Subset, FS_EmptySet DEF Noted
<1> QED BY <1>4, <1>5

-----------------------------------------------------------------------------
(* Deletion                                                                  *)

\* The references that X owns are those of masters and those of lists.
LEMMA OwnedIs ==
  ASSUME NEW w \in Worlds, Linked(w), NEW X \in SUBSET Creature, NEW c \in Creature
  PROVE  LET mine == {n \in w.known : n[1] \in X}
             other == {n \in w.known : n[1] \notin X}
         IN  /\ Noted(mine, c) \in Nat /\ Noted(other, c) \in Nat
             /\ Owned(w, X, c) = Count(w.cr[c].master \in X) + Noted(mine, c)
             /\ Noted(w.known, c) = Noted(mine, c) + Noted(other, c)
<1> DEFINE mine == {n \in w.known : n[1] \in X}
           other == {n \in w.known : n[1] \notin X}
           A == {n \in mine : n[3] = c}
           B == {n \in other : n[3] = c}
           M == {d \in X : c \in w.cr[d].summons}
<1>1. IsFiniteSet(A) /\ IsFiniteSet(B) /\ Cardinality(A) \in Nat /\ Cardinality(B) \in Nat
  <2>1. A \in SUBSET w.known /\ B \in SUBSET w.known
    OBVIOUS
  <2> HIDE DEF A, B
  <2> QED BY <2>1, NotedType, FS_Subset, FS_CardinalityType
<1>2. Cardinality(A \cup B) = Cardinality(A) + Cardinality(B)
  <2>1. A \cap B = {}
    OBVIOUS
  <2> HIDE DEF A, B
  <2>2. Cardinality(A \cup B) = Cardinality(A) + Cardinality(B) - Cardinality(A \cap B)
    BY <1>1, FS_Union
  <2>3. Cardinality(A \cap B) = 0
    BY <2>1, FS_EmptySet
  <2> QED BY <1>1, <2>2, <2>3
<1>3. {n \in w.known : n[3] = c} = A \cup B
  OBVIOUS
<1>4. {n \in w.known : n[1] \in X /\ n[3] = c} = A
  OBVIOUS
<1>5. Cardinality(M) = Count(w.cr[c].master \in X)
  <2>1. \A d \in Creature : c \in w.cr[d].summons <=> w.cr[c].master = d
    BY DEF Linked
  <2>2. CASE w.cr[c].master \in X
    <3>1. M = {w.cr[c].master}
      BY <2>1, <2>2
    <3> QED BY <2>2, <3>1, FS_Singleton DEF Count
  <2>3. CASE w.cr[c].master \notin X
    <3>1. M = {}
      BY <2>1, <2>3
    <3> QED BY <2>3, <3>1, FS_EmptySet DEF Count
  <2> QED BY <2>2, <2>3
<1>6. Noted(w.known, c) = Noted(mine, c) + Noted(other, c)
  BY <1>2, <1>3 DEF Noted
<1>7. Owned(w, X, c) = Count(w.cr[c].master \in X) + Noted(mine, c)
  BY <1>4, <1>5 DEF Owned, Noted
<1> QED BY <1>1, <1>6, <1>7 DEF Noted

LEMMA OwnedGrows ==
  ASSUME NEW w \in Worlds, NEW X \in SUBSET Creature, NEW Y \in SUBSET X, NEW c
  PROVE  Owned(w, Y, c) <= Owned(w, X, c)
<1> DEFINE A == {d \in X : c \in w.cr[d].summons}
           B == {d \in Y : c \in w.cr[d].summons}
           K == {n \in w.known : n[1] \in X /\ n[3] = c}
           L == {n \in w.known : n[1] \in Y /\ n[3] = c}
<1>1. IsFiniteSet(A) /\ IsFiniteSet(K)
  <2>1. A \in SUBSET Creature /\ K \in SUBSET w.known
    OBVIOUS
  <2> HIDE DEF A, K
  <2> QED BY <2>1, NotedType, CreatureFinite, FS_Subset
<1>2. B \in SUBSET A /\ L \in SUBSET K
  OBVIOUS
<1>3. Owned(w, X, c) = Cardinality(A) + Cardinality(K) /\ Owned(w, Y, c) = Cardinality(B) + Cardinality(L)
  BY DEF Owned
<1> HIDE DEF A, B, K, L
<1>4. /\ Cardinality(B) <= Cardinality(A) /\ Cardinality(L) <= Cardinality(K)
      /\ Cardinality(A) \in Nat /\ Cardinality(B) \in Nat
      /\ Cardinality(K) \in Nat /\ Cardinality(L) \in Nat
  BY <1>1, <1>2, FS_Subset, FS_CardinalityType
<1> QED BY <1>3, <1>4

\* The doomed are those who have no references but those of the doomed.
LEMMA DoomedIs ==
  ASSUME NEW w \in Worlds
  PROVE  \A c \in Creature :
           c \in Doomed(w) <=> w.cr[c].life # "none" /\ w.cr[c].refs <= Owned(w, Doomed(w), c)
<1> DEFINE X == Doomed(w)
           Y == {c \in X : w.cr[c].life # "none" /\ w.cr[c].refs <= Owned(w, X, c)}
<1>1. X \in SUBSET Creature
  BY DEF Doomed
<1>2. ASSUME NEW Z \in SUBSET Creature, IsClosed(w, Z) PROVE X \subseteq Z
  BY <1>2 DEF Doomed
<1>3. ASSUME NEW c \in Creature, w.cr[c].life # "none", w.cr[c].refs <= Owned(w, X, c)
      PROVE  c \in X
  <2>1. ASSUME NEW Z \in SUBSET Creature, IsClosed(w, Z) PROVE c \in Z
    <3>1. Owned(w, X, c) <= Owned(w, Z, c)
      <4> HIDE DEF X
      <4> QED BY <1>2, <2>1, OwnedGrows
    <3>2. Owned(w, X, c) \in Nat /\ Owned(w, Z, c) \in Nat /\ w.cr[c].refs \in Int
      <4> HIDE DEF X
      <4> QED BY <1>1, OwnedType, FieldsOf
    <3>3. w.cr[c].refs <= Owned(w, Z, c)
      <4> HIDE DEF X
      <4> QED BY <1>3, <3>1, <3>2
    <3> QED BY <1>3, <2>1, <3>3 DEF IsClosed
  <2> QED BY <2>1 DEF Doomed
<1> HIDE DEF X
<1>4. IsClosed(w, Y)
  <2> SUFFICES ASSUME NEW c \in Creature, w.cr[c].life # "none", w.cr[c].refs <= Owned(w, Y, c)
               PROVE  c \in Y
    BY DEF IsClosed
  <2>1. Y \in SUBSET X
    OBVIOUS
  <2> HIDE DEF Y
  <2>2. /\ Owned(w, Y, c) <= Owned(w, X, c) /\ Owned(w, X, c) \in Nat /\ Owned(w, Y, c) \in Nat
        /\ w.cr[c].refs \in Int
    BY <1>1, <2>1, OwnedGrows, OwnedType, FieldsOf
  <2>3. w.cr[c].refs <= Owned(w, X, c)
    BY <2>2
  <2> QED BY <1>3, <2>3 DEF Y
<1>5. X \subseteq Y
  <2>1. Y \in SUBSET Creature
    BY <1>1
  <2> HIDE DEF Y
  <2> QED BY <1>2, <1>4, <2>1
<1> QED BY <1>1, <1>3, <1>5 DEF X

\* Some who were not in the game may be deleted; the others are as before, but
\* for references, and for masters who were deleted.
Spared(w, x) ==
  /\ x.toAdd = w.toAdd /\ x.spawned = w.spawned /\ x.armed = w.armed
  /\ x.known \subseteq w.known
  /\ \A d \in Creature :
       /\ InGame(x, d) <=> InGame(w, d)
       /\ x.cr[d].freed = w.cr[d].freed /\ x.cr[d].vec = w.cr[d].vec
       /\ x.cr[d].summons \subseteq w.cr[d].summons
       /\ x.cr[d].master = w.cr[d].master \/ x.cr[d].master = NULL
       /\ w.cr[d].master \in Creature /\ InGame(w, w.cr[d].master) => x.cr[d].master = w.cr[d].master
       /\ x.cr[d].life # "none" =>
            /\ x.cr[d].life = w.cr[d].life /\ x.cr[d].alive = w.cr[d].alive
            /\ x.cr[d].checked = w.cr[d].checked /\ x.cr[d].client = w.cr[d].client
            /\ x.cr[d].place = w.cr[d].place /\ x.cr[d].summons = w.cr[d].summons

\* Exact but for those whose last reference was given back.
Counted(w, owed) ==
  \A c \in Creature :
    /\ w.cr[c].freed >= 0
    /\ w.cr[c].refs = Held(w, c) + Count(c \in owed)
    /\ w.cr[c].life = "none" => w.cr[c] = Nothing

NothingIs ==
  /\ Nothing.life = "none" /\ Nothing.alive = TRUE /\ Nothing.checked = FALSE
  /\ Nothing.vec = -1 /\ Nothing.refs = 0 /\ Nothing.freed = 0 /\ Nothing.client = FALSE
  /\ Nothing.master = NULL /\ Nothing.summons = {} /\ Nothing.place = NULL

LEMMA NothingFields == NothingIs
BY DEF NothingIs, Nothing

\* The doomed are in nothing but lists and summons of the doomed.
LEMMA DoomedAreGone ==
  ASSUME NEW w \in Worlds, NEW owed, Counted(w, owed), Linked(w),
         NEW c \in Creature, c \in Doomed(w)
  PROVE  /\ w.cr[c].life = "removed" /\ w.cr[c].freed = 0 /\ w.cr[c].vec = -1
         /\ ~w.cr[c].client /\ ~Housed(w, c) /\ c \notin owed
         /\ w.cr[c].master = NULL \/ w.cr[c].master \in Doomed(w)
         /\ Noted({n \in w.known : n[1] \notin Doomed(w)}, c) = 0
<1> DEFINE X == Doomed(w)
           a == Count(InGame(w, c))
           b == Count(w.cr[c].vec >= 0)
           e == Count(w.cr[c].client)
           g == Count(w.cr[c].master # NULL)
           h == Count(Housed(w, c))
           i == Count(c \in owed)
           f == w.cr[c].freed
           k == Count(w.cr[c].master \in X)
           n == Noted(w.known, c)
           mine == Noted({nn \in w.known : nn[1] \in X}, c)
           other == Noted({nn \in w.known : nn[1] \notin X}, c)
<1>1. X \in SUBSET Creature
  BY DEF Doomed
<1>2. w.cr[c].life # "none" /\ w.cr[c].refs <= Owned(w, X, c)
  BY DoomedIs
<1> HIDE DEF X
<1>3. /\ mine \in Nat /\ other \in Nat /\ n = mine + other
      /\ Owned(w, X, c) = k + mine
  BY <1>1, OwnedIs
<1>4. /\ a \in {0, 1} /\ b \in {0, 1} /\ e \in {0, 1} /\ g \in {0, 1} /\ h \in {0, 1}
      /\ i \in {0, 1} /\ k \in {0, 1}
      /\ a = 0 <=> ~InGame(w, c)
      /\ b = 0 <=> ~(w.cr[c].vec >= 0)
      /\ e = 0 <=> ~w.cr[c].client
      /\ g = 0 <=> w.cr[c].master = NULL
      /\ h = 0 <=> ~Housed(w, c)
      /\ i = 0 <=> ~(c \in owed)
      /\ k = 0 <=> w.cr[c].master \notin X
  BY DEF Count
<1>5. k = 1 => g = 1
  BY <1>1, <1>4, CreaturesAssumption DEF CreaturesAssumption, Creature
<1>6. f \in Nat /\ w.cr[c].vec \in {-1} \cup Vectors /\ w.cr[c].life \in {"none", "game", "removed"}
  BY FieldsOf DEF Counted
<1>7. w.cr[c].refs = a + f + b + e + g + h + n + i
  BY DEF Counted, Held
<1> HIDE DEF a, b, e, g, h, i, k, f, n, mine, other
<1>8. a + f + b + e + g + h + (mine + other) + i <= k + mine
  BY <1>2, <1>3, <1>7
<1>9. a = 0 /\ f = 0 /\ b = 0 /\ e = 0 /\ h = 0 /\ i = 0 /\ other = 0 /\ g = k
  BY <1>3, <1>4, <1>5, <1>6, <1>8
<1>10. w.cr[c].vec = -1 /\ w.cr[c].life = "removed"
  BY <1>2, <1>4, <1>6, <1>9 DEF Vectors, InGame
<1> QED BY <1>4, <1>9, <1>10 DEF X, f, other

\* The others have references left.
LEMMA OthersAreCounted ==
  ASSUME NEW w \in Worlds, NEW owed, Counted(w, owed), Linked(w),
         NEW c \in Creature, c \notin Doomed(w)
  PROVE  LET x == Deleted(w, Doomed(w))
         IN  /\ x.cr[c].life = w.cr[c].life /\ x.cr[c].alive = w.cr[c].alive
             /\ x.cr[c].checked = w.cr[c].checked /\ x.cr[c].vec = w.cr[c].vec
             /\ x.cr[c].freed = w.cr[c].freed /\ x.cr[c].client = w.cr[c].client
             /\ x.cr[c].place = w.cr[c].place /\ x.cr[c].summons = w.cr[c].summons
             /\ x.cr[c].master = IF w.cr[c].master \in Doomed(w) THEN NULL ELSE w.cr[c].master
             /\ x.cr[c].refs = Held(x, c) + Count(c \in owed)
             /\ x.cr[c].life = "none" => x.cr[c] = Nothing
             /\ x.cr[c].life # "none" => x.cr[c].refs > 0
<1> DEFINE X == Doomed(w)
           x == Deleted(w, X)
           mine == Noted({nn \in w.known : nn[1] \in X}, c)
           other == Noted({nn \in w.known : nn[1] \notin X}, c)
<1>1. X \in SUBSET Creature
  BY DEF Doomed
<1>2. w.cr[c].life # "none" => ~(w.cr[c].refs <= Owned(w, X, c))
  BY DoomedIs
<1> HIDE DEF X
<1>3. /\ mine \in Nat /\ other \in Nat /\ Noted(w.known, c) = mine + other
      /\ Owned(w, X, c) = Count(w.cr[c].master \in X) + mine
  BY <1>1, OwnedIs
<1>4. c \notin X
  BY DEF X
<1>5. /\ x.spawned = w.spawned
      /\ x.known = {nn \in w.known : nn[1] \notin X}
      /\ x.cr[c] = Survives(w, X, c) /\ x.cr[c] \in Objects
  BY <1>1, <1>4, DeletedWorld, ObjectsOf
<1> HIDE DEF x
<1>6. (\E e \in X : c \in w.cr[e].summons) <=> w.cr[c].master \in X
  BY <1>1 DEF Linked
<1>7. w.cr[c] \in Objects
  BY ObjectsOf
<1>8. /\ x.cr[c].life = w.cr[c].life /\ x.cr[c].alive = w.cr[c].alive
      /\ x.cr[c].checked = w.cr[c].checked /\ x.cr[c].vec = w.cr[c].vec
      /\ x.cr[c].freed = w.cr[c].freed /\ x.cr[c].client = w.cr[c].client
      /\ x.cr[c].place = w.cr[c].place /\ x.cr[c].summons = w.cr[c].summons
      /\ x.cr[c].master = (IF w.cr[c].master \in X THEN NULL ELSE w.cr[c].master)
      /\ x.cr[c].refs = w.cr[c].refs - Owned(w, X, c)
  BY <1>5, <1>6, <1>7 DEF Objects, Survives
<1>9. Noted(x.known, c) = other
  BY <1>5
<1> HIDE DEF mine, other
<1>10. x.cr[c].refs = Held(x, c) + Count(c \in owed)
  <2> DEFINE a == Count(InGame(w, c))
             b == Count(w.cr[c].vec >= 0)
             e == Count(w.cr[c].client)
             g == Count(w.cr[c].master # NULL)
             gg == Count(x.cr[c].master # NULL)
             h == Count(Housed(w, c))
             i == Count(c \in owed)
             f == w.cr[c].freed
             k == Count(w.cr[c].master \in X)
  <2>1. /\ a \in {0, 1} /\ b \in {0, 1} /\ e \in {0, 1} /\ g \in {0, 1} /\ h \in {0, 1}
        /\ i \in {0, 1} /\ k \in {0, 1} /\ gg \in {0, 1}
    BY DEF Count
  <2>2. g = gg + k
    <3>1. NULL \notin X
      BY <1>1, CreaturesAssumption DEF CreaturesAssumption, Creature
    <3> QED BY <1>8, <3>1 DEF Count
  <2>3. f \in Int /\ w.cr[c].refs \in Int
    BY FieldsOf
  <2>4. Held(w, c) = a + f + b + e + g + h + (mine + other)
    BY <1>3 DEF Held
  <2>5. Held(x, c) = a + f + b + e + gg + h + other
    <3>1. InGame(x, c) = InGame(w, c) /\ Housed(x, c) = Housed(w, c)
      BY <1>5, <1>8 DEF InGame, Housed
    <3> QED BY <1>8, <1>9, <3>1 DEF Held
  <2>6. w.cr[c].refs = Held(w, c) + i
    BY DEF Counted
  <2>7. x.cr[c].refs = w.cr[c].refs - (k + mine)
    BY <1>3, <1>8
  <2> HIDE DEF a, b, e, g, gg, h, i, f, k
  <2> QED BY <1>3, <2>1, <2>2, <2>3, <2>4, <2>5, <2>6, <2>7 DEF i
<1>11. x.cr[c].life # "none" => x.cr[c].refs > 0
  <2>1. w.cr[c].refs \in Int /\ Owned(w, X, c) \in Nat
    BY <1>1, FieldsOf, OwnedType
  <2> QED BY <1>2, <1>8, <2>1
<1>12. x.cr[c].life = "none" => x.cr[c] = Nothing
  <2> SUFFICES ASSUME w.cr[c].life = "none" PROVE x.cr[c] = Nothing
    BY <1>8
  <2>1. w.cr[c] = Nothing /\ w.cr[c].freed >= 0 /\ w.cr[c].refs = Held(w, c) + Count(c \in owed)
    BY DEF Counted
  <2>2. Held(w, c) \in Nat /\ w.cr[c].refs = 0 /\ (Held(w, c) = 0 => Noted(w.known, c) = 0)
    BY <2>1, HeldType, NothingFields DEF NothingIs
  <2>3. Held(w, c) = 0 /\ Noted(w.known, c) = 0
    BY <2>1, <2>2 DEF Count
  <2>4. w.cr[c].master \notin X /\ w.cr[c].master = NULL
    BY <1>1, <2>1, NothingFields, CreaturesAssumption DEF NothingIs, CreaturesAssumption, Creature
  <2>5. Owned(w, X, c) = 0
    BY <1>3, <2>3, <2>4 DEF Count
  <2>6. x.cr[c].refs = 0 /\ x.cr[c].master = NULL
    BY <1>8, <2>2, <2>4, <2>5
  <2>7. /\ x.cr[c].life = "none" /\ x.cr[c].alive = TRUE /\ x.cr[c].checked = FALSE
        /\ x.cr[c].vec = -1 /\ x.cr[c].freed = 0 /\ x.cr[c].client = FALSE
        /\ x.cr[c].summons = {} /\ x.cr[c].place = NULL
    BY <1>8, <2>1, NothingFields DEF NothingIs
  <2> QED BY <1>5, <2>6, <2>7 DEF Objects, Nothing
<1> QED BY <1>8, <1>10, <1>11, <1>12 DEF x, X

\* The doomed are deleted, and nobody knows them any more.
LEMMA DeletedSound ==
  ASSUME NEW w \in Worlds, NEW owed, NEW left, Counted(w, owed), Alert(w), Linked(w),
         Together(w, left), AtHome(w), Listed(w), Noting(w)
  PROVE  LET x == Deleted(w, Doomed(w)) IN Sound(x, owed, left) /\ Spared(w, x)
<1> DEFINE X == Doomed(w)
           x == Deleted(w, X)
<1>1. X \in SUBSET Creature
  BY DEF Doomed
<1>2. \A d \in Creature : d \in X =>
        /\ w.cr[d].life = "removed" /\ w.cr[d].freed = 0 /\ w.cr[d].vec = -1
        /\ ~w.cr[d].client /\ ~Housed(w, d) /\ d \notin owed
        /\ w.cr[d].master = NULL \/ w.cr[d].master \in X
        /\ Noted({n \in w.known : n[1] \notin X}, d) = 0
  BY DoomedAreGone
<1>3. \A d \in Creature : d \notin X =>
        /\ x.cr[d].life = w.cr[d].life /\ x.cr[d].alive = w.cr[d].alive
        /\ x.cr[d].checked = w.cr[d].checked /\ x.cr[d].vec = w.cr[d].vec
        /\ x.cr[d].freed = w.cr[d].freed /\ x.cr[d].client = w.cr[d].client
        /\ x.cr[d].place = w.cr[d].place /\ x.cr[d].summons = w.cr[d].summons
        /\ x.cr[d].master = IF w.cr[d].master \in X THEN NULL ELSE w.cr[d].master
        /\ x.cr[d].refs = Held(x, d) + Count(d \in owed)
        /\ x.cr[d].life = "none" => x.cr[d] = Nothing
        /\ x.cr[d].life # "none" => x.cr[d].refs > 0
  BY OthersAreCounted
<1> HIDE DEF X
<1>4. /\ x \in Worlds
      /\ x.toAdd = w.toAdd /\ x.spawned = w.spawned /\ x.armed = w.armed
      /\ x.known = {n \in w.known : n[1] \notin X}
      /\ \A d \in X : x.cr[d] = Nothing
  BY <1>1, DeletedWorld
<1> HIDE DEF x
<1>5. \A d \in Creature : w.cr[d].master \in Creature \cup {NULL} /\ w.cr[d].freed >= 0
  BY FieldsOf DEF Counted
<1>6. \A d \in Creature :
       /\ InGame(x, d) <=> InGame(w, d)
       /\ x.cr[d].freed = w.cr[d].freed /\ x.cr[d].vec = w.cr[d].vec
       /\ x.cr[d].summons \subseteq w.cr[d].summons
       /\ x.cr[d].master = IF w.cr[d].master \in X THEN NULL ELSE w.cr[d].master
       /\ x.cr[d].life # "none" =>
            /\ x.cr[d].life = w.cr[d].life /\ x.cr[d].alive = w.cr[d].alive
            /\ x.cr[d].checked = w.cr[d].checked /\ x.cr[d].client = w.cr[d].client
            /\ x.cr[d].place = w.cr[d].place /\ x.cr[d].summons = w.cr[d].summons
       /\ x.cr[d].checked => w.cr[d].checked
  <2> SUFFICES ASSUME NEW d \in Creature
               PROVE  /\ InGame(x, d) <=> InGame(w, d)
                      /\ x.cr[d].freed = w.cr[d].freed /\ x.cr[d].vec = w.cr[d].vec
                      /\ x.cr[d].summons \subseteq w.cr[d].summons
                      /\ x.cr[d].master = IF w.cr[d].master \in X THEN NULL ELSE w.cr[d].master
                      /\ x.cr[d].life # "none" =>
                           /\ x.cr[d].life = w.cr[d].life /\ x.cr[d].alive = w.cr[d].alive
                           /\ x.cr[d].checked = w.cr[d].checked /\ x.cr[d].client = w.cr[d].client
                           /\ x.cr[d].place = w.cr[d].place /\ x.cr[d].summons = w.cr[d].summons
                      /\ x.cr[d].checked => w.cr[d].checked
    OBVIOUS
  <2>1. CASE d \in X
    <3>1. x.cr[d] = Nothing
      BY <1>4, <2>1
    <3>2. NothingIs
      BY NothingFields
    <3> QED BY <1>2, <2>1, <3>1, <3>2 DEF NothingIs, InGame
  <2>2. CASE d \notin X
    BY <1>3, <2>2 DEF InGame
  <2> QED BY <2>1, <2>2
<1>7. Exact(x, owed)
  <2> SUFFICES ASSUME NEW d \in Creature, d \in X
               PROVE  x.cr[d].refs = Held(x, d) + Count(d \in owed) /\ x.cr[d] = Nothing /\ x.cr[d].life = "none"
    BY <1>3, <1>5, <1>6 DEF Exact
  <2>1. x.cr[d] = Nothing /\ NothingIs
    BY <1>4, NothingFields
  <2>2. Noted(x.known, d) = 0 /\ ~Housed(x, d) /\ d \notin owed
    BY <1>2, <1>4 DEF Housed
  <2>3. Held(x, d) = 0
    BY <2>1, <2>2 DEF Held, Count, InGame, NothingIs
  <2> QED BY <2>1, <2>2, <2>3 DEF Count, NothingIs
<1>8. Alert(x)
  <2>1. \A d \in Creature : InGame(x, d) => x.cr[d].alive = w.cr[d].alive /\ x.cr[d].checked = w.cr[d].checked
    BY <1>6 DEF InGame
  <2> QED BY <1>6, <2>1 DEF Alert
<1>9. Linked(x)
  <2> SUFFICES ASSUME NEW m \in Creature, NEW d \in Creature
               PROVE  /\ m \in x.cr[d].summons <=> x.cr[m].master = d
                      /\ x.cr[m].master = d => x.cr[m].summons = {}
    BY DEF Linked
  <2>1. m \in w.cr[d].summons <=> w.cr[m].master = d
    BY DEF Linked
  <2>2. w.cr[m].master = d => w.cr[m].summons = {}
    BY DEF Linked
  <2>3. d # NULL
    BY CreaturesAssumption DEF CreaturesAssumption, Creature
  <2>4. x.cr[m].master = IF w.cr[m].master \in X THEN NULL ELSE w.cr[m].master
    BY <1>6
  <2>5. d \in X => x.cr[d].summons = {}
    BY <1>4, NothingFields DEF NothingIs
  <2>6. d \notin X => x.cr[d].summons = w.cr[d].summons
    BY <1>3
  <2>7. m \in x.cr[d].summons <=> x.cr[m].master = d
    BY <2>1, <2>3, <2>4, <2>5, <2>6
  <2> QED BY <1>6, <2>2, <2>3, <2>4, <2>7
<1>10. \A d \in Creature : InGame(w, d) => d \notin X
  BY <1>2 DEF InGame
<1>11. Together(x, left)
  <2>1. \A m \in Creature : x.cr[m].master # NULL => x.cr[m].master = w.cr[m].master /\ w.cr[m].master \in Creature
    BY <1>5, <1>6
  <2> QED BY <1>6, <2>1 DEF Together
<1>12. AtHome(x)
  <2>1. \A d \in Creature : InGame(x, d) => x.cr[d].place = w.cr[d].place
    BY <1>6 DEF InGame
  <2> QED BY <1>4, <1>6, <2>1 DEF AtHome
<1>13. Listed(x)
  BY <1>4, <1>6, SameVectors
<1>14. Noting(x)
  <2>1. \A n \in w.known : n[1] \in Creature
    BY DEF Worlds, Creature
  <2> QED BY <1>3, <1>4, <2>1 DEF Noting
<1>15. \A d \in Creature : InGame(w, w.cr[d].master) => x.cr[d].master = w.cr[d].master
  <2>1. \A d \in Creature : w.cr[d].master \in X => ~InGame(w, w.cr[d].master)
    BY <1>1, <1>10
  <2> QED BY <1>6, <2>1
<1>16. \A d \in Creature : x.cr[d].master = w.cr[d].master \/ x.cr[d].master = NULL
  BY <1>6
<1>17. Spared(w, x)
  BY <1>4, <1>6, <1>15, <1>16 DEF Spared
<1>18. Sound(x, owed, left)
  BY <1>4, <1>7, <1>8, <1>9, <1>11, <1>12, <1>13, <1>14 DEF Sound
<1> QED BY <1>17, <1>18 DEF x, X

-----------------------------------------------------------------------------
(* Giving a reference back                                                   *)

\* A reference of c was given back.
Returned(w, x, c) ==
  /\ Spared(w, x)
  /\ InGame(w, c) \/ w.cr[c].freed > 0 =>
       /\ x.cr[c] = [w.cr[c] EXCEPT !.refs = w.cr[c].refs - 1]
       /\ \A d \in Creature : d # c => x.cr[d] = w.cr[d]
       /\ x.known = w.known

\* unRef keeps the invariant.
LEMMA UnRefSound ==
  ASSUME NEW w, NEW owed, NEW left, Sound(w, owed, left), NEW c \in Creature, c \in owed
  PROVE  Sound(UnRef(w, c), owed \ {c}, left) /\ Returned(w, UnRef(w, c), c)
<1> DEFINE x == UnRef(w, c)
           o == [w.cr[c] EXCEPT !.refs = w.cr[c].refs - 1]
           v == [w EXCEPT !.cr[c] = o]
<1>0. /\ w \in Worlds /\ Exact(w, owed) /\ Alert(w) /\ Linked(w)
      /\ Together(w, left) /\ AtHome(w) /\ Listed(w) /\ Noting(w)
  BY DEF Sound
<1>1. w.cr[c] \in Objects /\ o \in Objects
  BY <1>0, ObjectsOf, Edits
<1>2. x = IF w.cr[c].refs # 1 THEN v ELSE Deleted(v, Doomed(v))
  BY DEF UnRef
<1>3. /\ Alike(o, w.cr[c]) /\ o.freed = w.cr[c].freed /\ o.client = w.cr[c].client
      /\ o.refs = w.cr[c].refs - 1
  BY <1>1 DEF Objects, Alike
<1> HIDE DEF o, x
<1>4. /\ v \in Worlds
      /\ v.cr[c] = o /\ \A d \in Creature : d # c => v.cr[d] = w.cr[d]
      /\ v.toAdd = w.toAdd /\ v.spawned = w.spawned /\ v.armed = w.armed /\ v.known = w.known
  BY <1>0, <1>1, Replaced
<1> HIDE DEF v
<1>5. \A d \in Creature :
        Alike(v.cr[d], w.cr[d]) /\ v.cr[d].freed = w.cr[d].freed /\ v.cr[d].client = w.cr[d].client
  BY <1>3, <1>4 DEF Alike
<1>6. Alert(v) /\ Linked(v) /\ Together(v, left) /\ AtHome(v) /\ Listed(v) /\ Noting(v)
  BY <1>0, <1>4, <1>5, AlikeWorlds
<1>7. \A d \in Creature : Held(v, d) = Held(w, d) /\ Held(w, d) \in Nat
  <2>1. \A d \in Creature : Held(v, d) = Held(w, d)
    BY <1>4, <1>5 DEF Held, InGame, Housed, Alike
  <2>2. \A d \in Creature : Held(w, d) \in Nat
    BY <1>0, HeldType DEF Exact
  <2> QED BY <2>1, <2>2
<1>8. w.cr[c].life # "none" /\ w.cr[c].refs \in Int
  BY <1>0, OwedExist, FieldsOf
<1>9. Counted(v, owed \ {c})
  <2> SUFFICES ASSUME NEW d \in Creature
               PROVE  /\ v.cr[d].freed >= 0
                      /\ v.cr[d].refs = Held(v, d) + Count(d \in owed \ {c})
                      /\ v.cr[d].life = "none" => v.cr[d] = Nothing
    BY DEF Counted
  <2>1. w.cr[d].freed >= 0 /\ w.cr[d].refs = Held(w, d) + Count(d \in owed)
    BY <1>0 DEF Exact
  <2>2. CASE d = c
    <3>1. Count(c \in owed \ {c}) = 0 /\ Count(c \in owed) = 1
      BY DEF Count
    <3>2. v.cr[c].life # "none"
      BY <1>3, <1>4, <1>8 DEF Alike
    <3> QED BY <1>3, <1>4, <1>5, <1>7, <1>8, <2>1, <2>2, <3>1, <3>2
  <2>3. CASE d # c
    <3>1. v.cr[d] = w.cr[d] /\ Count(d \in owed \ {c}) = Count(d \in owed)
      BY <1>4, <2>3 DEF Count
    <3> QED BY <1>0, <1>7, <2>1, <3>1 DEF Exact
  <2> QED BY <2>2, <2>3
<1>10. CASE w.cr[c].refs # 1
  <2>1. x = v
    BY <1>2, <1>10
  <2>2. Exact(v, owed \ {c})
    <3>1. w.cr[c].refs > 0 /\ v.cr[c].refs = w.cr[c].refs - 1
      BY <1>0, <1>3, <1>4, <1>8 DEF Exact
    <3>2. v.cr[c].refs > 0
      BY <1>8, <1>10, <3>1
    <3>3. \A d \in Creature : d # c => (v.cr[d].life # "none" => v.cr[d].refs > 0)
      BY <1>0, <1>4 DEF Exact
    <3> QED BY <1>9, <3>2, <3>3 DEF Exact, Counted
  <2>3. Sound(v, owed \ {c}, left)
    BY <1>4, <1>6, <2>2 DEF Sound
  <2>4. Spared(w, v)
    BY <1>4, <1>5 DEF Spared, Alike, InGame
  <2>5. Returned(w, v, c)
    BY <1>4, <2>4 DEF Returned, o
  <2> QED BY <2>1, <2>3, <2>5 DEF x
<1>11. CASE w.cr[c].refs = 1
  <2>1. x = Deleted(v, Doomed(v))
    BY <1>2, <1>11
  <2>2. Sound(x, owed \ {c}, left) /\ Spared(v, x)
    BY <1>4, <1>6, <1>9, <2>1, DeletedSound
  <2>3. ~InGame(w, c) /\ ~(w.cr[c].freed > 0)
    <3>1. Held(w, c) = 0 /\ w.cr[c].freed >= 0
      <4>1. w.cr[c].refs = Held(w, c) + Count(c \in owed) /\ w.cr[c].freed >= 0 /\ Count(c \in owed) = 1
        BY <1>0 DEF Exact, Count
      <4> QED BY <1>7, <1>11, <4>1
    <3> QED BY <1>0, <3>1, HeldType
  <2>4. Spared(w, x)
    <3>1. \A d \in Creature : w.cr[d].master \in Creature =>
            (InGame(v, w.cr[d].master) <=> InGame(w, w.cr[d].master))
      BY <1>5 DEF Alike, InGame
    <3> QED BY <1>4, <1>5, <2>2, <3>1 DEF Spared, Alike, InGame
  <2> QED BY <2>2, <2>3, <2>4 DEF x, Returned
<1> QED BY <1>10, <1>11

-----------------------------------------------------------------------------
(* Entries of lists                                                          *)

LEMMA SparedOnce ==
  ASSUME NEW w \in Worlds, NEW x, NEW y, Spared(w, x), Spared(x, y)
  PROVE  Spared(w, y)
<1>1. \A d \in Creature : w.cr[d].master \in Creature =>
        (InGame(x, w.cr[d].master) <=> InGame(w, w.cr[d].master))
  BY DEF Spared
<1>2. \A d \in Creature :
        \/ y.cr[d].life = "none"
        \/ x.cr[d].life # "none"
  BY DEF Spared
<1> QED BY <1>1, <1>2 DEF Spared

\* One entry less.
LEMMA NotedWithout ==
  ASSUME NEW w \in Worlds, NEW n \in w.known, NEW c
  PROVE  Noted(w.known, c) = Noted(w.known \ {n}, c) + Count(c = n[3])
<1> DEFINE A == {nn \in w.known : nn[3] = c}
           B == {nn \in w.known \ {n} : nn[3] = c}
<1>1. IsFiniteSet(A) /\ Cardinality(A) \in Nat
  <2>1. A \in SUBSET w.known
    OBVIOUS
  <2> QED BY <2>1, NotedType, FS_Subset, FS_CardinalityType
<1>2. CASE n[3] = c
  <2>1. B = A \ {n} /\ n \in A
    BY <1>2
  <2> HIDE DEF A, B
  <2>2. Cardinality(B) = Cardinality(A) - 1
    BY <1>1, <2>1, FS_RemoveElement
  <2> QED BY <1>1, <1>2, <2>2 DEF Noted, Count, A, B
<1>3. CASE n[3] # c
  <2>1. B = A
    BY <1>3
  <2> HIDE DEF A, B
  <2> QED BY <1>1, <1>3, <2>1 DEF Noted, Count, A, B
<1> QED BY <1>2, <1>3

\* An entry that is erased leaves its reference to be given back.
LEMMA ForgotSound ==
  ASSUME NEW w, NEW left, Sound(w, {}, left), NEW n
  PROVE  Sound(Forgot(w, n), {}, left) /\ Spared(w, Forgot(w, n))
<1>0. /\ w \in Worlds /\ Exact(w, {}) /\ Alert(w) /\ Linked(w)
      /\ Together(w, left) /\ AtHome(w) /\ Listed(w) /\ Noting(w)
  BY DEF Sound
<1>1. CASE n \notin w.known
  BY <1>1 DEF Forgot, Spared
<1>2. CASE n \in w.known
  <2> DEFINE x == [w EXCEPT !.known = @ \ {n}]
             c == n[3]
             y == UnRef(x, c)
  <2>1. c \in Creature
    BY <1>0, <1>2 DEF Worlds
  <2>2. /\ x \in Worlds /\ x.cr = w.cr /\ x.known = w.known \ {n}
        /\ x.toAdd = w.toAdd /\ x.spawned = w.spawned /\ x.armed = w.armed
    BY <1>0, WithoutEntry
  <2>3. Forgot(w, n) = y
    BY <1>2 DEF Forgot
  <2> HIDE DEF x, c, y
  <2>4. Exact(x, {c})
    <3> SUFFICES ASSUME NEW d \in Creature
                 PROVE  x.cr[d].refs = Held(x, d) + Count(d \in {c})
      BY <1>0, <2>2 DEF Exact
    <3>1. Noted(w.known, d) = Noted(x.known, d) + Count(d = n[3]) /\ Noted(x.known, d) \in Nat
      <4>1. Noted(w.known, d) = Noted(w.known \ {n}, d) + Count(d = n[3])
        BY <1>0, <1>2, NotedWithout
      <4>2. Noted(x.known, d) \in Nat
        BY <2>2, NotedType
      <4> QED BY <2>2, <4>1, <4>2
    <3>2. Count(d \in {c}) = Count(d = n[3]) /\ Count(d \in {}) = 0
      BY DEF Count, c
    <3>3. w.cr[d].refs = Held(w, d) + Count(d \in {}) /\ w.cr[d].refs \in Int /\ w.cr[d].freed \in Int
      BY <1>0, FieldsOf DEF Exact
    <3>4. InGame(x, d) = InGame(w, d) /\ Housed(x, d) = Housed(w, d)
      BY <2>2 DEF InGame, Housed
    <3>5. \A B : Count(B) \in Int
      BY DEF Count
    <3>6. Held(w, d) = Held(x, d) + Count(d = n[3]) /\ Held(x, d) \in Int
      BY <2>2, <3>1, <3>3, <3>4, <3>5 DEF Held
    <3> QED BY <2>2, <3>2, <3>3, <3>5, <3>6
  <2>5. /\ Alert(x) /\ Linked(x) /\ Together(x, left) /\ AtHome(x) /\ Listed(x)
    BY <1>0, <2>2 DEF Alert, Linked, Together, AtHome, Listed, InGame
  <2>6. Noting(x)
    BY <1>0, <2>2, SameNotes
  <2>7. Sound(x, {c}, left)
    BY <2>2, <2>4, <2>5, <2>6 DEF Sound
  <2>8. Sound(y, {c} \ {c}, left) /\ Returned(x, y, c)
    BY <2>1, <2>7, UnRefSound DEF y
  <2>9. {c} \ {c} = {}
    OBVIOUS
  <2>10. Spared(w, x)
    BY <2>2 DEF Spared, InGame
  <2>11. Spared(w, y)
    BY <1>0, <2>8, <2>10, SparedOnce DEF Returned
  <2> QED BY <2>3, <2>8, <2>9, <2>11
<1> QED BY <1>1, <1>2

LEMMA ForgetsSound ==
  ASSUME NEW w, NEW left, Sound(w, {}, left), NEW S \in SUBSET w.known
  PROVE  Sound(Forgets(w, S), {}, left) /\ Spared(w, Forgets(w, S))
<1> DEFINE Good(x) == Sound(x, {}, left) /\ Spared(w, x)
<1>0. w \in Worlds /\ IsFiniteSet(S)
  <2>1. w \in Worlds
    BY DEF Sound
  <2> QED BY <2>1, NotedType, FS_Subset
<1>1. PICK f : Forgets(w, S) = f[S] /\ Forgetting(f, w, S)
  BY <1>0, ForgetFold
<1>2. Good(w)
  BY DEF Spared
<1>3. ASSUME NEW x, Good(x), NEW n PROVE Good(Forgot(x, n))
  BY <1>0, <1>3, ForgotSound, SparedOnce
<1> DEFINE T == {s \in SUBSET S : Good(f[s])}
<1>4. {} \in T
  BY <1>1, <1>2 DEF Forgetting
<1>5. ASSUME NEW s \in SUBSET S, s # {} PROVE \E n \in s : s \ {n} \in T => s \in T
  <2> HIDE DEF Good
  <2>1. PICK n \in s : f[s] = Forgot(f[s \ {n}], n)
    BY <1>1, <1>5 DEF Forgetting
  <2> QED BY <1>3, <2>1
<1>6. S \in T
  <2> HIDE DEF T
  <2>1. SUBSET S \subseteq T
    BY <1>0, <1>4, <1>5, SubsetInduction
  <2> QED BY <2>1
<1> QED BY <1>1, <1>6

-----------------------------------------------------------------------------
(* Masters                                                                   *)

LEMMA NullIsNobody == NULL \notin Creature /\ NULL \notin Places
BY CreaturesAssumption DEF CreaturesAssumption, Creature

\* c does not have the summon m any more.
Severed(w, x, c, m) ==
  /\ x.toAdd = w.toAdd /\ x.spawned = w.spawned /\ x.armed = w.armed /\ x.known = w.known
  /\ x.cr[m] = [w.cr[m] EXCEPT !.master = NULL]
  /\ x.cr[c] = [w.cr[c] EXCEPT !.summons = w.cr[c].summons \ {m}]
  /\ \A d \in Creature : d # m /\ d # c => x.cr[d] = w.cr[d]

LEMMA CutSound ==
  ASSUME NEW w, NEW left, Sound(w, {}, left), NEW c \in Creature, NEW m \in Creature,
         m \in w.cr[c].summons
  PROVE  LET x == Cut(w, c, m)
         IN  Sound(x, {m}, left) /\ c # m /\ Severed(w, x, c, m)
<1> DEFINE x == Cut(w, c, m)
<1>0. /\ w \in Worlds /\ Exact(w, {}) /\ Alert(w) /\ Linked(w)
      /\ Together(w, left) /\ AtHome(w) /\ Listed(w) /\ Noting(w)
  BY DEF Sound
<1>1. w.cr[m].master = c /\ w.cr[m].summons = {}
  BY <1>0 DEF Linked
<1>2. c # m
  BY <1>1
<1>3. /\ x \in Worlds
      /\ x.toAdd = w.toAdd /\ x.spawned = w.spawned /\ x.armed = w.armed /\ x.known = w.known
      /\ x.cr[m] = [w.cr[m] EXCEPT !.master = NULL]
      /\ x.cr[c] = [w.cr[c] EXCEPT !.summons = w.cr[c].summons \ {m}]
      /\ \A d \in Creature : d # m /\ d # c => x.cr[d] = w.cr[d]
  BY <1>0, <1>2, CutWorld
<1> HIDE DEF x
<1>4. w.cr[m] \in Objects /\ w.cr[c] \in Objects
  BY <1>0, ObjectsOf
<1>5. /\ x.cr[m].life = w.cr[m].life /\ x.cr[m].alive = w.cr[m].alive
      /\ x.cr[m].checked = w.cr[m].checked /\ x.cr[m].vec = w.cr[m].vec
      /\ x.cr[m].refs = w.cr[m].refs /\ x.cr[m].freed = w.cr[m].freed
      /\ x.cr[m].client = w.cr[m].client /\ x.cr[m].master = NULL
      /\ x.cr[m].summons = w.cr[m].summons /\ x.cr[m].place = w.cr[m].place
  BY <1>3, <1>4 DEF Objects
<1>6. /\ x.cr[c].life = w.cr[c].life /\ x.cr[c].alive = w.cr[c].alive
      /\ x.cr[c].checked = w.cr[c].checked /\ x.cr[c].vec = w.cr[c].vec
      /\ x.cr[c].refs = w.cr[c].refs /\ x.cr[c].freed = w.cr[c].freed
      /\ x.cr[c].client = w.cr[c].client /\ x.cr[c].master = w.cr[c].master
      /\ x.cr[c].summons = w.cr[c].summons \ {m} /\ x.cr[c].place = w.cr[c].place
  BY <1>3, <1>4 DEF Objects
<1>7. \A d \in Creature :
        /\ x.cr[d].life = w.cr[d].life /\ x.cr[d].alive = w.cr[d].alive
        /\ x.cr[d].checked = w.cr[d].checked /\ x.cr[d].vec = w.cr[d].vec
        /\ x.cr[d].refs = w.cr[d].refs /\ x.cr[d].freed = w.cr[d].freed
        /\ x.cr[d].client = w.cr[d].client /\ x.cr[d].place = w.cr[d].place
        /\ d # m => x.cr[d].master = w.cr[d].master
        /\ x.cr[d].summons = w.cr[d].summons \ (IF d = c THEN {m} ELSE {})
  BY <1>3, <1>5, <1>6, <1>2
<1>8. \A d \in Creature : w.cr[d].life # "none" => x.cr[d].life # "none"
  BY <1>7
<1>9. w.cr[c].life # "none" /\ w.cr[m].life # "none"
  BY <1>0, <1>1, NullIsNobody DEF Exact, Nothing
<1>10. Exact(x, {m})
  <2> SUFFICES ASSUME NEW d \in Creature
               PROVE  /\ x.cr[d].freed >= 0
                      /\ x.cr[d].refs = Held(x, d) + Count(d \in {m})
                      /\ x.cr[d].life = "none" => x.cr[d] = Nothing
                      /\ x.cr[d].life # "none" => x.cr[d].refs > 0
    BY DEF Exact
  <2>1. x.cr[d].life = "none" => x.cr[d] = Nothing
    BY <1>0, <1>3, <1>7, <1>9 DEF Exact
  <2>2. /\ w.cr[d].refs = Held(w, d) + Count(d \in {}) /\ w.cr[d].freed >= 0
        /\ w.cr[d].life # "none" => w.cr[d].refs > 0
    BY <1>0 DEF Exact
  <2>3. /\ InGame(x, d) = InGame(w, d) /\ Housed(x, d) = Housed(w, d)
        /\ w.cr[d].freed \in Int
    BY <1>0, <1>3, <1>7, FieldsOf DEF InGame, Housed
  <2>4. CASE d = m
    <3>1. Count(x.cr[d].master # NULL) = 0 /\ Count(w.cr[d].master # NULL) = 1
          /\ Count(d \in {m}) = 1 /\ Count(d \in {}) = 0
      BY <1>1, <1>5, <2>4, NullIsNobody DEF Count
    <3>2. \A B : Count(B) \in Int
      BY DEF Count
    <3>3. Noted(x.known, d) = Noted(w.known, d) /\ Noted(w.known, d) \in Nat
      BY <1>0, <1>3, NotedType
    <3>4. Held(w, d) = Held(x, d) + 1 /\ Held(x, d) \in Int
      BY <1>7, <2>3, <3>1, <3>2, <3>3 DEF Held
    <3> QED BY <1>7, <2>1, <2>2, <3>1, <3>4
  <2>5. CASE d # m
    <3>1. Held(x, d) = Held(w, d) /\ Count(d \in {m}) = Count(d \in {})
      BY <1>3, <1>7, <2>3, <2>5 DEF Held, Count
    <3> QED BY <1>7, <2>1, <2>2, <3>1
  <2> QED BY <2>4, <2>5
<1>11. Alert(x)
  BY <1>0, <1>7 DEF Alert, InGame
<1>12. Linked(x)
  <2> SUFFICES ASSUME NEW n \in Creature, NEW d \in Creature
               PROVE  /\ n \in x.cr[d].summons <=> x.cr[n].master = d
                      /\ x.cr[n].master = d => x.cr[n].summons = {}
    BY DEF Linked
  <2>1. n \in w.cr[d].summons <=> w.cr[n].master = d
    BY <1>0 DEF Linked
  <2>2. w.cr[n].master = d => w.cr[n].summons = {}
    BY <1>0 DEF Linked
  <2>3. CASE n = m
    <3>1. x.cr[n].master # d
      BY <1>5, <2>3, NullIsNobody
    <3>2. n \notin x.cr[d].summons
      BY <1>1, <1>7, <2>1, <2>3
    <3> QED BY <3>1, <3>2
  <2>4. CASE n # m
    BY <1>7, <2>1, <2>2, <2>4
  <2> QED BY <2>3, <2>4
<1>13. Together(x, left)
  <2>1. \A n \in Creature : x.cr[n].master # NULL => x.cr[n].master = w.cr[n].master /\ w.cr[n].master \in Creature
    BY <1>0, <1>5, <1>7, FieldsOf
  <2> QED BY <1>0, <1>7, <2>1 DEF Together, InGame
<1>14. AtHome(x)
  BY <1>0, <1>3, <1>7 DEF AtHome, InGame
<1>15. Listed(x)
  <2>1. x.toAdd = w.toAdd /\ \A d \in Creature : x.cr[d].vec = w.cr[d].vec
    BY <1>3, <1>7
  <2> QED BY <1>0, <2>1, SameVectors
<1>16. Noting(x)
  BY <1>0, <1>3, <1>7, SameNotes
<1>17. Sound(x, {m}, left)
  BY <1>0, <1>3, <1>10, <1>11, <1>12, <1>13, <1>14, <1>15, <1>16 DEF Sound
<1>18. Severed(w, x, c, m)
  BY <1>3 DEF Severed
<1> QED BY <1>2, <1>17, <1>18 DEF x

\* And the reference of the master was given back.
Dismissed(w, x, c, m) ==
  /\ x.cr[m] = [w.cr[m] EXCEPT !.master = NULL, !.refs = w.cr[m].refs - 1]
  /\ x.cr[c] = [w.cr[c] EXCEPT !.summons = w.cr[c].summons \ {m}]
  /\ \A d \in Creature : d # m /\ d # c => x.cr[d] = w.cr[d]

\* removeSummon of a summon that is in the game: it is not deleted.
LEMMA RemoveSummonSound ==
  ASSUME NEW w, NEW left, Sound(w, {}, left), NEW c \in Creature \cup {NULL}, NEW m \in Creature,
         InGame(w, m)
  PROVE  LET x == RemoveSummon(w, c, m)
         IN  /\ Sound(x, {}, left)
             /\ x.toAdd = w.toAdd /\ x.spawned = w.spawned /\ x.armed = w.armed /\ x.known = w.known
             /\ \A d \in Creature : InGame(x, d) <=> InGame(w, d)
             /\ c = NULL \/ m \notin w.cr[c].summons => x = w
             /\ c \in Creature /\ m \in w.cr[c].summons => Dismissed(w, x, c, m)
<1>1. CASE c = NULL \/ m \notin w.cr[c].summons
  BY <1>1, NullIsNobody DEF RemoveSummon
<1>2. CASE c \in Creature /\ m \in w.cr[c].summons
  <2> DEFINE y == Cut(w, c, m)
             x == UnRef(y, m)
  <2>1. RemoveSummon(w, c, m) = x
    BY <1>2, NullIsNobody DEF RemoveSummon, Cut
  <2>2. /\ Sound(y, {m}, left) /\ c # m
        /\ y.toAdd = w.toAdd /\ y.spawned = w.spawned /\ y.armed = w.armed /\ y.known = w.known
        /\ y.cr[m] = [w.cr[m] EXCEPT !.master = NULL]
        /\ y.cr[c] = [w.cr[c] EXCEPT !.summons = w.cr[c].summons \ {m}]
        /\ \A d \in Creature : d # m /\ d # c => y.cr[d] = w.cr[d]
    <3>1. Sound(y, {m}, left) /\ c # m /\ Severed(w, y, c, m)
      BY <1>2, CutSound
    <3> HIDE DEF y
    <3> QED BY <3>1 DEF Severed
  <2> HIDE DEF y
  <2>3. w.cr[m] \in Objects /\ (c \in Creature => w.cr[c] \in Objects)
    BY ObjectsOf DEF Sound
  <2>4. /\ y.cr[m].life = w.cr[m].life /\ y.cr[c].life = w.cr[c].life /\ y.cr[m].refs = w.cr[m].refs
    BY <1>2, <2>2, <2>3 DEF Objects
  <2>5. InGame(y, m)
    BY <2>4 DEF InGame
  <2>6. /\ Sound(x, {m} \ {m}, left)
        /\ x.toAdd = y.toAdd /\ x.spawned = y.spawned /\ x.armed = y.armed /\ x.known = y.known
        /\ \A d \in Creature : InGame(x, d) <=> InGame(y, d)
        /\ x.cr[m] = [y.cr[m] EXCEPT !.refs = y.cr[m].refs - 1]
        /\ \A d \in Creature : d # m => x.cr[d] = y.cr[d]
    <3> USE DEF Spared
    <3>1. Sound(y, {m}, left) /\ m \in {m}
      BY <2>2
    <3>2. Sound(x, {m} \ {m}, left) /\ Returned(y, x, m)
      BY <3>1, UnRefSound
    <3> HIDE DEF x
    <3> QED BY <2>5, <3>2 DEF Returned
  <2> HIDE DEF x
  <2>7. {m} \ {m} = {}
    OBVIOUS
  <2>8. \A d \in Creature : InGame(x, d) <=> InGame(w, d)
    <3>1. \A d \in Creature : y.cr[d].life = w.cr[d].life
      BY <2>2, <2>4
    <3> QED BY <3>1, <2>6 DEF InGame
  <2>9. x.cr[m] = [w.cr[m] EXCEPT !.master = NULL, !.refs = w.cr[m].refs - 1]
    BY <2>2, <2>3, <2>4, <2>6 DEF Objects
  <2>10. x.cr[c] = [w.cr[c] EXCEPT !.summons = w.cr[c].summons \ {m}]
    BY <1>2, <2>2, <2>6
  <2>11. \A d \in Creature : d # m /\ d # c => x.cr[d] = w.cr[d]
    BY <2>2, <2>6
  <2>12. Sound(x, {}, left) /\ x.toAdd = w.toAdd /\ x.spawned = w.spawned /\ x.armed = w.armed /\ x.known = w.known
    BY <2>2, <2>6, <2>7
  <2>13. ~(c = NULL \/ m \notin w.cr[c].summons)
    BY <1>2, NullIsNobody
  <2>14. Dismissed(w, x, c, m)
    BY <2>9, <2>10, <2>11 DEF Dismissed
  <2> QED BY <2>1, <2>8, <2>12, <2>13, <2>14
<1> QED BY <1>1, <1>2

-----------------------------------------------------------------------------
(* Being checked                                                             *)

\* The methods of a creature that is checked leave the rest as it is.
Keeps(w, x) ==
  /\ x.spawned = w.spawned /\ x.armed = w.armed /\ x.known = w.known
  /\ \A d \in Creature :
       /\ x.cr[d].life = w.cr[d].life /\ x.cr[d].freed = w.cr[d].freed
       /\ x.cr[d].client = w.cr[d].client /\ x.cr[d].master = w.cr[d].master
       /\ x.cr[d].summons = w.cr[d].summons /\ x.cr[d].place = w.cr[d].place

LEMMA KeptLinks ==
  ASSUME NEW w, NEW x, NEW left, w \in Worlds, Keeps(w, x),
         Linked(w), Together(w, left), AtHome(w)
  PROVE  Linked(x) /\ Together(x, left) /\ AtHome(x) /\ (Noting(w) => Noting(x))
<1>1. \A d \in Creature : w.cr[d].master \in Creature \cup {NULL}
  BY FieldsOf
<1>2. Linked(x)
  BY DEF Linked, Keeps
<1>3. Together(x, left)
  BY <1>1 DEF Together, Keeps, InGame
<1>4. AtHome(x)
  BY DEF AtHome, Keeps, InGame
<1>5. Noting(w) => Noting(x)
  <2>1. x.known = w.known /\ \A d \in Creature : x.cr[d].life = "none" => w.cr[d].life = "none"
    BY DEF Keeps
  <2> QED BY <2>1, SameNotes
<1> QED BY <1>2, <1>3, <1>4, <1>5

\* The references of a creature that is not replaced.
LEMMA KeptExact ==
  ASSUME NEW w, NEW x, NEW owed, Exact(w, owed), x.spawned = w.spawned, x.known = w.known,
         NEW d \in Creature, x.cr[d] = w.cr[d]
  PROVE  /\ x.cr[d].freed >= 0
         /\ x.cr[d].refs = Held(x, d) + Count(d \in owed)
         /\ x.cr[d].life = "none" => x.cr[d] = Nothing
         /\ x.cr[d].life # "none" => x.cr[d].refs > 0
<1>1. Held(x, d) = Held(w, d)
  BY DEF Held, InGame, Housed
<1> QED BY <1>1 DEF Exact

LEMMA AddCheckSound ==
  ASSUME NEW w, NEW left, Sound(w, {}, left), NEW c \in Creature, NEW v \in Vectors
  PROVE  LET x == AddCheck(w, c, v)
         IN  /\ Sound(x, {}, left) /\ Keeps(w, x)
             /\ InGame(w, c) => x.cr[c].checked /\ x.cr[c].vec >= 0
             /\ x.cr[c].alive = w.cr[c].alive
             /\ \A d \in Creature : d # c => x.cr[d] = w.cr[d]
<1> DEFINE x == AddCheck(w, c, v)
<1>0. /\ w \in Worlds /\ x \in Worlds /\ Exact(w, {}) /\ Alert(w) /\ Linked(w)
      /\ Together(w, left) /\ AtHome(w) /\ Listed(w) /\ Noting(w)
  BY AddCheckWorld DEF Sound
<1>1. CASE ~InGame(w, c)
  BY <1>1 DEF AddCheck, Keeps
<1>2. CASE InGame(w, c) /\ w.cr[c].vec >= 0
  <2> DEFINE o == [w.cr[c] EXCEPT !.checked = TRUE]
  <2>1. w.cr[c] \in Objects /\ o \in Objects
    BY <1>0, ObjectsOf, Edits
  <2>2. x = [w EXCEPT !.cr[c] = o]
    BY <1>2 DEF AddCheck, IsListed
  <2>3. /\ x.cr[c] = o /\ \A d \in Creature : d # c => x.cr[d] = w.cr[d]
        /\ x.toAdd = w.toAdd /\ x.spawned = w.spawned /\ x.armed = w.armed /\ x.known = w.known
    <3> HIDE DEF o, x
    <3> QED BY <1>0, <2>1, <2>2, Replaced
  <2>4. /\ o.life = w.cr[c].life /\ o.alive = w.cr[c].alive
        /\ o.checked = TRUE /\ o.vec = w.cr[c].vec
        /\ o.refs = w.cr[c].refs /\ o.freed = w.cr[c].freed
        /\ o.client = w.cr[c].client /\ o.master = w.cr[c].master
        /\ o.summons = w.cr[c].summons /\ o.place = w.cr[c].place
    BY <2>1 DEF Objects
  <2> HIDE DEF o, x
  <2>5. Keeps(w, x) /\ \A d \in Creature : x.cr[d].vec = w.cr[d].vec
    BY <2>3, <2>4 DEF Keeps
  <2>6. Exact(x, {})
    <3>1. \A d \in Creature : d # c =>
            /\ x.cr[d].freed >= 0
            /\ x.cr[d].refs = Held(x, d) + Count(d \in {})
            /\ x.cr[d].life = "none" => x.cr[d] = Nothing
            /\ x.cr[d].life # "none" => x.cr[d].refs > 0
      BY <1>0, <2>3, KeptExact
    <3>2. Held(x, c) = Held(w, c)
      BY <2>3, <2>4 DEF Held, InGame, Housed
    <3>3. /\ x.cr[c].freed >= 0
          /\ x.cr[c].refs = Held(x, c) + Count(c \in {})
          /\ x.cr[c].life # "none" => x.cr[c].refs > 0
          /\ x.cr[c].life # "none"
      BY <1>0, <1>2, <2>3, <2>4, <3>2 DEF Exact, InGame
    <3> QED BY <3>1, <3>3 DEF Exact
  <2>7. Alert(x)
    BY <1>0, <1>2, <2>3, <2>4 DEF Alert, InGame
  <2>8. Listed(x)
    <3>1. x.toAdd = w.toAdd /\ \A d \in Creature : x.cr[d].vec = w.cr[d].vec
      BY <2>3, <2>5
    <3> QED BY <1>0, <3>1, SameVectors
  <2>9. Sound(x, {}, left)
    BY <1>0, <2>5, <2>6, <2>7, <2>8, KeptLinks DEF Sound
  <2> QED BY <1>2, <2>3, <2>4, <2>5, <2>9 DEF x
<1>3. CASE InGame(w, c) /\ ~(w.cr[c].vec >= 0)
  <2> DEFINE o == [w.cr[c] EXCEPT !.checked = TRUE, !.vec = v, !.refs = w.cr[c].refs + 1]
             y == [w EXCEPT !.cr[c] = o]
  <2>1. w.cr[c] \in Objects /\ o \in Objects
    BY <1>0, ObjectsOf, Edits
  <2>2. x = [y EXCEPT !.toAdd = Append(w.toAdd, c)]
    BY <1>3 DEF AddCheck, IsListed
  <2>3. /\ y \in Worlds /\ y.cr[c] = o /\ \A d \in Creature : d # c => y.cr[d] = w.cr[d]
        /\ y.toAdd = w.toAdd /\ y.spawned = w.spawned /\ y.armed = w.armed /\ y.known = w.known
    <3> HIDE DEF o
    <3> QED BY <1>0, <2>1, Replaced
  <2>4. /\ o.life = w.cr[c].life /\ o.alive = w.cr[c].alive
        /\ o.checked = TRUE /\ o.vec = v
        /\ o.refs = w.cr[c].refs + 1 /\ o.freed = w.cr[c].freed
        /\ o.client = w.cr[c].client /\ o.master = w.cr[c].master
        /\ o.summons = w.cr[c].summons /\ o.place = w.cr[c].place
    BY <2>1 DEF Objects
  <2> HIDE DEF o, x, y
  <2>5. /\ x.cr[c] = o /\ \A d \in Creature : d # c => x.cr[d] = w.cr[d]
        /\ x.toAdd = Append(w.toAdd, c) /\ x.spawned = w.spawned /\ x.armed = w.armed /\ x.known = w.known
    BY <2>2, <2>3 DEF Worlds
  <2>6. Keeps(w, x)
    BY <2>5, <2>4 DEF Keeps
  <2>7. v >= 0 /\ w.cr[c].vec = -1
    BY <1>0, <1>3, FieldsOf DEF Vectors
  <2>8. Exact(x, {})
    <3>1. \A d \in Creature : d # c =>
            /\ x.cr[d].freed >= 0
            /\ x.cr[d].refs = Held(x, d) + Count(d \in {})
            /\ x.cr[d].life = "none" => x.cr[d] = Nothing
            /\ x.cr[d].life # "none" => x.cr[d].refs > 0
      BY <1>0, <2>5, KeptExact
    <3>2. Count(x.cr[c].vec >= 0) = 1 /\ Count(w.cr[c].vec >= 0) = 0
      BY <2>4, <2>5, <2>7, <1>3 DEF Count
    <3>3. w.cr[c].freed \in Int /\ w.cr[c].refs \in Int /\ \A B : Count(B) \in Int
      BY <1>0, FieldsOf DEF Count
    <3>4. Held(x, c) = Held(w, c) + 1 /\ Held(w, c) \in Int
      <4>1. /\ InGame(x, c) = InGame(w, c) /\ Housed(x, c) = Housed(w, c)
            /\ x.cr[c].freed = w.cr[c].freed /\ x.cr[c].client = w.cr[c].client
            /\ x.cr[c].master = w.cr[c].master
        BY <2>4, <2>5 DEF InGame, Housed
      <4>2. Noted(x.known, c) = Noted(w.known, c) /\ Noted(w.known, c) \in Nat
        BY <1>0, <2>5, NotedType
      <4> QED BY <3>2, <3>3, <4>1, <4>2 DEF Held
    <3>5. /\ w.cr[c].freed >= 0 /\ w.cr[c].refs = Held(w, c) + Count(c \in {}) /\ w.cr[c].refs > 0
          /\ w.cr[c].life = "game"
      BY <1>0, <1>3 DEF Exact, InGame
    <3>6. /\ x.cr[c].freed >= 0
          /\ x.cr[c].refs = Held(x, c) + Count(c \in {})
          /\ x.cr[c].refs > 0
          /\ x.cr[c].life # "none"
      BY <2>4, <2>5, <3>3, <3>4, <3>5
    <3> QED BY <3>1, <3>6 DEF Exact
  <2>9. Alert(x)
    BY <1>0, <1>3, <2>4, <2>5, <2>7 DEF Alert, InGame
  <2>10. Listed(x)
    <3>0. w.toAdd \in Seq(Creature)
      BY <1>0 DEF Worlds
    <3>1. /\ Len(w.toAdd) \in Nat /\ DOMAIN w.toAdd = 1 .. Len(w.toAdd)
          /\ DOMAIN x.toAdd = 1 .. Len(w.toAdd) + 1
          /\ x.toAdd[Len(w.toAdd) + 1] = c
          /\ \A i \in DOMAIN w.toAdd : x.toAdd[i] = w.toAdd[i] /\ w.toAdd[i] \in Creature
      BY <2>5, <3>0, AppendProperties
    <3>2. \A u \in Vectors : \A i \in DOMAIN checks[u] : checks[u][i] \in Creature
      BY <1>0 DEF Listed
    <3>3. \A i \in DOMAIN x.toAdd :
            \/ i \in DOMAIN w.toAdd /\ x.toAdd[i] = w.toAdd[i]
            \/ i = Len(w.toAdd) + 1 /\ x.toAdd[i] = c
      BY <3>1
    <3>4. \A i \in DOMAIN w.toAdd : w.toAdd[i] # c
      BY <1>0, <1>3 DEF Listed
    <3>5. \A u \in Vectors : \A i \in DOMAIN checks[u] : checks[u][i] # c
      BY <1>0, <2>7 DEF Listed, Vectors
    <3>6. \A d \in Creature : d # c => x.cr[d].vec = w.cr[d].vec
      BY <2>5
    <3>7. x.cr[c].vec = v
      BY <2>4, <2>5
    <3>8. ASSUME NEW i \in DOMAIN x.toAdd PROVE x.cr[x.toAdd[i]].vec >= 0
      <4>1. CASE i \in DOMAIN w.toAdd /\ x.toAdd[i] = w.toAdd[i]
        <5>1. w.cr[w.toAdd[i]].vec >= 0
          BY <1>0, <4>1 DEF Listed
        <5>2. w.toAdd[i] \in Creature /\ w.toAdd[i] # c
          BY <3>1, <3>4, <4>1
        <5> QED BY <3>6, <4>1, <5>1, <5>2
      <4>2. CASE x.toAdd[i] = c
        BY <2>7, <3>7, <4>2
      <4> QED BY <3>3, <4>1, <4>2
    <3>9. \A i, j \in DOMAIN x.toAdd : x.toAdd[i] = x.toAdd[j] => i = j
      BY <1>0, <3>1, <3>3, <3>4 DEF Listed
    <3>10. \A u \in Vectors : \A i \in DOMAIN checks[u] :
             /\ x.cr[checks[u][i]].vec = u
             /\ \A j \in DOMAIN checks[u] : checks[u][i] = checks[u][j] => i = j
             /\ \A j \in DOMAIN x.toAdd : x.toAdd[j] # checks[u][i]
      BY <1>0, <3>2, <3>3, <3>5, <3>6 DEF Listed
    <3>11. ASSUME NEW d \in Creature, x.cr[d].vec >= 0
           PROVE  \/ \E i \in DOMAIN x.toAdd : x.toAdd[i] = d
                  \/ \E i \in DOMAIN checks[x.cr[d].vec] : checks[x.cr[d].vec][i] = d
      <4>1. CASE d = c
        <5>1. Len(w.toAdd) + 1 \in DOMAIN x.toAdd
          BY <3>1
        <5> QED BY <3>1, <4>1, <5>1
      <4>2. CASE d # c
        <5>1. \A i \in DOMAIN w.toAdd : i \in DOMAIN x.toAdd /\ x.toAdd[i] = w.toAdd[i]
          BY <3>1
        <5>2. x.cr[d].vec = w.cr[d].vec
          BY <3>6, <4>2
        <5>3. \/ \E i \in DOMAIN w.toAdd : w.toAdd[i] = d
              \/ \E i \in DOMAIN checks[w.cr[d].vec] : checks[w.cr[d].vec][i] = d
          <6>1. w.cr[d].vec >= 0 /\ Listed(w)
            BY <1>0, <3>11, <5>2
          <6> QED BY <6>1 DEF Listed
        <5> QED BY <5>1, <5>2, <5>3
      <4> QED BY <4>1, <4>2
    <3> QED BY <1>0, <3>8, <3>9, <3>10, <3>11 DEF Listed
  <2>11. Sound(x, {}, left)
    BY <1>0, <2>6, <2>8, <2>9, <2>10, KeptLinks DEF Sound
  <2> QED BY <2>4, <2>5, <2>6, <2>7, <2>11 DEF x
<1> QED BY <1>1, <1>2, <1>3

\* removeCreatureCheck of a creature that is not dying.
LEMMA RemoveCheckSound ==
  ASSUME NEW w, NEW left, Sound(w, {}, left), NEW c \in Creature,
         InGame(w, c) => c \in Monsters /\ w.cr[c].alive
  PROVE  LET x == RemoveCheck(w, c)
         IN  Sound(x, {}, left) /\ Keeps(w, x) /\ x.cr[c].alive = w.cr[c].alive
<1> DEFINE o == [w.cr[c] EXCEPT !.checked = FALSE]
           x == RemoveCheck(w, c)
<1>0. /\ w \in Worlds /\ Exact(w, {}) /\ Alert(w) /\ Linked(w)
      /\ Together(w, left) /\ AtHome(w) /\ Listed(w) /\ Noting(w)
  BY DEF Sound
<1>1. w.cr[c] \in Objects /\ o \in Objects
  BY <1>0, ObjectsOf, Edits
<1>2. x = [w EXCEPT !.cr[c] = o]
  BY DEF RemoveCheck
<1>3. /\ x \in Worlds
      /\ x.cr[c] = o /\ \A d \in Creature : d # c => x.cr[d] = w.cr[d]
      /\ x.toAdd = w.toAdd /\ x.spawned = w.spawned /\ x.armed = w.armed /\ x.known = w.known
  <2> HIDE DEF o, x
  <2> QED BY <1>0, <1>1, <1>2, Replaced
<1>4. /\ o.life = w.cr[c].life /\ o.alive = w.cr[c].alive
      /\ o.checked = FALSE /\ o.vec = w.cr[c].vec
      /\ o.refs = w.cr[c].refs /\ o.freed = w.cr[c].freed
      /\ o.client = w.cr[c].client /\ o.master = w.cr[c].master
      /\ o.summons = w.cr[c].summons /\ o.place = w.cr[c].place
  BY <1>1 DEF Objects
<1>11. w.cr[c].life = "none" => o = w.cr[c]
  <2>1. w.cr[c].life = "none" => w.cr[c].checked = FALSE
    BY <1>0 DEF Exact, Nothing
  <2> QED BY <1>1, <2>1 DEF Objects
<1> HIDE DEF o, x
<1>5. Keeps(w, x) /\ \A d \in Creature : x.cr[d].vec = w.cr[d].vec
  BY <1>3, <1>4 DEF Keeps
<1>6. Exact(x, {})
  <2>1. \A d \in Creature : d # c =>
          /\ x.cr[d].freed >= 0
          /\ x.cr[d].refs = Held(x, d) + Count(d \in {})
          /\ x.cr[d].life = "none" => x.cr[d] = Nothing
          /\ x.cr[d].life # "none" => x.cr[d].refs > 0
    BY <1>0, <1>3, KeptExact
  <2>2. Held(x, c) = Held(w, c)
    BY <1>3, <1>4 DEF Held, InGame, Housed
  <2>3. /\ x.cr[c].freed >= 0
        /\ x.cr[c].refs = Held(x, c) + Count(c \in {})
        /\ x.cr[c].life = "none" => x.cr[c] = Nothing
        /\ x.cr[c].life # "none" => x.cr[c].refs > 0
    BY <1>0, <1>3, <1>4, <1>11, <2>2 DEF Exact
  <2> QED BY <2>1, <2>3 DEF Exact
<1>7. Alert(x)
  <2>1. InGame(w, c) => c \notin Players
    BY CreaturesAssumption DEF CreaturesAssumption
  <2> QED BY <1>0, <1>3, <1>4, <2>1 DEF Alert, InGame
<1>8. Listed(x)
  <2>1. x.toAdd = w.toAdd /\ \A d \in Creature : x.cr[d].vec = w.cr[d].vec
    BY <1>3, <1>5
  <2> QED BY <1>0, <2>1, SameVectors
<1>9. Sound(x, {}, left)
  BY <1>0, <1>3, <1>5, <1>6, <1>7, <1>8, KeptLinks DEF Sound
<1> QED BY <1>3, <1>4, <1>5, <1>9 DEF x

\* setIdle does not put a dying monster to sleep.
LEMMA WakeSound ==
  ASSUME NEW w, NEW left, Sound(w, {}, left), NEW m \in Monsters, NEW v \in Vectors
  PROVE  LET x == SetIdle(w, m, FALSE, v)
         IN  /\ Sound(x, {}, left) /\ Keeps(w, x)
             /\ InGame(w, m) => x.cr[m].checked /\ x.cr[m].vec >= 0
             /\ x.cr[m].alive = w.cr[m].alive
<1>0. m \in Creature
  BY DEF Creature
<1>1. CASE ~InGame(w, m) \/ ~w.cr[m].alive
  <2>1. InGame(w, m) => w.cr[m].checked /\ w.cr[m].vec >= 0
    BY <1>0, <1>1 DEF Sound, Alert
  <2> QED BY <1>1, <2>1 DEF SetIdle, Keeps
<1>2. CASE InGame(w, m) /\ w.cr[m].alive
  BY <1>0, <1>2, AddCheckSound DEF SetIdle
<1> QED BY <1>1, <1>2

\* Everyone in the game stays there, and where it lives.
Remains(w, x) ==
  /\ x.spawned = w.spawned /\ x.armed = w.armed
  /\ \A d \in Creature :
       /\ InGame(x, d) <=> InGame(w, d)
       /\ InGame(w, d) => x.cr[d].place = w.cr[d].place
       /\ x.cr[d].freed = w.cr[d].freed

LEMMA KeepsRemains ==
  ASSUME NEW w, NEW x, Keeps(w, x)
  PROVE  Remains(w, x)
BY DEF Keeps, Remains, InGame

LEMMA SparedRemains ==
  ASSUME NEW w, NEW x, Spared(w, x)
  PROVE  Remains(w, x)
BY DEF Spared, Remains, InGame

LEMMA RemainsOnce ==
  ASSUME NEW w, NEW x, NEW y, Remains(w, x), Remains(x, y)
  PROVE  Remains(w, y)
BY DEF Remains

\* And a monster that falls asleep clears its lists.
LEMMA SetIdleSound ==
  ASSUME NEW w, NEW left, Sound(w, {}, left), NEW m \in Monsters, NEW idle \in BOOLEAN,
         NEW v \in Vectors
  PROVE  LET x == SetIdle(w, m, idle, v) IN Sound(x, {}, left) /\ Remains(w, x)
<1>0. m \in Creature /\ w \in Worlds
  BY DEF Creature, Sound
<1>1. CASE ~InGame(w, m) \/ ~w.cr[m].alive
  BY <1>1 DEF SetIdle, Remains
<1>2. CASE InGame(w, m) /\ w.cr[m].alive /\ idle
  <2> DEFINE u == Forgets(w, Entries(w, m))
             x == RemoveCheck(u, m)
  <2>1. Entries(w, m) \in SUBSET w.known
    BY DEF Entries
  <2>2. Sound(u, {}, left) /\ Spared(w, u)
    BY <2>1, ForgetsSound
  <2>3. SetIdle(w, m, idle, v) = x
    BY <1>2 DEF SetIdle
  <2> HIDE DEF u
  <2>4. u.cr[m].alive
    BY <1>0, <1>2, <2>2 DEF Spared, InGame
  <2>5. Sound(x, {}, left) /\ Keeps(u, x)
    BY <1>0, <2>2, <2>4, RemoveCheckSound
  <2> HIDE DEF x
  <2> QED BY <2>2, <2>3, <2>5, KeepsRemains, SparedRemains, RemainsOnce
<1>3. CASE InGame(w, m) /\ w.cr[m].alive /\ ~idle
  BY <1>0, <1>3, AddCheckSound, KeepsRemains DEF SetIdle
<1> QED BY <1>1, <1>2, <1>3

\* A creature that is checked may lose its health, and a creature is healed.
LEMMA HealthSound ==
  ASSUME NEW w, NEW left, Sound(w, {}, left), NEW c \in Creature, NEW b \in BOOLEAN,
         InGame(w, c), b \/ w.cr[c].checked
  PROVE  LET x == [w EXCEPT !.cr[c].alive = b]
         IN  Sound(x, {}, left) /\ Keeps(w, x)
<1> DEFINE o == [w.cr[c] EXCEPT !.alive = b]
           x == [w EXCEPT !.cr[c] = o]
<1>0. /\ w \in Worlds /\ Exact(w, {}) /\ Alert(w) /\ Linked(w)
      /\ Together(w, left) /\ AtHome(w) /\ Listed(w) /\ Noting(w)
  BY DEF Sound
<1>1. w.cr[c] \in Objects /\ o \in Objects
  <2>1. w.cr[c] \in Objects
    BY <1>0, ObjectsOf
  <2> QED BY <2>1 DEF Objects
<1>2. [w EXCEPT !.cr[c].alive = b] = x
  OBVIOUS
<1>3. /\ x \in Worlds
      /\ x.cr[c] = o /\ \A d \in Creature : d # c => x.cr[d] = w.cr[d]
      /\ x.toAdd = w.toAdd /\ x.spawned = w.spawned /\ x.armed = w.armed /\ x.known = w.known
  <2> HIDE DEF o
  <2> QED BY <1>0, <1>1, Replaced
<1>4. /\ o.life = w.cr[c].life /\ o.alive = b
      /\ o.checked = w.cr[c].checked /\ o.vec = w.cr[c].vec
      /\ o.refs = w.cr[c].refs /\ o.freed = w.cr[c].freed
      /\ o.client = w.cr[c].client /\ o.master = w.cr[c].master
      /\ o.summons = w.cr[c].summons /\ o.place = w.cr[c].place
  BY <1>1 DEF Objects
<1> HIDE DEF o, x
<1>5. Keeps(w, x) /\ \A d \in Creature : x.cr[d].vec = w.cr[d].vec
  BY <1>3, <1>4 DEF Keeps
<1>6. Exact(x, {})
  <2>1. \A d \in Creature : d # c =>
          /\ x.cr[d].freed >= 0
          /\ x.cr[d].refs = Held(x, d) + Count(d \in {})
          /\ x.cr[d].life = "none" => x.cr[d] = Nothing
          /\ x.cr[d].life # "none" => x.cr[d].refs > 0
    <3>1. Exact(w, {}) /\ x.spawned = w.spawned /\ x.known = w.known
      BY <1>0, <1>3
    <3>2. ASSUME NEW d \in Creature, d # c
          PROVE  /\ x.cr[d].freed >= 0
                 /\ x.cr[d].refs = Held(x, d) + Count(d \in {})
                 /\ x.cr[d].life = "none" => x.cr[d] = Nothing
                 /\ x.cr[d].life # "none" => x.cr[d].refs > 0
      <4>1. x.cr[d] = w.cr[d]
        BY <1>3, <3>2
      <4> QED BY <3>1, <4>1, KeptExact
    <3> QED BY <3>2
  <2>2. Held(x, c) = Held(w, c)
    BY <1>3, <1>4 DEF Held, InGame, Housed
  <2>3. /\ x.cr[c].freed >= 0
        /\ x.cr[c].refs = Held(x, c) + Count(c \in {})
        /\ x.cr[c].life # "none"
        /\ x.cr[c].refs > 0
    BY <1>0, <1>3, <1>4, <2>2 DEF Exact, InGame
  <2> QED BY <2>1, <2>3 DEF Exact
<1>7. Alert(x)
  BY <1>0, <1>3, <1>4 DEF Alert, InGame
<1>8. Listed(x)
  <2>1. x.toAdd = w.toAdd /\ \A d \in Creature : x.cr[d].vec = w.cr[d].vec
    BY <1>3, <1>5
  <2> QED BY <1>0, <2>1, SameVectors
<1>9. Sound(x, {}, left)
  BY <1>0, <1>3, <1>5, <1>6, <1>7, <1>8, KeptLinks DEF Sound
<1> QED BY <1>2, <1>5, <1>9

\* A monster that is killed wakes up first.
LEMMA KilledSound ==
  ASSUME NEW w, NEW left, Sound(w, {}, left), NEW m \in Monsters, NEW v \in Vectors, InGame(w, m)
  PROVE  LET x == Killed(w, m, v)
         IN  Sound(x, {}, left) /\ Keeps(w, x)
<1> DEFINE y == SetIdle(w, m, FALSE, v)
<1>1. Sound(y, {}, left) /\ Keeps(w, y) /\ y.cr[m].checked
  BY WakeSound
<1>2. Killed(w, m, v) = [y EXCEPT !.cr[m].alive = FALSE]
  BY DEF Killed
<1> HIDE DEF y
<1>3. m \in Creature /\ InGame(y, m)
  BY <1>1 DEF Creature, Keeps, InGame
<1>4. LET x == [y EXCEPT !.cr[m].alive = FALSE]
      IN  Sound(x, {}, left) /\ Keeps(y, x)
  BY <1>1, <1>3, HealthSound
<1> QED BY <1>1, <1>2, <1>4 DEF Keeps

\* destroySummons: the summons of who is in the game are, too, and stay.
LEMMA DestroySummonsSound ==
  ASSUME NEW w, Sound(w, {}, {}), NEW c \in Creature, InGame(w, c), NEW v \in Vectors
  PROVE  LET x == DestroySummons(w, c, v)
         IN  /\ Sound(x, {}, {})
             /\ x.spawned = w.spawned /\ x.armed = w.armed /\ x.known = w.known
             /\ \A d \in Creature : InGame(x, d) <=> InGame(w, d)
             /\ \A d \in Creature : x.cr[d].place = w.cr[d].place
             /\ x.cr[c].master = w.cr[c].master /\ x.cr[c].summons = {}
<1> DEFINE S == w.cr[c].summons
           Good(x, s) == /\ Sound(x, {}, {})
                         /\ x.spawned = w.spawned /\ x.armed = w.armed /\ x.known = w.known
                         /\ \A d \in Creature : InGame(x, d) <=> InGame(w, d)
                         /\ \A d \in Creature : x.cr[d].place = w.cr[d].place
                         /\ x.cr[c].master = w.cr[c].master /\ x.cr[c].summons = S \ s
<1>00. w \in Worlds
  BY DEF Sound
<1>0. w \in Worlds /\ IsFiniteSet(S) /\ S \subseteq Monsters
  BY SummonsFinite DEF Sound
<1>1. PICK f : DestroySummons(w, c, v) = f[S] /\ Destroys(f, w, c, v)
  BY <1>00, DestroyFold
<1>2. Good(w, {})
  OBVIOUS
<1>3. ASSUME NEW s \in SUBSET S, NEW m \in s, NEW x, Good(x, s \ {m})
      PROVE  Good(RemoveSummon(Killed(x, m, v), c, m), s)
  <2>1. m \in Monsters /\ m \in Creature /\ m \in x.cr[c].summons
    BY <1>0, <1>3 DEF Creature
  <2>2. x \in Worlds /\ x.cr[m].master = c
    BY <1>3, <2>1 DEF Sound, Linked
  <2>3. InGame(x, c)
    BY <1>3
  <2>4. InGame(x, m)
    BY <1>3, <2>1, <2>2, <2>3, NullIsNobody DEF Sound, Together
  <2> DEFINE y == Killed(x, m, v)
             z == RemoveSummon(y, c, m)
  <2>5. Sound(x, {}, {})
    BY <1>3
  <2>6. Sound(y, {}, {}) /\ Keeps(x, y)
    <3> HIDE DEF Good
    <3> QED BY <2>1, <2>4, <2>5, KilledSound
  <2>7. InGame(y, m) /\ m \in y.cr[c].summons /\ y \in Worlds
    BY <2>1, <2>4, <2>6 DEF Keeps, InGame, Sound
  <2> HIDE DEF y, Good
  <2>8. /\ Sound(z, {}, {})
        /\ z.spawned = y.spawned /\ z.armed = y.armed /\ z.known = y.known
        /\ \A d \in Creature : InGame(z, d) <=> InGame(y, d)
        /\ Dismissed(y, z, c, m)
    <3>1. /\ Sound(y, {}, {}) /\ InGame(y, m) /\ m \in Creature /\ m \in y.cr[c].summons
          /\ c \in Creature \cup {NULL}
      BY <2>1, <2>6, <2>7
    <3> QED BY <3>1, RemoveSummonSound
  <2> HIDE DEF z
  <2>9. c # m
    BY <2>6, <2>7, <2>1 DEF Sound, Linked
  <2>10. y.cr[c] \in Objects /\ y.cr[m] \in Objects
    BY <2>1, <2>7, ObjectsOf
  <2>11. /\ z.cr[c].summons = y.cr[c].summons \ {m} /\ z.cr[c].master = y.cr[c].master
         /\ z.cr[c].place = y.cr[c].place /\ z.cr[m].place = y.cr[m].place
    BY <2>8, <2>10 DEF Objects, Dismissed
  <2>12. \A d \in Creature : z.cr[d].place = y.cr[d].place
    BY <2>8, <2>11 DEF Dismissed
  <2>13. z.cr[c].summons = S \ s
    BY <1>3, <2>6, <2>11 DEF Keeps, Good
  <2>14. \A d \in Creature : InGame(y, d) <=> InGame(x, d)
    BY <2>6 DEF Keeps, InGame
  <2> QED BY <1>3, <2>6, <2>8, <2>11, <2>12, <2>13, <2>14 DEF Keeps, Good, y, z
<1> DEFINE T == {s \in SUBSET S : Good(f[s], s)}
<1>4. {} \in T
  BY <1>1, <1>2 DEF Destroys
<1>5. ASSUME NEW s \in SUBSET S, s # {} PROVE \E m \in s : s \ {m} \in T => s \in T
  <2> HIDE DEF Good
  <2>1. PICK m \in s : f[s] = RemoveSummon(Killed(f[s \ {m}], m, v), c, m)
    BY <1>1, <1>5 DEF Destroys
  <2>2. SUFFICES ASSUME s \ {m} \in T PROVE s \in T
    OBVIOUS
  <2>3. Good(f[s \ {m}], s \ {m})
    BY <2>2
  <2>4. Good(f[s], s)
    BY <1>3, <2>1, <2>3
  <2> QED BY <2>4
<1>6. S \in T
  <2> HIDE DEF T, Good, S
  <2>1. SUBSET S \subseteq T
    BY <1>0, <1>4, <1>5, SubsetInduction
  <2> QED BY <2>1
<1> QED BY <1>1, <1>6

-----------------------------------------------------------------------------
(* Leaving the game                                                          *)

\* What the spawn relies on: nothing is moved, and when a monster that has a
\* place leaves the game the check of the spawn is armed.
Guards(w, x) ==
  /\ x.spawned = w.spawned
  /\ w.armed => x.armed
  /\ \A d \in Creature : Housed(w, d) /\ InGame(w, d) /\ ~InGame(x, d) => x.armed

LEMMA GuardsOnce ==
  ASSUME NEW w, NEW x, NEW y, Guards(w, x), Guards(x, y)
  PROVE  Guards(w, y)
BY DEF Guards, Housed

LEMMA KeepsGuards ==
  ASSUME NEW w, NEW x, Keeps(w, x)
  PROVE  Guards(w, x)
BY DEF Guards, Keeps, InGame

LEMMA RemainsGuards ==
  ASSUME NEW w, NEW x, Remains(w, x)
  PROVE  Guards(w, x)
BY DEF Guards, Remains

\* A creature whose master does not wait for it; its own summons are left.
LEMMA OutSound ==
  ASSUME NEW w, NEW owed, NEW left, Sound(w, owed, left), NEW c \in Creature, InGame(w, c),
         w.cr[c].master = NULL \/ ~InGame(w, w.cr[c].master)
  PROVE  LET x == Out(w, c)
         IN  /\ Sound(x, owed, (left \ {c}) \cup w.cr[c].summons)
             /\ Guards(w, x)
             /\ x.cr[c].freed > 0 /\ x.cr[c].life = "removed" /\ x.cr[c].summons = w.cr[c].summons
             /\ \A d \in Creature : d # c => x.cr[d] = w.cr[d]
<1> DEFINE x == Out(w, c)
           more == (left \ {c}) \cup w.cr[c].summons
<1>0. /\ w \in Worlds /\ Exact(w, owed) /\ Alert(w) /\ Linked(w)
      /\ Together(w, left) /\ AtHome(w) /\ Listed(w) /\ Noting(w)
  BY DEF Sound
<1>1. /\ x \in Worlds
      /\ x.cr[c] = [w.cr[c] EXCEPT !.life = "removed", !.alive = TRUE, !.place = NULL,
                                   !.checked = FALSE, !.freed = w.cr[c].freed + 1]
      /\ \A d \in Creature : d # c => x.cr[d] = w.cr[d]
      /\ x.toAdd = w.toAdd /\ x.spawned = w.spawned /\ x.known = w.known
      /\ x.armed = (w.armed \/ w.cr[c].place # NULL)
  BY <1>0, OutWorld
<1> HIDE DEF x
<1>2. w.cr[c] \in Objects
  BY <1>0, ObjectsOf
<1>3. /\ x.cr[c].life = "removed" /\ x.cr[c].alive = TRUE
      /\ x.cr[c].checked = FALSE /\ x.cr[c].vec = w.cr[c].vec
      /\ x.cr[c].refs = w.cr[c].refs /\ x.cr[c].freed = w.cr[c].freed + 1
      /\ x.cr[c].client = w.cr[c].client /\ x.cr[c].master = w.cr[c].master
      /\ x.cr[c].summons = w.cr[c].summons /\ x.cr[c].place = NULL
  BY <1>1, <1>2 DEF Objects
<1>4. \A d \in Creature :
        /\ x.cr[d].vec = w.cr[d].vec /\ x.cr[d].master = w.cr[d].master
        /\ x.cr[d].summons = w.cr[d].summons
        /\ InGame(x, d) <=> InGame(w, d) /\ d # c
  BY <1>1, <1>3 DEF InGame
<1>5. Exact(x, owed)
  <2>1. \A d \in Creature : d # c =>
          /\ x.cr[d].freed >= 0
          /\ x.cr[d].refs = Held(x, d) + Count(d \in owed)
          /\ x.cr[d].life = "none" => x.cr[d] = Nothing
          /\ x.cr[d].life # "none" => x.cr[d].refs > 0
    BY <1>0, <1>1, KeptExact
  <2>2. Count(InGame(x, c)) = 0 /\ Count(InGame(w, c)) = 1 /\ Housed(x, c) = Housed(w, c)
    BY <1>1, <1>3 DEF Count, InGame, Housed
  <2>3. w.cr[c].freed \in Int /\ w.cr[c].refs \in Int /\ \A B : Count(B) \in Int
    BY <1>0, FieldsOf DEF Count
  <2>4. Held(x, c) = Held(w, c)
    <3>1. /\ x.cr[c].freed = w.cr[c].freed + 1 /\ x.cr[c].vec = w.cr[c].vec
          /\ x.cr[c].client = w.cr[c].client /\ x.cr[c].master = w.cr[c].master
      BY <1>3
    <3>2. /\ Count(x.cr[c].vec >= 0) = Count(w.cr[c].vec >= 0)
          /\ Count(x.cr[c].client) = Count(w.cr[c].client)
          /\ Count(x.cr[c].master # NULL) = Count(w.cr[c].master # NULL)
          /\ Count(Housed(x, c)) = Count(Housed(w, c))
      BY <2>2, <3>1
    <3>3. 0 + (w.cr[c].freed + 1) = 1 + w.cr[c].freed
      BY <2>3
    <3>4. Noted(x.known, c) = Noted(w.known, c)
      BY <1>1
    <3> QED BY <2>2, <3>1, <3>2, <3>3, <3>4 DEF Held
  <2>5. /\ w.cr[c].freed >= 0 /\ w.cr[c].refs = Held(w, c) + Count(c \in owed) /\ w.cr[c].refs > 0
    BY <1>0 DEF Exact, InGame
  <2>6. /\ x.cr[c].freed >= 0
        /\ x.cr[c].refs = Held(x, c) + Count(c \in owed)
        /\ x.cr[c].refs > 0
        /\ x.cr[c].life # "none"
    BY <1>3, <2>3, <2>4, <2>5
  <2> QED BY <2>1, <2>6 DEF Exact
<1>6. Alert(x)
  BY <1>0, <1>1, <1>3, <1>4 DEF Alert, InGame
<1>7. Linked(x)
  BY <1>0, <1>4 DEF Linked
<1>8. Together(x, more)
  <2> SUFFICES ASSUME NEW m \in Creature, x.cr[m].master # NULL
               PROVE  /\ InGame(x, m) => InGame(x, x.cr[m].master) \/ m \in more
                      /\ InGame(x, x.cr[m].master) => InGame(x, m)
    BY DEF Together
  <2>1. x.cr[m].master = w.cr[m].master /\ w.cr[m].master \in Creature
    BY <1>0, <1>4, FieldsOf
  <2>2. /\ InGame(w, m) => InGame(w, w.cr[m].master) \/ m \in left
        /\ InGame(w, w.cr[m].master) => InGame(w, m)
    BY <1>0, <2>1, NullIsNobody DEF Together
  <2>3. w.cr[m].master = c => m \in w.cr[c].summons
    BY <1>0 DEF Linked
  <2> QED BY <1>4, <2>1, <2>2, <2>3, NullIsNobody
<1>9. AtHome(x)
  BY <1>0, <1>1, <1>4 DEF AtHome
<1>10. Listed(x)
  <2>1. x.toAdd = w.toAdd /\ \A d \in Creature : x.cr[d].vec = w.cr[d].vec
    BY <1>1, <1>4
  <2> QED BY <1>0, <2>1, SameVectors
<1>11. Noting(x)
  <2>1. x.known = w.known /\ \A d \in Creature : x.cr[d].life = "none" => w.cr[d].life = "none"
    BY <1>1, <1>3
  <2> QED BY <1>0, <2>1, SameNotes
<1>12. Sound(x, owed, more)
  BY <1>1, <1>5, <1>6, <1>7, <1>8, <1>9, <1>10, <1>11 DEF Sound
<1>13. Guards(w, x)
  <2>1. Housed(w, c) => w.cr[c].place # NULL
    BY <1>0, NullIsNobody DEF AtHome, Housed
  <2> QED BY <1>1, <1>4, <2>1 DEF Guards
<1>14. x.cr[c].freed > 0
  BY <1>0, <1>2, <1>3 DEF Exact, Objects
<1> QED BY <1>1, <1>3, <1>12, <1>13, <1>14 DEF x

\* It does not matter whether a summon leaves its master or the game first.
LEMMA OutCut ==
  ASSUME NEW w \in Worlds, NEW c \in Creature, NEW e \in Creature, c # e
  PROVE  Cut(Out(w, c), e, c) = Out(Cut(w, e, c), c)
<1> DEFINE y == Out(w, c)
           z == Cut(y, e, c)
           k == Cut(w, e, c)
           x == Out(k, c)
<1>1. /\ y \in Worlds
      /\ y.cr[c] = [w.cr[c] EXCEPT !.life = "removed", !.alive = TRUE, !.place = NULL,
                                   !.checked = FALSE, !.freed = w.cr[c].freed + 1]
      /\ \A d \in Creature : d # c => y.cr[d] = w.cr[d]
      /\ y.toAdd = w.toAdd /\ y.spawned = w.spawned /\ y.known = w.known
      /\ y.armed = (w.armed \/ w.cr[c].place # NULL)
  BY OutWorld
<1>2. /\ k \in Worlds
      /\ k.toAdd = w.toAdd /\ k.spawned = w.spawned /\ k.armed = w.armed /\ k.known = w.known
      /\ k.cr[c] = [w.cr[c] EXCEPT !.master = NULL]
      /\ k.cr[e] = [w.cr[e] EXCEPT !.summons = w.cr[e].summons \ {c}]
      /\ \A d \in Creature : d # c /\ d # e => k.cr[d] = w.cr[d]
  BY CutWorld
<1> HIDE DEF y, k
<1>3. /\ z \in Worlds
      /\ z.toAdd = y.toAdd /\ z.spawned = y.spawned /\ z.armed = y.armed /\ z.known = y.known
      /\ z.cr[c] = [y.cr[c] EXCEPT !.master = NULL]
      /\ z.cr[e] = [y.cr[e] EXCEPT !.summons = y.cr[e].summons \ {c}]
      /\ \A d \in Creature : d # c /\ d # e => z.cr[d] = y.cr[d]
  <2>1. y \in Worlds
    BY <1>1
  <2> QED BY <2>1, CutWorld
<1>4. /\ x \in Worlds
      /\ x.cr[c] = [k.cr[c] EXCEPT !.life = "removed", !.alive = TRUE, !.place = NULL,
                                   !.checked = FALSE, !.freed = k.cr[c].freed + 1]
      /\ \A d \in Creature : d # c => x.cr[d] = k.cr[d]
      /\ x.toAdd = k.toAdd /\ x.spawned = k.spawned /\ x.known = k.known
      /\ x.armed = (k.armed \/ k.cr[c].place # NULL)
  BY <1>2, OutWorld
<1> HIDE DEF x, z
<1>5. w.cr[c] \in Objects
  BY ObjectsOf
<1>6. k.cr[c].freed = w.cr[c].freed /\ k.cr[c].place = w.cr[c].place
  BY <1>2, <1>5 DEF Objects
<1>7. x.cr[c] = z.cr[c]
  <2> DEFINE o == w.cr[c]
             a == [o EXCEPT !.life = "removed", !.alive = TRUE, !.place = NULL,
                            !.checked = FALSE, !.freed = o.freed + 1]
             b == [o EXCEPT !.master = NULL]
  <2>1. o \in Objects
    BY <1>5
  <2> HIDE DEF o
  <2>2. [a EXCEPT !.master = NULL] =
          [b EXCEPT !.life = "removed", !.alive = TRUE, !.place = NULL,
                    !.checked = FALSE, !.freed = o.freed + 1]
    BY <2>1 DEF Objects
  <2> QED BY <1>1, <1>2, <1>3, <1>4, <1>6, <2>2 DEF o
<1>8. \A d \in Creature : x.cr[d] = z.cr[d]
  <2> SUFFICES ASSUME NEW d \in Creature, d # c PROVE x.cr[d] = z.cr[d]
    BY <1>7
  <2>1. x.cr[d] = k.cr[d] /\ y.cr[d] = w.cr[d]
    BY <1>1, <1>4
  <2>2. CASE d = e
    <3>1. k.cr[e] = [w.cr[e] EXCEPT !.summons = w.cr[e].summons \ {c}]
      BY <1>2
    <3>2. z.cr[e] = [y.cr[e] EXCEPT !.summons = y.cr[e].summons \ {c}]
      BY <1>3
    <3> QED BY <2>1, <2>2, <3>1, <3>2
  <2>3. CASE d # e
    BY <1>2, <1>3, <2>1, <2>3
  <2> QED BY <2>2, <2>3
<1>9. x.cr = z.cr /\ x.toAdd = z.toAdd /\ x.spawned = z.spawned /\ x.armed = z.armed /\ x.known = z.known
  BY <1>1, <1>2, <1>3, <1>4, <1>6, <1>8 DEF Worlds
<1>10. x = z
  BY <1>3, <1>4, <1>9, SameWorld
<1> QED BY <1>10 DEF x, z, y, k

\* A creature is taken out of the game: its summons are left, and its master does
\* not have it any more, if he is in the game.
LEMMA LeavesSound ==
  ASSUME NEW w, NEW left, Sound(w, {}, left), NEW c \in Creature, InGame(w, c)
  PROVE  LET x == Leaves(w, c)
         IN  /\ Sound(x, {}, (left \ {c}) \cup w.cr[c].summons)
             /\ Guards(w, x)
             /\ x.cr[c].life = "removed"
             /\ \A d \in Creature :
                  /\ InGame(x, d) <=> InGame(w, d) /\ d # c
                  /\ x.cr[d].summons \subseteq w.cr[d].summons
<1> DEFINE more == (left \ {c}) \cup w.cr[c].summons
           e == w.cr[c].master
           y == Out(w, c)
<1>0. w \in Worlds /\ Linked(w) /\ w.cr[c] \in Objects
  BY ObjectsOf DEF Sound
<1>1. e \in Creature \cup {NULL} /\ e # c
  BY <1>0, FieldsOf, NullIsNobody DEF Linked
<1>2. e \in Creature => y.cr[e] = w.cr[e]
  BY <1>0, <1>1, OutWorld
<1>3. Leaves(w, c) = IF e # NULL /\ InGame(w, e) THEN RemoveSummon(y, e, c) ELSE y
  <2>1. e # NULL => (InGame(y, e) <=> InGame(w, e))
    BY <1>1, <1>2 DEF InGame
  <2> HIDE DEF y
  <2> QED BY <2>1 DEF Leaves, y
<1>4. CASE ~(e # NULL /\ InGame(w, e))
  <2>1. /\ Sound(y, {}, more) /\ Guards(w, y)
        /\ y.cr[c].life = "removed" /\ y.cr[c].summons = w.cr[c].summons
        /\ \A d \in Creature : d # c => y.cr[d] = w.cr[d]
    BY <1>4, OutSound
  <2> HIDE DEF y
  <2>2. \A d \in Creature :
          /\ InGame(y, d) <=> InGame(w, d) /\ d # c
          /\ y.cr[d].summons \subseteq w.cr[d].summons
    BY <2>1 DEF InGame
  <2> QED BY <1>3, <1>4, <2>1, <2>2
<1>5. CASE e # NULL /\ InGame(w, e)
  <2> DEFINE k == Cut(w, e, c)
             z == Out(k, c)
             x == UnRef(z, c)
  <2>0. e \in Creature /\ c \in w.cr[e].summons
    BY <1>0, <1>1, <1>5 DEF Linked
  <2>1. /\ Sound(k, {c}, left)
        /\ k.spawned = w.spawned /\ k.armed = w.armed /\ k.known = w.known
        /\ k.cr[c] = [w.cr[c] EXCEPT !.master = NULL]
        /\ k.cr[e] = [w.cr[e] EXCEPT !.summons = w.cr[e].summons \ {c}]
        /\ \A d \in Creature : d # c /\ d # e => k.cr[d] = w.cr[d]
    <3>1. Sound(k, {c}, left) /\ Severed(w, k, e, c)
      BY <2>0, CutSound
    <3> HIDE DEF k
    <3> QED BY <3>1 DEF Severed
  <2>2. RemoveSummon(y, e, c) = x
    <3>1. c \in y.cr[e].summons
      BY <1>2, <2>0
    <3>2. RemoveSummon(y, e, c) = UnRef(Cut(y, e, c), c)
      BY <1>5, <3>1 DEF RemoveSummon, Cut
    <3> QED BY <1>0, <1>1, <2>0, <3>2, OutCut
  <2> HIDE DEF k
  <2>3. w.cr[e] \in Objects
    BY <1>0, <2>0, ObjectsOf
  <2>4. /\ k.cr[c].life = w.cr[c].life /\ k.cr[c].master = NULL
        /\ k.cr[c].summons = w.cr[c].summons
        /\ k.cr[e].life = w.cr[e].life /\ k.cr[e].summons \subseteq w.cr[e].summons
    BY <1>0, <2>1, <2>3 DEF Objects
  <2>5. \A d \in Creature : k.cr[d].life = w.cr[d].life /\ k.cr[d].summons \subseteq w.cr[d].summons
    BY <2>1, <2>4
  <2>6. InGame(k, c)
    BY <2>4 DEF InGame
  <2>7. /\ Sound(z, {c}, (left \ {c}) \cup k.cr[c].summons) /\ Guards(k, z)
        /\ z.cr[c].freed > 0 /\ z.cr[c].life = "removed" /\ z.cr[c].summons = k.cr[c].summons
        /\ \A d \in Creature : d # c => z.cr[d] = k.cr[d]
    <3>1. Sound(k, {c}, left) /\ k.cr[c].master = NULL
      BY <2>1, <2>4
    <3> QED BY <3>1, <2>6, OutSound
  <2> HIDE DEF z
  <2>8. Sound(z, {c}, more)
    BY <2>4, <2>7
  <2>9. z.cr[c] \in Objects
    BY <2>8, ObjectsOf DEF Sound
  <2> HIDE DEF more
  <2>10. /\ Sound(x, {c} \ {c}, more)
         /\ x.spawned = z.spawned /\ x.armed = z.armed /\ x.known = z.known
         /\ \A d \in Creature :
              /\ InGame(x, d) <=> InGame(z, d)
              /\ x.cr[d].summons \subseteq z.cr[d].summons
         /\ x.cr[c] = [z.cr[c] EXCEPT !.refs = z.cr[c].refs - 1]
    <3>1. Sound(z, {c}, more) /\ c \in {c} /\ z.cr[c].freed > 0
      BY <2>7, <2>8
    <3>2. Sound(x, {c} \ {c}, more) /\ Returned(z, x, c)
      BY <3>1, UnRefSound
    <3> HIDE DEF x
    <3> QED BY <3>1, <3>2 DEF Returned, Spared
  <2> HIDE DEF x
  <2>11. Sound(x, {}, more)
    <3>1. {c} \ {c} = {}
      OBVIOUS
    <3> QED BY <2>10, <3>1
  <2>12. x.cr[c].life = "removed"
    BY <2>7, <2>9, <2>10 DEF Objects
  <2>13. \A d \in Creature :
           /\ InGame(x, d) <=> InGame(w, d) /\ d # c
           /\ x.cr[d].summons \subseteq w.cr[d].summons
    <3>1. \A d \in Creature : InGame(z, d) <=> InGame(w, d) /\ d # c
      BY <2>5, <2>7 DEF InGame
    <3>2. \A d \in Creature : z.cr[d].summons \subseteq w.cr[d].summons
      BY <2>5, <2>7
    <3> QED BY <2>10, <3>1, <3>2
  <2>14. Guards(w, x)
    <3>1. \A d \in Creature : InGame(k, d) <=> InGame(w, d)
      BY <2>5 DEF InGame
    <3> QED BY <2>1, <2>7, <2>10, <3>1 DEF Guards, Housed
  <2>15. Leaves(w, c) = x
    BY <1>3, <1>5, <2>2 DEF x, z, k
  <2> QED BY <2>11, <2>12, <2>13, <2>14, <2>15 DEF more
<1> QED BY <1>4, <1>5

LEMMA TakenOutSound ==
  ASSUME NEW w, NEW left, Sound(w, {}, left), NEW c \in Creature, InGame(w, c), NEW told
  PROVE  LET x == TakenOut(w, c, told)
         IN  /\ Sound(x, {}, (left \ {c}) \cup w.cr[c].summons)
             /\ Guards(w, x)
             /\ x.cr[c].life = "removed"
             /\ \A d \in Creature :
                  /\ InGame(x, d) <=> InGame(w, d) /\ d # c
                  /\ x.cr[d].summons \subseteq w.cr[d].summons
<1> DEFINE u == Forgets(w, Leaving(w, c, told))
           x == Leaves(u, c)
<1>1. Leaving(w, c, told) \in SUBSET w.known
  BY DEF Leaving
<1>2. Sound(u, {}, left) /\ Spared(w, u)
  BY <1>1, ForgetsSound
<1>3. TakenOut(w, c, told) = x
  BY TakenOutIs
<1> HIDE DEF u
<1>4. InGame(u, c) /\ u.cr[c].summons = w.cr[c].summons
  BY <1>2 DEF Spared, InGame
<1>5. /\ Sound(x, {}, (left \ {c}) \cup u.cr[c].summons)
      /\ Guards(u, x)
      /\ x.cr[c].life = "removed"
      /\ \A d \in Creature :
           /\ InGame(x, d) <=> InGame(u, d) /\ d # c
           /\ x.cr[d].summons \subseteq u.cr[d].summons
  BY <1>2, <1>4, LeavesSound
<1> HIDE DEF x
<1>6. \A d \in Creature : (InGame(u, d) <=> InGame(w, d)) /\ u.cr[d].summons \subseteq w.cr[d].summons
  BY <1>2 DEF Spared
<1>7. Guards(w, x)
  BY <1>2, <1>5, SparedRemains, RemainsGuards, GuardsOnce
<1> QED BY <1>3, <1>4, <1>5, <1>6, <1>7

\* removeCreature: its summons follow it, one after the other.
LEMMA RemoveCreatureSound ==
  ASSUME NEW w, Sound(w, {}, {}), NEW c \in Creature, InGame(w, c), NEW told
  PROVE  LET x == RemoveCreature(w, c, told)
         IN  /\ Sound(x, {}, {}) /\ Guards(w, x) /\ ~InGame(x, c)
             /\ w.cr[c].summons = {} => x.cr[c].life = "removed"
<1> DEFINE S == w.cr[c].summons
           Good(x, s) == /\ Sound(x, {}, S \ s) /\ Guards(w, x) /\ ~InGame(x, c)
                         /\ \A m \in S \ s : InGame(x, m) /\ x.cr[m].summons = {}
<1>0. w \in Worlds /\ Linked(w) /\ Together(w, {}) /\ IsFiniteSet(S) /\ S \subseteq Creature
  BY SummonsFinite DEF Sound, Creature
<1>1. PICK f : RemoveCreature(w, c, told) = f[S] /\ Removes(f, w, c, told)
  <2>1. w \in Worlds
    BY <1>0
  <2> QED BY <2>1, RemoveFold
<1>2. Good(TakenOut(w, c, told), {}) /\ TakenOut(w, c, told).cr[c].life = "removed"
  <2> DEFINE x == TakenOut(w, c, told)
  <2>1. /\ Sound(x, {}, ({} \ {c}) \cup S) /\ Guards(w, x)
        /\ x.cr[c].life = "removed"
        /\ \A d \in Creature :
             /\ InGame(x, d) <=> InGame(w, d) /\ d # c
             /\ x.cr[d].summons \subseteq w.cr[d].summons
    BY TakenOutSound
  <2> HIDE DEF x
  <2>2. ASSUME NEW m \in S PROVE InGame(w, m) /\ w.cr[m].summons = {} /\ m # c
    <3>1. m \in Creature /\ w.cr[m].master = c /\ w.cr[m].summons = {}
      BY <1>0 DEF Linked
    <3> QED BY <1>0, <3>1, NullIsNobody DEF Together
  <2>3. ({} \ {c}) \cup S = S \ {}
    OBVIOUS
  <2>4. \A m \in S : InGame(x, m) /\ x.cr[m].summons = {}
    BY <1>0, <2>1, <2>2
  <2> QED BY <2>1, <2>3, <2>4 DEF x
<1>3. ASSUME NEW s \in SUBSET S, NEW m \in s, NEW x, Good(x, s \ {m})
      PROVE  Good(TakenOut(x, m, told), s)
  <2>1. /\ Sound(x, {}, S \ (s \ {m})) /\ InGame(x, m) /\ m \in Creature
        /\ x.cr[m].summons = {} /\ Guards(w, x) /\ ~InGame(x, c)
        /\ \A d \in S \ (s \ {m}) : InGame(x, d) /\ x.cr[d].summons = {}
    BY <1>0, <1>3
  <2> DEFINE y == TakenOut(x, m, told)
             left == S \ (s \ {m})
  <2>2. /\ Sound(y, {}, (left \ {m}) \cup x.cr[m].summons) /\ Guards(x, y)
        /\ \A d \in Creature :
             /\ InGame(y, d) <=> InGame(x, d) /\ d # m
             /\ y.cr[d].summons \subseteq x.cr[d].summons
    <3> HIDE DEF y, left
    <3>1. Sound(x, {}, left) /\ InGame(x, m) /\ m \in Creature
      BY <2>1 DEF left
    <3> QED BY <3>1, TakenOutSound DEF y
  <2> HIDE DEF y
  <2>3. (left \ {m}) \cup x.cr[m].summons = S \ s
    BY <2>1
  <2>4. Sound(y, {}, S \ s)
    BY <2>2, <2>3
  <2>5. Guards(w, y)
    BY <2>1, <2>2, GuardsOnce
  <2>6. \A d \in S \ s : InGame(y, d) /\ y.cr[d].summons = {}
    BY <1>0, <2>1, <2>2
  <2>7. ~InGame(y, c)
    BY <2>1, <2>2
  <2> QED BY <2>4, <2>5, <2>6, <2>7 DEF y
<1> DEFINE T == {s \in SUBSET S : Good(f[s], s)}
<1>4. {} \in T
  BY <1>1, <1>2 DEF Removes
<1>5. ASSUME NEW s \in SUBSET S, s # {} PROVE \E m \in s : s \ {m} \in T => s \in T
  <2> HIDE DEF Good
  <2>1. PICK m \in s : f[s] = TakenOut(f[s \ {m}], m, told)
    BY <1>1, <1>5 DEF Removes
  <2>2. SUFFICES ASSUME s \ {m} \in T PROVE s \in T
    OBVIOUS
  <2>3. Good(f[s \ {m}], s \ {m})
    BY <2>2
  <2>4. Good(f[s], s)
    BY <1>3, <2>1, <2>3
  <2> QED BY <2>4
<1>6. S \in T
  <2> HIDE DEF T, Good, S
  <2>1. SUBSET S \subseteq T
    BY <1>0, <1>4, <1>5, SubsetInduction
  <2> QED BY <2>1
<1>7. S = {} => RemoveCreature(w, c, told).cr[c].life = "removed"
  BY <1>1, <1>2 DEF Removes
<1>8. Good(RemoveCreature(w, c, told), S) /\ S \ S = {}
  BY <1>1, <1>6
<1> QED BY <1>7, <1>8

\* onDeath: it leaves its master, its summons will die, and it leaves the game.
LEMMA DiesSound ==
  ASSUME NEW w, Sound(w, {}, {}), NEW c \in Creature, InGame(w, c), NEW v \in Vectors, NEW told
  PROVE  Sound(Dies(w, c, v, told), {}, {}) /\ Guards(w, Dies(w, c, v, told))
<1> DEFINE u == RemoveSummon(w, w.cr[c].master, c)
           x == DestroySummons(u, c, v)
           y == IF c \in Monsters THEN Forgets(x, Entries(x, c)) ELSE u
           z == RemoveCreature(y, c, told)
<1>1. w.cr[c].master \in Creature \cup {NULL}
  BY FieldsOf DEF Sound
<1>2. /\ Sound(u, {}, {}) /\ u.spawned = w.spawned /\ u.armed = w.armed
      /\ \A d \in Creature : InGame(u, d) <=> InGame(w, d)
  BY <1>1, RemoveSummonSound
<1>3. Dies(w, c, v, told) = z
  BY DEF Dies
<1> HIDE DEF u
<1>4. /\ Sound(x, {}, {}) /\ x.spawned = u.spawned /\ x.armed = u.armed
      /\ \A d \in Creature : InGame(x, d) <=> InGame(u, d)
  <2>1. InGame(u, c)
    BY <1>2
  <2> QED BY <1>2, <2>1, DestroySummonsSound
<1> HIDE DEF x
<1>5. /\ Sound(y, {}, {}) /\ y.spawned = u.spawned /\ y.armed = u.armed
      /\ \A d \in Creature : InGame(y, d) <=> InGame(u, d)
  <2>1. CASE c \in Monsters
    <3> DEFINE k == Forgets(x, Entries(x, c))
    <3>1. Entries(x, c) \in SUBSET x.known
      BY DEF Entries
    <3>2. Sound(k, {}, {}) /\ Spared(x, k)
      BY <1>4, <3>1, ForgetsSound
    <3>3. y = k
      BY <2>1
    <3> HIDE DEF k, y
    <3> QED BY <1>4, <3>2, <3>3 DEF Spared
  <2>2. CASE c \notin Monsters
    BY <1>2, <2>2
  <2> QED BY <2>1, <2>2
<1> HIDE DEF y
<1>6. Sound(z, {}, {}) /\ Guards(y, z)
  <2>1. InGame(y, c)
    BY <1>2, <1>5
  <2> QED BY <1>5, <2>1, RemoveCreatureSound
<1>7. Guards(w, y)
  BY <1>2, <1>5 DEF Guards
<1> QED BY <1>3, <1>6, <1>7, GuardsOnce

-----------------------------------------------------------------------------
(* Giving references back                                                    *)

\* releaseThings or a protocol gives up a pointer: its reference is owed.
Edited(w, x, c, o) ==
  /\ x.cr[c] = o /\ \A d \in Creature : d # c => x.cr[d] = w.cr[d]
  /\ x.toAdd = w.toAdd /\ x.spawned = w.spawned /\ x.armed = w.armed /\ x.known = w.known

LEMMA GivenUp ==
  ASSUME NEW w, NEW left, Sound(w, {}, left), NEW c \in Creature, NEW o \in Objects,
         Alike(o, w.cr[c]), o.refs = w.cr[c].refs, o.freed >= 0,
         o.freed + Count(o.client) = w.cr[c].freed + Count(w.cr[c].client) - 1
  PROVE  LET x == [w EXCEPT !.cr[c] = o]
         IN  Sound(x, {c}, left) /\ Edited(w, x, c, o)
<1> DEFINE x == [w EXCEPT !.cr[c] = o]
<1>0. /\ w \in Worlds /\ Exact(w, {}) /\ Alert(w) /\ Linked(w)
      /\ Together(w, left) /\ AtHome(w) /\ Listed(w) /\ Noting(w)
  BY DEF Sound
<1>1. /\ x \in Worlds
      /\ x.cr[c] = o /\ \A d \in Creature : d # c => x.cr[d] = w.cr[d]
      /\ x.toAdd = w.toAdd /\ x.spawned = w.spawned /\ x.armed = w.armed /\ x.known = w.known
  BY <1>0, Replaced
<1> HIDE DEF x
<1>2. \A d \in Creature : Alike(x.cr[d], w.cr[d])
  BY <1>1 DEF Alike
<1>3. Alert(x) /\ Linked(x) /\ Together(x, left) /\ AtHome(x) /\ Listed(x) /\ Noting(x)
  BY <1>0, <1>1, <1>2, AlikeWorlds
<1>4. w.cr[c].freed \in Int /\ w.cr[c].refs \in Int /\ w.cr[c].client \in BOOLEAN
      /\ o.freed \in Int /\ \A B : Count(B) \in Int
  BY <1>0, FieldsOf DEF Objects, Count
<1>5. \A d \in Creature : d # c =>
        /\ x.cr[d].freed >= 0
        /\ x.cr[d].refs = Held(x, d) + Count(d \in {c})
        /\ x.cr[d].life = "none" => x.cr[d] = Nothing
        /\ x.cr[d].life # "none" => x.cr[d].refs > 0
  <2>1. Exact(w, {}) /\ x.spawned = w.spawned /\ x.known = w.known
    BY <1>0, <1>1
  <2>2. \A d \in Creature : d # c =>
          /\ x.cr[d].freed >= 0
          /\ x.cr[d].refs = Held(x, d) + Count(d \in {})
          /\ x.cr[d].life = "none" => x.cr[d] = Nothing
          /\ x.cr[d].life # "none" => x.cr[d].refs > 0
    BY <1>1, <2>1, KeptExact
  <2>3. \A d \in Creature : d # c => Count(d \in {c}) = Count(d \in {})
    BY DEF Count
  <2> QED BY <2>2, <2>3
<1>6. x.cr[c].refs = Held(x, c) + Count(c \in {c})
  <2>1. /\ InGame(x, c) = InGame(w, c) /\ Housed(x, c) = Housed(w, c)
        /\ x.cr[c].vec = w.cr[c].vec /\ x.cr[c].master = w.cr[c].master
    BY <1>1 DEF Alike, InGame, Housed
  <2>2. /\ Count(InGame(x, c)) = Count(InGame(w, c)) /\ Count(Housed(x, c)) = Count(Housed(w, c))
        /\ Count(x.cr[c].vec >= 0) = Count(w.cr[c].vec >= 0)
        /\ Count(x.cr[c].master # NULL) = Count(w.cr[c].master # NULL)
    BY <2>1
  <2>3. Count(c \in {c}) = 1 /\ Count(c \in {}) = 0
    BY DEF Count
  <2>4. w.cr[c].refs = Held(w, c) + Count(c \in {})
    BY <1>0 DEF Exact
  <2>6. Noted(x.known, c) = Noted(w.known, c) /\ Noted(w.known, c) \in Nat
    BY <1>0, <1>1, NotedType
  <2>5. Held(w, c) = Held(x, c) + 1 /\ Held(x, c) \in Int
    BY <1>1, <1>4, <2>2, <2>6 DEF Held
  <2> QED BY <1>1, <1>4, <2>3, <2>4, <2>5
<1>7. w.cr[c].life # "none"
  <2> SUFFICES ASSUME w.cr[c].life = "none" PROVE FALSE
    OBVIOUS
  <2>1. w.cr[c].freed = 0 /\ Count(w.cr[c].client) = 0
    BY <1>0 DEF Exact, Nothing, Count
  <2> QED BY <1>4, <2>1 DEF Count
<1>8. x.cr[c].freed >= 0 /\ x.cr[c].life # "none" /\ x.cr[c].refs > 0
  BY <1>0, <1>1, <1>7 DEF Exact, Alike
<1>9. Exact(x, {c})
  BY <1>5, <1>6, <1>8 DEF Exact
<1>10. Sound(x, {c}, left)
  BY <1>1, <1>3, <1>9 DEF Sound
<1>11. Edited(w, x, c, o)
  BY <1>1 DEF Edited
<1> QED BY <1>10, <1>11 DEF x

\* A reference of c was given back.
Paid(w, x, c) ==
  /\ x.spawned = w.spawned /\ x.armed = w.armed
  /\ \A d \in Creature :
       /\ InGame(x, d) <=> InGame(w, d)
       /\ x.cr[d].freed = w.cr[d].freed
       /\ x.cr[d].summons \subseteq w.cr[d].summons

LEMMA PaidBack ==
  ASSUME NEW w, NEW owed, NEW left, Sound(w, owed, left), NEW c \in Creature, c \in owed
  PROVE  Sound(UnRef(w, c), owed \ {c}, left) /\ Paid(w, UnRef(w, c), c)
<1> DEFINE x == UnRef(w, c)
<1>1. Sound(x, owed \ {c}, left) /\ Returned(w, x, c)
  BY UnRefSound
<1> HIDE DEF x
<1> QED BY <1>1 DEF Returned, Spared, Paid, x

LEMMA PaidSound ==
  ASSUME NEW w, NEW left, NEW c \in Creature, Sound(w, {c}, left)
  PROVE  Sound(UnRef(w, c), {}, left) /\ Paid(w, UnRef(w, c), c)
<1>1. c \in {c} /\ {c} \ {c} = {}
  OBVIOUS
<1>2. Sound(UnRef(w, c), {c} \ {c}, left) /\ Paid(w, UnRef(w, c), c)
  BY <1>1, PaidBack
<1> QED BY <1>1, <1>2

\* The protocol of a player is released.
LEMMA ReleasedSound ==
  ASSUME NEW w, Sound(w, {}, {}), NEW c \in Creature, w.cr[c].client
  PROVE  LET x == UnRef([w EXCEPT !.cr[c].client = FALSE], c)
         IN  Sound(x, {}, {}) /\ Guards(w, x)
<1> DEFINE o == [w.cr[c] EXCEPT !.client = FALSE]
           y == [w EXCEPT !.cr[c] = o]
<1>1. w.cr[c] \in Objects /\ w.cr[c].freed >= 0
  BY ObjectsOf DEF Sound, Exact
<1>2. /\ o \in Objects /\ Alike(o, w.cr[c]) /\ o.refs = w.cr[c].refs
      /\ o.freed = w.cr[c].freed /\ o.client = FALSE
  BY <1>1 DEF Objects, Alike
<1>3. o.freed + Count(o.client) = w.cr[c].freed + Count(w.cr[c].client) - 1
  BY <1>1, <1>2 DEF Objects, Count
<1>4. [w EXCEPT !.cr[c].client = FALSE] = y
  OBVIOUS
<1> HIDE DEF o
<1>5. Sound(y, {c}, {}) /\ Edited(w, y, c, o)
  <2>1. o \in Objects /\ Alike(o, w.cr[c]) /\ o.refs = w.cr[c].refs /\ o.freed >= 0
    BY <1>1, <1>2
  <2> QED BY <1>3, <2>1, GivenUp
<1> HIDE DEF y
<1> DEFINE x == UnRef(y, c)
<1>6. Sound(x, {}, {}) /\ Paid(y, x, c)
  <2>1. Sound(y, {c}, {})
    BY <1>5
  <2> QED BY <2>1, PaidSound
<1> HIDE DEF x
<1>7. \A d \in Creature : InGame(y, d) <=> InGame(w, d)
  BY <1>2, <1>5 DEF Edited, Alike, InGame
<1>8. Sound(x, {}, {}) /\ Guards(w, x)
  BY <1>5, <1>6, <1>7 DEF Edited, Paid, Guards
<1> QED BY <1>4, <1>8 DEF x

Cleaned(w, x, S) ==
  /\ x.spawned = w.spawned /\ x.armed = w.armed
  /\ \A d \in Creature :
       /\ InGame(x, d) <=> InGame(w, d)
       /\ x.cr[d].freed = w.cr[d].freed - Count(d \in S)

LEMMA CleanedOfSound ==
  ASSUME NEW w, Sound(w, {}, {}), NEW c \in Creature, w.cr[c].freed > 0
  PROVE  LET x == CleanedOf(w, c)
         IN  Sound(x, {}, {}) /\ Cleaned(w, x, {c})
<1> DEFINE o == [w.cr[c] EXCEPT !.freed = w.cr[c].freed - 1]
           y == [w EXCEPT !.cr[c] = o]
<1>0. \A d \in Creature : w.cr[d] \in Objects
  BY ObjectsOf DEF Sound
<1>1. w.cr[c] \in Objects
  BY <1>0
<1>2. /\ o \in Objects /\ Alike(o, w.cr[c]) /\ o.refs = w.cr[c].refs
      /\ o.freed = w.cr[c].freed - 1 /\ o.client = w.cr[c].client
  BY <1>1 DEF Objects, Alike
<1>3. o.freed >= 0 /\ o.freed + Count(o.client) = w.cr[c].freed + Count(w.cr[c].client) - 1
  BY <1>1, <1>2 DEF Objects, Count
<1>4. CleanedOf(w, c) = UnRef(y, c)
  BY DEF CleanedOf
<1> HIDE DEF o
<1>5. Sound(y, {c}, {}) /\ Edited(w, y, c, o)
  <2>1. o \in Objects /\ Alike(o, w.cr[c]) /\ o.refs = w.cr[c].refs /\ o.freed >= 0
    BY <1>1, <1>2, <1>3
  <2> QED BY <1>3, <2>1, GivenUp
<1> HIDE DEF y
<1> DEFINE x == UnRef(y, c)
<1>6. Sound(x, {}, {}) /\ Paid(y, x, c)
  <2>1. Sound(y, {c}, {})
    BY <1>5
  <2> QED BY <2>1, PaidSound
<1> HIDE DEF x
<1>7. \A d \in Creature : InGame(y, d) <=> InGame(w, d)
  BY <1>2, <1>5 DEF Edited, Alike, InGame
<1>8. \A d \in Creature : y.cr[d].freed = w.cr[d].freed - Count(d \in {c})
  BY <1>0, <1>2, <1>5 DEF Edited, Count, Objects
<1>9. Sound(x, {}, {}) /\ Cleaned(w, x, {c})
  BY <1>5, <1>6, <1>7, <1>8 DEF Edited, Paid, Cleaned
<1> QED BY <1>4, <1>9 DEF x

\* One reference of each of S.
LEMMA CleanedSound ==
  ASSUME NEW w, Sound(w, {}, {}), NEW S \in SUBSET Creature, \A c \in S : w.cr[c].freed > 0,
         NEW f, Cleans(f, w, S)
  PROVE  LET x == f[S]
         IN  Sound(x, {}, {}) /\ Cleaned(w, x, S)
<1> DEFINE Good(x, s) == Sound(x, {}, {}) /\ Cleaned(w, x, s)
<1>0. \A d \in Creature : w.cr[d].freed \in Int
  BY FieldsOf DEF Sound
<1>1. Good(w, {})
  BY <1>0 DEF Count, Cleaned
<1>2. ASSUME NEW s \in SUBSET S, NEW m \in s, NEW x, Good(x, s \ {m})
      PROVE  Good(CleanedOf(x, m), s)
  <2>1. m \in Creature /\ x.cr[m].freed > 0 /\ Sound(x, {}, {})
    BY <1>0, <1>2 DEF Count, Cleaned
  <2> DEFINE y == CleanedOf(x, m)
  <2>2. Sound(y, {}, {}) /\ Cleaned(x, y, {m})
    BY <2>1, CleanedOfSound
  <2> HIDE DEF y
  <2>3. \A d \in Creature : y.cr[d].freed = w.cr[d].freed - Count(d \in s)
    <3> SUFFICES ASSUME NEW d \in Creature PROVE y.cr[d].freed = w.cr[d].freed - Count(d \in s)
      OBVIOUS
    <3>1. y.cr[d].freed = (w.cr[d].freed - Count(d \in s \ {m})) - Count(d \in {m})
      BY <1>2, <2>2 DEF Cleaned
    <3>2. Count(d \in s) = Count(d \in s \ {m}) + Count(d \in {m})
      BY DEF Count
    <3>3. w.cr[d].freed \in Int /\ Count(d \in s \ {m}) \in Int /\ Count(d \in {m}) \in Int
      BY <1>0 DEF Count
    <3>4. \A a, i, k \in Int : (a - i) - k = a - (i + k)
      OBVIOUS
    <3>5. w.cr[d].freed - (Count(d \in s \ {m}) + Count(d \in {m})) = w.cr[d].freed - Count(d \in s)
      BY <3>2
    <3> QED BY <3>1, <3>3, <3>4, <3>5
  <2>4. \A d \in Creature : InGame(y, d) <=> InGame(w, d)
    BY <1>2, <2>2 DEF Cleaned
  <2>5. y.spawned = w.spawned /\ y.armed = w.armed
    BY <1>2, <2>2 DEF Cleaned
  <2>6. Good(y, s)
    BY <2>2, <2>3, <2>4, <2>5 DEF Cleaned
  <2> QED BY <2>6 DEF y
<1> DEFINE T == {s \in SUBSET S : Good(f[s], s)}
<1>3. {} \in T
  BY <1>1 DEF Cleans
<1>4. ASSUME NEW s \in SUBSET S, s # {} PROVE \E m \in s : s \ {m} \in T => s \in T
  <2> HIDE DEF Good
  <2>1. PICK m \in s : f[s] = CleanedOf(f[s \ {m}], m)
    BY <1>4 DEF Cleans
  <2>2. SUFFICES ASSUME s \ {m} \in T PROVE s \in T
    OBVIOUS
  <2>3. Good(f[s \ {m}], s \ {m})
    BY <2>2
  <2>4. Good(f[s], s)
    BY <1>2, <2>1, <2>3
  <2> QED BY <2>4
<1>5. S \in T
  <2> HIDE DEF T, Good
  <2>1. IsFiniteSet(S)
    BY CreatureFinite, FS_Subset
  <2>2. SUBSET S \subseteq T
    BY <1>3, <1>4, <2>1, SubsetInduction
  <2> QED BY <2>2
<1> QED BY <1>5

\* cleanup gives back at most what is there.
LEMMA CleanedUpSound ==
  ASSUME NEW w, Sound(w, {}, {})
  PROVE  Sound(CleanedUp(w), {}, {}) /\ Guards(w, CleanedUp(w))
<1> DEFINE twice == {c \in Creature : w.cr[c].freed = 2}
           once == {c \in Creature : w.cr[c].freed > 0}
           Fold(x, S) == FoldSet(LAMBDA c, z : UnRef([z EXCEPT !.cr[c].freed = @ - 1], c), x, S)
           y == Fold(w, twice)
           x == Fold(y, once)
<1>0. \A d \in Creature : w.cr[d].freed \in Int
  BY FieldsOf DEF Sound
<1>1. CleanedUp(w) = x
  BY DEF CleanedUp
<1>2. Sound(y, {}, {}) /\ Cleaned(w, y, twice)
  <2>1. twice \in SUBSET Creature /\ \A c \in twice : w.cr[c].freed > 0
    BY <1>0
  <2>2. w \in Worlds
    BY DEF Sound
  <2> HIDE DEF twice
  <2>3. PICK f : y = f[twice] /\ Cleans(f, w, twice)
    BY <2>1, <2>2, CleanFold
  <2> HIDE DEF y
  <2> QED BY <2>1, <2>3, CleanedSound
<1>3. \A c \in once : y.cr[c].freed > 0
  <2> SUFFICES ASSUME NEW c \in once PROVE y.cr[c].freed > 0
    OBVIOUS
  <2>1. w.cr[c].freed > 0 /\ w.cr[c].freed \in Int /\ y.cr[c].freed = w.cr[c].freed - Count(c \in twice)
    BY <1>0, <1>2 DEF Cleaned
  <2>2. c \in twice <=> w.cr[c].freed = 2
    OBVIOUS
  <2> HIDE DEF y, twice
  <2> QED BY <2>1, <2>2 DEF Count
<1> HIDE DEF y
<1>4. Sound(x, {}, {}) /\ Cleaned(y, x, once)
  <2>1. once \in SUBSET Creature
    OBVIOUS
  <2>2. y \in Worlds
    BY <1>2 DEF Sound
  <2> HIDE DEF once
  <2>3. PICK f : x = f[once] /\ Cleans(f, y, once)
    BY <2>1, <2>2, CleanFold
  <2> HIDE DEF x
  <2> QED BY <1>2, <1>3, <2>1, <2>3, CleanedSound
<1> HIDE DEF x
<1> QED BY <1>1, <1>2, <1>4 DEF Cleaned, Guards

-----------------------------------------------------------------------------
(* Coming into the game                                                      *)

\* An object that is not there has nothing, and nobody has it.
LEMMA NobodyHas ==
  ASSUME NEW w, Sound(w, {}, {}), NEW m \in Creature, w.cr[m].life = "none"
  PROVE  /\ w.cr[m] = Nothing /\ ~Housed(w, m)
         /\ \A d \in Creature : w.cr[d].master # m /\ m \notin w.cr[d].summons
         /\ Noted(w.known, m) = 0 /\ \A n \in w.known : n[1] # m /\ n[3] # m
<1>0. w \in Worlds /\ Exact(w, {}) /\ Linked(w) /\ Noting(w)
  BY DEF Sound
<1>1. w.cr[m] = Nothing
  BY <1>0 DEF Exact
<1>2. ~Housed(w, m)
  <2>1. Held(w, m) + Count(m \in {}) = 0
    BY <1>0, <1>1 DEF Exact, Nothing
  <2>2. /\ w.cr[m].life = "none" /\ w.cr[m].freed = 0 /\ w.cr[m].vec = -1
        /\ w.cr[m].client = FALSE /\ w.cr[m].master = NULL
    BY <1>1 DEF Nothing
  <2>3. Held(w, m) \in Nat /\ (Held(w, m) = 0 => ~Housed(w, m))
    <3>1. w.cr[m].freed >= 0
      BY <1>0 DEF Exact
    <3> QED BY <1>0, <3>1, HeldType
  <2>4. Count(m \in {}) = 0
    BY DEF Count
  <2> QED BY <2>1, <2>3, <2>4
<1>3. \A d \in Creature : w.cr[d].master # m /\ m \notin w.cr[d].summons
  BY <1>0, <1>1, NullIsNobody DEF Linked, Nothing
<1>4. Noted(w.known, m) = 0 /\ \A n \in w.known : n[1] # m /\ n[3] # m
  BY <1>0, NobodyNotes DEF Noting
<1> QED BY <1>1, <1>2, <1>3, <1>4

LEMMA ReplacedIsEdited ==
  ASSUME NEW w \in Worlds, NEW c \in Creature, NEW o \in Objects
  PROVE  [w EXCEPT !.cr[c] = o] \in Worlds /\ Edited(w, [w EXCEPT !.cr[c] = o], c, o)
<1> DEFINE x == [w EXCEPT !.cr[c] = o]
<1>1. /\ x \in Worlds
      /\ x.cr[c] = o /\ \A d \in Creature : d # c => x.cr[d] = w.cr[d]
      /\ x.toAdd = w.toAdd /\ x.spawned = w.spawned /\ x.armed = w.armed /\ x.known = w.known
  BY Replaced
<1> HIDE DEF x
<1> QED BY <1>1 DEF Edited, x

\* internalPlaceCreature of a monster that was just created.
NewBorn == [Nothing EXCEPT !.life = "game", !.refs = 1]

LEMMA NewBornIs ==
  /\ NewBorn \in Objects
  /\ NewBorn.life = "game" /\ NewBorn.alive = TRUE /\ NewBorn.checked = FALSE /\ NewBorn.vec = -1
  /\ NewBorn.refs = 1 /\ NewBorn.freed = 0 /\ NewBorn.client = FALSE /\ NewBorn.master = NULL
  /\ NewBorn.summons = {} /\ NewBorn.place = NULL
<1> DEFINE a == [Nothing EXCEPT !.life = "game"]
<1>1. a \in Objects
  BY NothingType DEF Objects
<1>2. [a EXCEPT !.refs = 1] \in Objects
  <2> HIDE DEF a
  <2> QED BY <1>1 DEF Objects
<1>3. NewBorn \in Objects
  BY <1>2 DEF NewBorn
<1> QED BY <1>3 DEF NewBorn, Nothing

LEMMA BornSound ==
  ASSUME NEW w, Sound(w, {}, {}), NEW m \in Monsters, w.cr[m].life = "none"
  PROVE  LET x == [w EXCEPT !.cr[m] = NewBorn]
         IN  Sound(x, {}, {}) /\ Edited(w, x, m, NewBorn)
<1> DEFINE x == [w EXCEPT !.cr[m] = NewBorn]
<1>0. /\ w \in Worlds /\ Exact(w, {}) /\ Alert(w) /\ Linked(w)
      /\ Together(w, {}) /\ AtHome(w) /\ Listed(w) /\ Noting(w)
  BY DEF Sound
<1>1. m \in Creature /\ m \notin Players
  BY CreaturesAssumption DEF CreaturesAssumption, Creature
<1>2. x \in Worlds /\ Edited(w, x, m, NewBorn)
  BY <1>0, <1>1, NewBornIs, ReplacedIsEdited
<1> HIDE DEF x
<1>3. /\ x.cr[m] = NewBorn /\ \A d \in Creature : d # m => x.cr[d] = w.cr[d]
      /\ x.toAdd = w.toAdd /\ x.spawned = w.spawned /\ x.armed = w.armed /\ x.known = w.known
  BY <1>2 DEF Edited
<1>4. /\ w.cr[m] = Nothing /\ ~Housed(w, m)
      /\ \A d \in Creature : w.cr[d].master # m /\ m \notin w.cr[d].summons
      /\ Noted(w.known, m) = 0
  BY <1>1, NobodyHas
<1>5. Exact(x, {})
  <2>1. \A d \in Creature : d # m =>
          /\ x.cr[d].freed >= 0
          /\ x.cr[d].refs = Held(x, d) + Count(d \in {})
          /\ x.cr[d].life = "none" => x.cr[d] = Nothing
          /\ x.cr[d].life # "none" => x.cr[d].refs > 0
    <3>1. Exact(w, {}) /\ x.spawned = w.spawned /\ x.known = w.known
      BY <1>0, <1>3
    <3> QED BY <1>3, <3>1, KeptExact
  <2>2. ~Housed(x, m)
    BY <1>3, <1>4 DEF Housed
  <2>6. Noted(x.known, m) = 0
    BY <1>3, <1>4
  <2>3. Held(x, m) = 1
    BY <1>3, <2>2, <2>6, NewBornIs DEF Held, InGame, Count
  <2>4. Count(m \in {}) = 0
    BY DEF Count
  <2>5. /\ x.cr[m].freed >= 0 /\ x.cr[m].refs = Held(x, m) + Count(m \in {})
        /\ x.cr[m].life # "none" /\ x.cr[m].refs > 0
    BY <1>3, <2>3, <2>4, NewBornIs
  <2> QED BY <2>1, <2>5 DEF Exact
<1>6. Alert(x)
  BY <1>0, <1>1, <1>3, NewBornIs DEF Alert, InGame
<1>7. Linked(x)
  <2>1. \A d \in Creature : x.cr[d].master = w.cr[d].master /\ x.cr[d].summons = w.cr[d].summons
    <3> SUFFICES ASSUME NEW d \in Creature
                 PROVE  x.cr[d].master = w.cr[d].master /\ x.cr[d].summons = w.cr[d].summons
      OBVIOUS
    <3>1. w.cr[m].master = NULL /\ w.cr[m].summons = {}
      BY <1>4 DEF Nothing
    <3>2. x.cr[m].master = NULL /\ x.cr[m].summons = {}
      BY <1>3, NewBornIs
    <3> QED BY <1>3, <3>1, <3>2
  <2> QED BY <1>0, <2>1 DEF Linked
<1>8. Together(x, {})
  <2> SUFFICES ASSUME NEW n \in Creature, x.cr[n].master # NULL
               PROVE  /\ InGame(x, n) => InGame(x, x.cr[n].master)
                      /\ InGame(x, x.cr[n].master) => InGame(x, n)
    BY DEF Together
  <2>1. n # m /\ x.cr[n] = w.cr[n] /\ w.cr[n].master \in Creature /\ w.cr[n].master # m
    BY <1>0, <1>3, <1>4, NewBornIs, FieldsOf
  <2>2. x.cr[w.cr[n].master] = w.cr[w.cr[n].master]
    BY <1>3, <2>1
  <2> QED BY <1>0, <2>1, <2>2 DEF Together, InGame
<1>9. AtHome(x)
  <2> SUFFICES ASSUME NEW n \in Creature, NEW p \in Places, NEW q \in Places
               PROVE  /\ n \in x.spawned[p] /\ n \in x.spawned[q] => p = q
                      /\ InGame(x, n) => (x.cr[n].place = p <=> n \in x.spawned[p])
    BY DEF AtHome
  <2>1. n \in x.spawned[p] /\ n \in x.spawned[q] => p = q
    BY <1>0, <1>3 DEF AtHome
  <2>2. CASE n = m
    BY <1>3, <1>4, <2>1, <2>2, NewBornIs, NullIsNobody DEF Housed
  <2>3. CASE n # m
    BY <1>0, <1>3, <2>1, <2>3 DEF AtHome, InGame
  <2> QED BY <2>2, <2>3
<1>10. Listed(x)
  <2>1. \A d \in Creature : x.cr[d].vec = w.cr[d].vec
    BY <1>3, <1>4, NewBornIs DEF Nothing
  <2>2. Listed(w) /\ x.toAdd = w.toAdd /\ w \in Worlds
    BY <1>0, <1>3
  <2> QED BY <2>1, <2>2, SameVectors
<1>12. Noting(x)
  BY <1>0, <1>3, NewBornIs, SameNotes
<1>11. Sound(x, {}, {})
  BY <1>2, <1>5, <1>6, <1>7, <1>8, <1>9, <1>10, <1>12 DEF Sound
<1> QED BY <1>2, <1>11 DEF x

\* What was placed is checked, or a script has removed it again.
Settled(x, m, p) == x.cr[m].life # "none" /\ (InGame(x, m) => x.cr[m].place = p)

LEMMA PlacedSound ==
  ASSUME NEW u, Sound(u, {}, {}), NEW m \in Creature, InGame(u, m), u.cr[m].summons = {},
         NEW v \in Vectors, NEW stays \in BOOLEAN, NEW told
  PROVE  LET x == AddCheck(IF stays THEN u ELSE RemoveCreature(u, m, told), m, v)
         IN  Sound(x, {}, {}) /\ Guards(u, x) /\ Settled(x, m, u.cr[m].place)
<1>1. CASE stays
  <2> DEFINE x == AddCheck(u, m, v)
  <2>1. Sound(x, {}, {}) /\ Keeps(u, x)
    BY AddCheckSound
  <2> HIDE DEF x
  <2>2. Guards(u, x)
    BY <2>1, KeepsGuards
  <2>3. Settled(x, m, u.cr[m].place)
    BY <2>1 DEF Keeps, Settled, InGame
  <2> QED BY <1>1, <2>1, <2>2, <2>3 DEF x
<1>2. CASE ~stays
  <2> DEFINE x == RemoveCreature(u, m, told)
  <2>1. Sound(x, {}, {}) /\ Guards(u, x) /\ ~InGame(x, m) /\ x.cr[m].life = "removed"
    BY RemoveCreatureSound
  <2> HIDE DEF x
  <2>2. AddCheck(x, m, v) = x
    BY <2>1 DEF AddCheck
  <2>3. Settled(x, m, u.cr[m].place)
    BY <2>1 DEF Settled
  <2> QED BY <1>2, <2>1, <2>2, <2>3 DEF x
<1> QED BY <1>1, <1>2

-----------------------------------------------------------------------------
(* Summons                                                                   *)

\* c is the master of m now.
Joined(w, x, c, m) ==
  /\ x.toAdd = w.toAdd /\ x.spawned = w.spawned /\ x.armed = w.armed /\ x.known = w.known
  /\ x.cr[m] = [w.cr[m] EXCEPT !.master = c, !.refs = w.cr[m].refs + 1]
  /\ x.cr[c] = [w.cr[c] EXCEPT !.summons = w.cr[c].summons \cup {m}]
  /\ \A d \in Creature : d # m /\ d # c => x.cr[d] = w.cr[d]

LEMMA AddSummonWorld ==
  ASSUME NEW w \in Worlds, NEW c \in Creature, NEW m \in Monsters, c # m
  PROVE  AddSummon(w, c, m) \in Worlds /\ Joined(w, AddSummon(w, c, m), c, m)
<1> DEFINE o == [w.cr[m] EXCEPT !.master = c, !.refs = w.cr[m].refs + 1]
           x == [w EXCEPT !.cr[m] = o]
           l == [x.cr[c] EXCEPT !.summons = x.cr[c].summons \cup {m}]
           y == [x EXCEPT !.cr[c] = l]
<1>0. m \in Creature
  BY DEF Creature
<1>1. w.cr[m] \in Objects /\ o \in Objects
  <2> DEFINE a == [w.cr[m] EXCEPT !.master = c]
  <2>1. w.cr[m] \in Objects
    BY <1>0, ObjectsOf
  <2>2. a \in Objects /\ w.cr[m].refs + 1 \in Int
    BY <2>1 DEF Objects
  <2>3. [a EXCEPT !.refs = w.cr[m].refs + 1] \in Objects
    <3> HIDE DEF a
    <3> QED BY <2>2 DEF Objects
  <2> QED BY <2>1, <2>3
<1>2. /\ x \in Worlds /\ x.cr[m] = o
      /\ \A d \in Creature : d # m => x.cr[d] = w.cr[d]
      /\ x.toAdd = w.toAdd /\ x.spawned = w.spawned /\ x.armed = w.armed /\ x.known = w.known
  BY <1>0, <1>1, Replaced
<1>3. AddSummon(w, c, m) = y
  BY <1>0, ZenonT(60) DEF AddSummon, Worlds
<1> HIDE DEF o, x
<1>4. l \in Objects
  <2>1. x.cr[c] \in Objects
    BY <1>2, ObjectsOf
  <2> QED BY <2>1 DEF Objects
<1>5. l = [w.cr[c] EXCEPT !.summons = w.cr[c].summons \cup {m}]
  BY <1>2
<1> HIDE DEF l
<1>6. /\ y \in Worlds /\ y.cr[c] = l
      /\ \A d \in Creature : d # c => y.cr[d] = x.cr[d]
      /\ y.toAdd = x.toAdd /\ y.spawned = x.spawned /\ y.armed = x.armed /\ y.known = x.known
  BY <1>2, <1>4, Replaced
<1> HIDE DEF y
<1>7. Joined(w, y, c, m)
  BY <1>0, <1>2, <1>5, <1>6 DEF o, Joined
<1> QED BY <1>3, <1>6, <1>7

\* Who is in the game, and where, is as before.
Stays(w, x) ==
  /\ x.spawned = w.spawned /\ x.armed = w.armed /\ x.known = w.known
  /\ \A d \in Creature : (InGame(x, d) <=> InGame(w, d)) /\ x.cr[d].place = w.cr[d].place

\* addSummon of a monster that has neither a master nor summons.
LEMMA AddSummonSound ==
  ASSUME NEW w, Sound(w, {}, {}), NEW c \in Creature, NEW m \in Monsters, c # m,
         InGame(w, c), w.cr[c].master = NULL,
         InGame(w, m), w.cr[m].master = NULL, w.cr[m].summons = {}
  PROVE  LET x == AddSummon(w, c, m)
         IN  Sound(x, {}, {}) /\ Stays(w, x) /\ x.cr[m].summons = {}
<1> DEFINE x == AddSummon(w, c, m)
<1>0. /\ w \in Worlds /\ Exact(w, {}) /\ Alert(w) /\ Linked(w)
      /\ Together(w, {}) /\ AtHome(w) /\ Listed(w) /\ Noting(w) /\ m \in Creature
  BY DEF Sound, Creature
<1>13. x \in Worlds /\ Joined(w, x, c, m)
  BY <1>0, AddSummonWorld
<1> HIDE DEF x
<1>1. /\ x \in Worlds
      /\ x.toAdd = w.toAdd /\ x.spawned = w.spawned /\ x.armed = w.armed /\ x.known = w.known
      /\ x.cr[m] = [w.cr[m] EXCEPT !.master = c, !.refs = w.cr[m].refs + 1]
      /\ x.cr[c] = [w.cr[c] EXCEPT !.summons = w.cr[c].summons \cup {m}]
      /\ \A d \in Creature : d # m /\ d # c => x.cr[d] = w.cr[d]
  BY <1>13 DEF Joined
<1>2. w.cr[m] \in Objects /\ w.cr[c] \in Objects
  BY <1>0, ObjectsOf
<1>3. /\ x.cr[m].life = w.cr[m].life /\ x.cr[m].alive = w.cr[m].alive
      /\ x.cr[m].checked = w.cr[m].checked /\ x.cr[m].vec = w.cr[m].vec
      /\ x.cr[m].refs = w.cr[m].refs + 1 /\ x.cr[m].freed = w.cr[m].freed
      /\ x.cr[m].client = w.cr[m].client /\ x.cr[m].master = c
      /\ x.cr[m].summons = w.cr[m].summons /\ x.cr[m].place = w.cr[m].place
  BY <1>1, <1>2 DEF Objects
<1>4. /\ x.cr[c].life = w.cr[c].life /\ x.cr[c].alive = w.cr[c].alive
      /\ x.cr[c].checked = w.cr[c].checked /\ x.cr[c].vec = w.cr[c].vec
      /\ x.cr[c].refs = w.cr[c].refs /\ x.cr[c].freed = w.cr[c].freed
      /\ x.cr[c].client = w.cr[c].client /\ x.cr[c].master = w.cr[c].master
      /\ x.cr[c].summons = w.cr[c].summons \cup {m} /\ x.cr[c].place = w.cr[c].place
  BY <1>1, <1>2 DEF Objects
<1>5. \A d \in Creature :
        /\ x.cr[d].life = w.cr[d].life /\ x.cr[d].alive = w.cr[d].alive
        /\ x.cr[d].checked = w.cr[d].checked /\ x.cr[d].vec = w.cr[d].vec
        /\ x.cr[d].freed = w.cr[d].freed
        /\ x.cr[d].client = w.cr[d].client /\ x.cr[d].place = w.cr[d].place
        /\ d # m => x.cr[d].master = w.cr[d].master /\ x.cr[d].refs = w.cr[d].refs
        /\ d # c => x.cr[d].summons = w.cr[d].summons
  BY <1>1, <1>3, <1>4
<1>6. Exact(x, {})
  <2>6. \A d \in Creature : Noted(x.known, d) = Noted(w.known, d) /\ Noted(w.known, d) \in Nat
    BY <1>0, <1>1, NotedType
  <2> SUFFICES ASSUME NEW d \in Creature
               PROVE  /\ x.cr[d].freed >= 0
                      /\ x.cr[d].refs = Held(x, d) + Count(d \in {})
                      /\ x.cr[d].life = "none" => x.cr[d] = Nothing
                      /\ x.cr[d].life # "none" => x.cr[d].refs > 0
    BY DEF Exact
  <2>1. /\ w.cr[d].refs = Held(w, d) + Count(d \in {}) /\ w.cr[d].freed >= 0
        /\ w.cr[d].life = "none" => w.cr[d] = Nothing
        /\ w.cr[d].life # "none" => w.cr[d].refs > 0
    BY <1>0 DEF Exact
  <2>2. x.cr[d].life = "none" => x.cr[d] = Nothing
    BY <1>1, <1>5, <2>1 DEF InGame
  <2>3. /\ InGame(x, d) = InGame(w, d) /\ Housed(x, d) = Housed(w, d)
        /\ w.cr[d].freed \in Int /\ w.cr[d].refs \in Int
    BY <1>0, <1>1, <1>5, FieldsOf DEF InGame, Housed
  <2>4. CASE d = m
    <3>1. Count(x.cr[d].master # NULL) = 1 /\ Count(w.cr[d].master # NULL) = 0
      BY <1>3, <2>4, NullIsNobody DEF Count
    <3>2. \A B : Count(B) \in Int
      BY DEF Count
    <3>3. Held(x, d) = Held(w, d) + 1 /\ Held(w, d) \in Int
      BY <1>5, <2>3, <2>6, <3>1, <3>2 DEF Held
    <3>4. x.cr[d].refs = w.cr[d].refs + 1 /\ Count(d \in {}) = 0
      BY <1>3, <2>4 DEF Count
    <3>5. InGame(w, d)
      BY <2>4
    <3> QED BY <1>5, <2>1, <2>2, <2>3, <3>3, <3>4, <3>5 DEF InGame
  <2>5. CASE d # m
    <3>1. Held(x, d) = Held(w, d)
      BY <1>1, <1>5, <2>3, <2>5 DEF Held
    <3> QED BY <1>5, <2>1, <2>2, <2>5, <3>1
  <2> QED BY <2>4, <2>5
<1>7. Alert(x)
  BY <1>0, <1>5 DEF Alert, InGame
<1>8. Linked(x)
  <2> SUFFICES ASSUME NEW n \in Creature, NEW d \in Creature
               PROVE  /\ n \in x.cr[d].summons <=> x.cr[n].master = d
                      /\ x.cr[n].master = d => x.cr[n].summons = {}
    BY DEF Linked
  <2>1. /\ n \in w.cr[d].summons <=> w.cr[n].master = d
        /\ w.cr[n].master = d => w.cr[n].summons = {}
    BY <1>0 DEF Linked
  <2>2. CASE n = m
    <3>1. x.cr[n].master = c /\ x.cr[n].summons = {}
      BY <1>3, <2>2
    <3>2. n \in x.cr[d].summons <=> d = c
      BY <1>4, <1>5, <2>1, <2>2, NullIsNobody
    <3> QED BY <3>1, <3>2
  <2>3. CASE n # m
    <3>1. x.cr[n].master = w.cr[n].master
      BY <1>5, <2>3
    <3>2. n \in x.cr[d].summons <=> n \in w.cr[d].summons
      BY <1>4, <1>5, <2>3
    <3>3. x.cr[n].master = d => n # c
      BY <3>1, NullIsNobody
    <3> QED BY <1>5, <2>1, <3>1, <3>2, <3>3
  <2> QED BY <2>2, <2>3
<1>9. Together(x, {})
  <2>1. \A n \in Creature : x.cr[n].master # NULL => x.cr[n].master \in Creature
    BY <1>1, FieldsOf
  <2>2. \A n \in Creature : InGame(x, n) <=> InGame(w, n)
    BY <1>5 DEF InGame
  <2> QED BY <1>0, <1>3, <1>5, <2>1, <2>2 DEF Together
<1>10. AtHome(x)
  BY <1>0, <1>1, <1>5 DEF AtHome, InGame
<1>11. Listed(x)
  <2>1. \A d \in Creature : x.cr[d].vec = w.cr[d].vec
    BY <1>5
  <2> QED BY <1>0, <1>1, <2>1, SameVectors
<1>15. Noting(x)
  BY <1>0, <1>1, <1>5, SameNotes
<1>12. Sound(x, {}, {})
  BY <1>1, <1>6, <1>7, <1>8, <1>9, <1>10, <1>11, <1>15 DEF Sound
<1>14. Stays(w, x)
  BY <1>1, <1>5 DEF Stays, InGame
<1> QED BY <1>3, <1>12, <1>14 DEF x

\* A summon is placed.
LEMMA SummonedSound ==
  ASSUME NEW w, Sound(w, {}, {}), NEW c \in Creature, NEW m \in Monsters,
         InGame(w, c), w.cr[c].master = NULL, w.cr[m].life = "none",
         NEW v \in Vectors, NEW stays \in BOOLEAN, NEW told
  PROVE  LET x == Placed(AddSummon(w, c, m), m, v, stays, told)
         IN  Sound(x, {}, {}) /\ Guards(w, x)
<1> DEFINE y == AddSummon(w, c, m)
           u == [y EXCEPT !.cr[m] = [y.cr[m] EXCEPT !.life = "game", !.refs = y.cr[m].refs + 1]]
           b == [w EXCEPT !.cr[m] = NewBorn]
           z == AddSummon(b, c, m)
<1>0. w \in Worlds /\ m \in Creature /\ c # m
  BY DEF Sound, Creature, InGame
<1>1. Sound(b, {}, {}) /\ Edited(w, b, m, NewBorn)
  BY BornSound
<1> HIDE DEF b
<1>2. /\ b \in Worlds /\ b.cr[m] = NewBorn /\ \A d \in Creature : d # m => b.cr[d] = w.cr[d]
      /\ b.toAdd = w.toAdd /\ b.spawned = w.spawned /\ b.armed = w.armed /\ b.known = w.known
  BY <1>1 DEF Edited, Sound
<1>3. Sound(z, {}, {}) /\ Stays(b, z) /\ z.cr[m].summons = {}
  <2>1. /\ InGame(b, c) /\ b.cr[c].master = NULL
        /\ InGame(b, m) /\ b.cr[m].master = NULL /\ b.cr[m].summons = {}
    BY <1>0, <1>2, NewBornIs DEF InGame
  <2> QED BY <1>0, <1>1, <2>1, AddSummonSound
<1>4. z \in Worlds /\ Joined(b, z, c, m)
  BY <1>0, <1>2, AddSummonWorld
<1>5. y \in Worlds /\ Joined(w, y, c, m)
  BY <1>0, AddSummonWorld
<1> HIDE DEF z, y
<1>6. w.cr[m] = Nothing
  BY <1>0, NobodyHas
<1>7. [y.cr[m] EXCEPT !.life = "game", !.refs = y.cr[m].refs + 1] = z.cr[m]
  <2> DEFINE a == [Nothing EXCEPT !.master = c, !.refs = 1]
  <2>1. y.cr[m] = a
    BY <1>5, <1>6 DEF Joined, Nothing
  <2>2. y.cr[m].refs = 1
    BY <2>1 DEF Nothing
  <2>3. z.cr[m] = [NewBorn EXCEPT !.master = c, !.refs = 2]
    BY <1>2, <1>4, NewBornIs DEF Joined
  <2>4. [a EXCEPT !.life = "game", !.refs = 2] = [NewBorn EXCEPT !.master = c, !.refs = 2]
    BY DEF NewBorn, Nothing
  <2> HIDE DEF a
  <2> QED BY <2>1, <2>2, <2>3, <2>4
<1>8. z.cr[m] \in Objects
  BY <1>0, <1>4, ObjectsOf
<1>9. u \in Worlds /\ Edited(y, u, m, z.cr[m])
  BY <1>0, <1>5, <1>7, <1>8, ReplacedIsEdited
<1> HIDE DEF u
<1>10. u = z
  <2>1. \A d \in Creature : u.cr[d] = z.cr[d]
    <3> SUFFICES ASSUME NEW d \in Creature PROVE u.cr[d] = z.cr[d]
      OBVIOUS
    <3>1. CASE d = m
      BY <1>9, <3>1 DEF Edited
    <3>2. CASE d = c
      <4>1. u.cr[c] = y.cr[c] /\ b.cr[c] = w.cr[c]
        BY <1>0, <1>2, <1>9 DEF Edited
      <4>2. y.cr[c] = [w.cr[c] EXCEPT !.summons = w.cr[c].summons \cup {m}]
        BY <1>5 DEF Joined
      <4>3. z.cr[c] = [b.cr[c] EXCEPT !.summons = b.cr[c].summons \cup {m}]
        BY <1>4 DEF Joined
      <4> QED BY <3>2, <4>1, <4>2, <4>3
    <3>3. CASE d # m /\ d # c
      BY <1>2, <1>4, <1>5, <1>9, <3>3 DEF Edited, Joined
    <3> QED BY <3>1, <3>2, <3>3
  <2>2. u.cr = z.cr
    BY <1>4, <1>9, <2>1 DEF Worlds
  <2>3. u.toAdd = z.toAdd /\ u.spawned = z.spawned /\ u.armed = z.armed /\ u.known = z.known
    BY <1>2, <1>4, <1>5, <1>9 DEF Edited, Joined
  <2> QED BY <1>4, <1>9, <2>2, <2>3 DEF Worlds
<1>11. Placed(AddSummon(w, c, m), m, v, stays, told)
        = AddCheck(IF stays THEN z ELSE RemoveCreature(z, m, told), m, v)
  BY <1>10 DEF Placed, u, y
<1> DEFINE x == AddCheck(IF stays THEN z ELSE RemoveCreature(z, m, told), m, v)
<1>12. InGame(z, m)
  BY <1>2, <1>3, NewBornIs, <1>0 DEF Stays, InGame
<1>13. Sound(x, {}, {}) /\ Guards(z, x) /\ Settled(x, m, z.cr[m].place)
  BY <1>0, <1>3, <1>12, PlacedSound
<1> HIDE DEF x
<1>14. Guards(w, z)
  <2>1. \A d \in Creature : InGame(w, d) => InGame(z, d)
    BY <1>2, <1>3, <1>12 DEF Stays, InGame
  <2> QED BY <1>2, <1>4, <2>1 DEF Guards, Joined
<1> QED BY <1>11, <1>13, <1>14, GuardsOnce DEF x

LEMMA PlayersAreFree ==
  ASSUME NEW w, Sound(w, {}, {}), NEW c \in Players
  PROVE  w.cr[c].master = NULL
<1>1. w \in Worlds /\ Linked(w) /\ c \in Creature /\ c \notin Monsters
  BY CreaturesAssumption DEF Sound, CreaturesAssumption, Creature
<1>2. w.cr[c].master \in Creature \cup {NULL} /\ \A d \in Creature : w.cr[d].summons \subseteq Monsters
  BY <1>1, FieldsOf
<1> QED BY <1>1, <1>2 DEF Linked

LEMMA StaysOn ==
  ASSUME NEW w, NEW x, NEW y, Stays(w, x), Stays(x, y)
  PROVE  Stays(w, y)
BY DEF Stays

LEMMA KeepsStays ==
  ASSUME NEW w, NEW x, Keeps(w, x)
  PROVE  Stays(w, x)
BY DEF Keeps, Stays, InGame

\* convinceCreature, but for the spawn of the monster.
Persuaded(w, c, m, v) == AddSummon(DestroySummons(RemoveSummon(w, w.cr[m].master, m), m, v), c, m)

LEMMA PersuadedSound ==
  ASSUME NEW w, Sound(w, {}, {}), NEW c \in Players, NEW m \in Monsters, InGame(w, c), InGame(w, m),
         NEW v \in Vectors
  PROVE  Sound(Persuaded(w, c, m, v), {}, {}) /\ Stays(w, Persuaded(w, c, m, v))
<1> DEFINE e == w.cr[m].master
           r == RemoveSummon(w, e, m)
           d == DestroySummons(r, m, v)
           j == AddSummon(d, c, m)
<1>0. /\ w \in Worlds /\ Linked(w) /\ m \in Creature /\ c \in Creature /\ c # m
      /\ e \in Creature \cup {NULL}
  <2>1. w \in Worlds /\ Linked(w) /\ m \in Creature /\ c \in Creature /\ c # m
    BY CreaturesAssumption DEF Sound, CreaturesAssumption, Creature
  <2> QED BY <2>1, FieldsOf
<1> HIDE DEF e
<1>1. /\ Sound(r, {}, {})
      /\ r.toAdd = w.toAdd /\ r.spawned = w.spawned /\ r.armed = w.armed /\ r.known = w.known
      /\ \A n \in Creature : InGame(r, n) <=> InGame(w, n)
      /\ e = NULL \/ m \notin w.cr[e].summons => r = w
      /\ e \in Creature /\ m \in w.cr[e].summons => Dismissed(w, r, e, m)
  BY <1>0, RemoveSummonSound
<1> HIDE DEF r
<1>2. Stays(w, r) /\ r.cr[m].master = NULL
  <2>1. CASE e = NULL
    <3>1. r = w
      BY <1>1, <2>1
    <3> QED BY <2>1, <3>1 DEF Stays, e
  <2>2. CASE e # NULL
    <3>1. e \in Creature /\ m \in w.cr[e].summons
      BY <1>0, <2>2 DEF Linked, e
    <3>2. Dismissed(w, r, e, m)
      BY <1>1, <3>1
    <3>3. w.cr[m] \in Objects /\ w.cr[e] \in Objects
      BY <1>0, <3>1, ObjectsOf
    <3>4. r.cr[m].master = NULL /\ r.cr[m].place = w.cr[m].place
      BY <3>2, <3>3 DEF Dismissed, Objects
    <3>5. r.cr[e].place = w.cr[e].place
      BY <3>2, <3>3 DEF Dismissed, Objects
    <3>6. \A n \in Creature : r.cr[n].place = w.cr[n].place
      BY <3>2, <3>4, <3>5 DEF Dismissed
    <3> QED BY <1>1, <3>4, <3>6 DEF Stays
  <2> QED BY <2>1, <2>2
<1>3. Sound(d, {}, {}) /\ Stays(r, d) /\ d.cr[m].master = NULL /\ d.cr[m].summons = {}
  <2>1. InGame(r, m)
    BY <1>0, <1>1
  <2>2. /\ Sound(d, {}, {})
        /\ d.spawned = r.spawned /\ d.armed = r.armed /\ d.known = r.known
        /\ \A n \in Creature : InGame(d, n) <=> InGame(r, n)
        /\ \A n \in Creature : d.cr[n].place = r.cr[n].place
        /\ d.cr[m].master = r.cr[m].master /\ d.cr[m].summons = {}
    BY <1>0, <1>1, <2>1, DestroySummonsSound
  <2> HIDE DEF d
  <2> QED BY <1>2, <2>2 DEF Stays
<1> HIDE DEF d
<1>4. Stays(w, d)
  BY <1>2, <1>3, StaysOn
<1>5. Sound(j, {}, {}) /\ Stays(d, j)
  <2>1. InGame(d, c) /\ InGame(d, m)
    BY <1>0, <1>4 DEF Stays
  <2>2. d.cr[c].master = NULL
    BY <1>3, PlayersAreFree
  <2> QED BY <1>0, <1>3, <2>1, <2>2, AddSummonSound
<1> HIDE DEF j
<1>6. Stays(w, j)
  BY <1>4, <1>5, StaysOn
<1> QED BY <1>5, <1>6 DEF Persuaded, j, d, r, e

\* removeMonster: the monster does not know its spawn any more, nor the spawn it.
Freed(w, m, p) == [w EXCEPT !.spawned[p] = @ \ {m}, !.cr[m].place = NULL]

Moved(w, x, m, p) ==
  /\ x.toAdd = w.toAdd /\ x.armed = w.armed /\ x.known = w.known
  /\ x.spawned = [w.spawned EXCEPT ![p] = w.spawned[p] \ {m}]
  /\ \A d \in Creature : InGame(x, d) <=> InGame(w, d)

LEMMA FreedSound ==
  ASSUME NEW w, Sound(w, {}, {}), NEW m \in Monsters, InGame(w, m), NEW p \in Places, w.cr[m].place = p
  PROVE  Sound(Freed(w, m, p), {m}, {}) /\ Moved(w, Freed(w, m, p), m, p)
<1> DEFINE o == [w.cr[m] EXCEPT !.place = NULL]
           x == Freed(w, m, p)
<1>0. /\ w \in Worlds /\ Exact(w, {}) /\ Alert(w) /\ Linked(w)
      /\ Together(w, {}) /\ AtHome(w) /\ Listed(w) /\ Noting(w) /\ m \in Creature
  BY DEF Sound, Creature
<1>1. w.cr[m] \in Objects
  BY <1>0, ObjectsOf
<1>2. /\ o \in Objects
      /\ o.life = w.cr[m].life /\ o.alive = w.cr[m].alive
      /\ o.checked = w.cr[m].checked /\ o.vec = w.cr[m].vec
      /\ o.refs = w.cr[m].refs /\ o.freed = w.cr[m].freed
      /\ o.client = w.cr[m].client /\ o.master = w.cr[m].master
      /\ o.summons = w.cr[m].summons /\ o.place = NULL
  BY <1>1 DEF Objects
<1>3. /\ x.toAdd = w.toAdd /\ x.armed = w.armed /\ x.known = w.known
      /\ x.spawned = [w.spawned EXCEPT ![p] = w.spawned[p] \ {m}]
      /\ x.cr = [w.cr EXCEPT ![m] = o]
      /\ x \in [cr : {x.cr}, toAdd : {x.toAdd}, known : {x.known}, spawned : {x.spawned},
               armed : {x.armed}]
  BY <1>0 DEF Freed, Worlds
<1> HIDE DEF o, x
<1>4. x.cr[m] = o /\ \A d \in Creature : d # m => x.cr[d] = w.cr[d]
  BY <1>0, <1>3 DEF Worlds
<1>5. x \in Worlds
  <2>1. x.cr \in [Creature -> Objects]
    BY <1>0, <1>2, <1>3 DEF Worlds
  <2>2. x.spawned \in [Places -> SUBSET Monsters]
    BY <1>0, <1>3 DEF Worlds
  <2>3. /\ x.toAdd \in Seq(Creature) /\ x.armed \in BOOLEAN
        /\ x.known \in SUBSET (Monsters \X Lists \X Creature)
    BY <1>0, <1>3 DEF Worlds
  <2> QED BY <1>3, <2>1, <2>2, <2>3 DEF Worlds
<1>6. /\ \A q \in Places : q # p => x.spawned[q] = w.spawned[q]
      /\ x.spawned[p] = w.spawned[p] \ {m}
  BY <1>0, <1>3 DEF Worlds
<1>7. \A q \in Places : m \in w.spawned[q] <=> q = p
  BY <1>0 DEF AtHome
<1>8. \A d \in Creature :
        /\ x.cr[d].life = w.cr[d].life /\ x.cr[d].alive = w.cr[d].alive
        /\ x.cr[d].checked = w.cr[d].checked /\ x.cr[d].vec = w.cr[d].vec
        /\ x.cr[d].refs = w.cr[d].refs /\ x.cr[d].freed = w.cr[d].freed
        /\ x.cr[d].client = w.cr[d].client /\ x.cr[d].master = w.cr[d].master
        /\ x.cr[d].summons = w.cr[d].summons
        /\ d # m => x.cr[d].place = w.cr[d].place /\ Housed(x, d) = Housed(w, d)
  BY <1>2, <1>4, <1>6 DEF Housed
<1>9. \A d \in Creature : InGame(x, d) = InGame(w, d)
  BY <1>8 DEF InGame
<1>18. \A d \in Creature : Noted(x.known, d) = Noted(w.known, d) /\ Noted(w.known, d) \in Nat
  BY <1>0, <1>3, NotedType
<1>19. Noting(x)
  BY <1>0, <1>3, <1>8, SameNotes
<1>10. Exact(x, {m})
  <2> SUFFICES ASSUME NEW d \in Creature
               PROVE  /\ x.cr[d].freed >= 0
                      /\ x.cr[d].refs = Held(x, d) + Count(d \in {m})
                      /\ x.cr[d].life = "none" => x.cr[d] = Nothing
                      /\ x.cr[d].life # "none" => x.cr[d].refs > 0
    BY DEF Exact
  <2>1. /\ w.cr[d].refs = Held(w, d) + Count(d \in {}) /\ w.cr[d].freed >= 0
        /\ w.cr[d].life = "none" => w.cr[d] = Nothing
        /\ w.cr[d].life # "none" => w.cr[d].refs > 0
    BY <1>0 DEF Exact
  <2>2. x.cr[d].life = "none" => x.cr[d] = Nothing
    BY <1>4, <1>8, <2>1 DEF InGame
  <2>3. \A B : Count(B) \in Int
    BY DEF Count
  <2>4. w.cr[d].freed \in Int
    BY <1>0, FieldsOf
  <2>5. CASE d = m
    <3>1. Housed(w, m) /\ ~Housed(x, m)
      BY <1>6, <1>7 DEF Housed
    <3>2. Count(Housed(w, d)) = 1 /\ Count(Housed(x, d)) = 0 /\ Count(d \in {m}) = 1 /\ Count(d \in {}) = 0
      BY <2>5, <3>1 DEF Count
    <3>3. Held(w, d) = Held(x, d) + 1 /\ Held(x, d) \in Int
      <4>1. InGame(x, d) = InGame(w, d)
        BY <1>9
      <4> QED BY <1>8, <1>18, <2>3, <2>4, <3>2, <4>1 DEF Held
    <3>4. w.cr[d].refs = Held(x, d) + 1
      BY <2>1, <3>2, <3>3
    <3> QED BY <1>8, <2>1, <2>2, <3>2, <3>4
  <2>6. CASE d # m
    <3>1. Held(x, d) = Held(w, d)
      <4>1. InGame(x, d) = InGame(w, d)
        BY <1>9
      <4> QED BY <1>8, <1>18, <2>6, <4>1 DEF Held
    <3>2. Count(d \in {m}) = Count(d \in {})
      BY <2>6 DEF Count
    <3> QED BY <1>8, <2>1, <2>2, <3>1, <3>2
  <2> QED BY <2>5, <2>6
<1>11. Alert(x)
  BY <1>0, <1>8, <1>9 DEF Alert
<1>12. Linked(x)
  BY <1>0, <1>8 DEF Linked
<1>13. Together(x, {})
  <2>1. \A n \in Creature : w.cr[n].master \in Creature \cup {NULL}
    BY <1>0, FieldsOf
  <2> QED BY <1>0, <1>8, <1>9, <2>1 DEF Together
<1>14. AtHome(x)
  <2> SUFFICES ASSUME NEW n \in Creature, NEW s \in Places, NEW q \in Places
               PROVE  /\ n \in x.spawned[s] /\ n \in x.spawned[q] => s = q
                      /\ InGame(x, n) => (x.cr[n].place = s <=> n \in x.spawned[s])
    BY DEF AtHome
  <2>1. /\ n \in w.spawned[s] /\ n \in w.spawned[q] => s = q
        /\ InGame(w, n) => (w.cr[n].place = s <=> n \in w.spawned[s])
    BY <1>0 DEF AtHome
  <2>2. x.spawned[s] \subseteq w.spawned[s] /\ x.spawned[q] \subseteq w.spawned[q]
    BY <1>6
  <2>3. CASE n = m
    <3>1. x.cr[n].place # s /\ n \notin x.spawned[s]
      BY <1>2, <1>4, <1>6, <1>7, <2>3, NullIsNobody
    <3> QED BY <3>1
  <2>4. CASE n # m
    <3>1. n \in x.spawned[s] <=> n \in w.spawned[s]
      BY <1>6, <2>4
    <3> QED BY <1>8, <1>9, <2>1, <2>2, <2>4, <3>1
  <2> QED BY <2>3, <2>4
<1>15. Listed(x)
  <2>1. \A d \in Creature : x.cr[d].vec = w.cr[d].vec
    BY <1>8
  <2> QED BY <1>0, <1>3, <2>1, SameVectors
<1>16. Sound(x, {m}, {})
  BY <1>5, <1>10, <1>11, <1>12, <1>13, <1>14, <1>15, <1>19 DEF Sound
<1>17. Moved(w, x, m, p)
  BY <1>3, <1>9 DEF Moved
<1> QED BY <1>16, <1>17 DEF x

\* spawnMonster: the spawn knows its monster, and has a reference to it.
Homed(w, m, p) == [w EXCEPT !.cr[m].place = p, !.cr[m].refs = @ + 1, !.spawned[p] = @ \cup {m}]

LEMMA HomedSound ==
  ASSUME NEW w, Sound(w, {}, {}), NEW m \in Monsters, NEW p \in Places,
         w.cr[m].life # "none", ~Housed(w, m)
  PROVE  LET x == Homed(w, m, p)
         IN  /\ Sound(x, {}, {})
             /\ x.armed = w.armed /\ x.known = w.known /\ x.spawned = [w.spawned EXCEPT ![p] = w.spawned[p] \cup {m}]
             /\ \A d \in Creature : InGame(x, d) <=> InGame(w, d)
<1> DEFINE o == [w.cr[m] EXCEPT !.place = p, !.refs = w.cr[m].refs + 1]
           x == Homed(w, m, p)
<1>0. /\ w \in Worlds /\ Exact(w, {}) /\ Alert(w) /\ Linked(w)
      /\ Together(w, {}) /\ AtHome(w) /\ Listed(w) /\ Noting(w) /\ m \in Creature
  BY DEF Sound, Creature
<1>1. w.cr[m] \in Objects
  BY <1>0, ObjectsOf
<1>2. /\ o \in Objects
      /\ o.life = w.cr[m].life /\ o.alive = w.cr[m].alive
      /\ o.checked = w.cr[m].checked /\ o.vec = w.cr[m].vec
      /\ o.refs = w.cr[m].refs + 1 /\ o.freed = w.cr[m].freed
      /\ o.client = w.cr[m].client /\ o.master = w.cr[m].master
      /\ o.summons = w.cr[m].summons /\ o.place = p
  <2> DEFINE a == [w.cr[m] EXCEPT !.place = p]
  <2>1. a \in Objects /\ w.cr[m].refs + 1 \in Int
    BY <1>1 DEF Objects
  <2>2. [a EXCEPT !.refs = w.cr[m].refs + 1] \in Objects
    <3> HIDE DEF a
    <3> QED BY <2>1 DEF Objects
  <2>3. o \in Objects
    BY <2>2
  <2> QED BY <1>1, <2>3 DEF Objects
<1>3. /\ x.toAdd = w.toAdd /\ x.armed = w.armed /\ x.known = w.known
      /\ x.spawned = [w.spawned EXCEPT ![p] = w.spawned[p] \cup {m}]
      /\ x.cr = [w.cr EXCEPT ![m] = o]
      /\ x \in [cr : {x.cr}, toAdd : {x.toAdd}, known : {x.known}, spawned : {x.spawned},
               armed : {x.armed}]
  BY <1>0, <1>1 DEF Homed, Worlds, Objects
<1> HIDE DEF o, x
<1>4. x.cr[m] = o /\ \A d \in Creature : d # m => x.cr[d] = w.cr[d]
  BY <1>0, <1>3 DEF Worlds
<1>5. x \in Worlds
  <2>1. x.cr \in [Creature -> Objects]
    BY <1>0, <1>2, <1>3 DEF Worlds
  <2>2. x.spawned \in [Places -> SUBSET Monsters]
    BY <1>0, <1>3 DEF Worlds
  <2>3. /\ x.toAdd \in Seq(Creature) /\ x.armed \in BOOLEAN
        /\ x.known \in SUBSET (Monsters \X Lists \X Creature)
    BY <1>0, <1>3 DEF Worlds
  <2> QED BY <1>3, <2>1, <2>2, <2>3 DEF Worlds
<1>6. /\ \A q \in Places : q # p => x.spawned[q] = w.spawned[q]
      /\ x.spawned[p] = w.spawned[p] \cup {m}
  BY <1>0, <1>3 DEF Worlds
<1>7. \A q \in Places : m \in x.spawned[q] <=> q = p
  BY <1>6 DEF Housed
<1>8. \A d \in Creature :
        /\ x.cr[d].life = w.cr[d].life /\ x.cr[d].alive = w.cr[d].alive
        /\ x.cr[d].checked = w.cr[d].checked /\ x.cr[d].vec = w.cr[d].vec
        /\ x.cr[d].freed = w.cr[d].freed
        /\ x.cr[d].client = w.cr[d].client /\ x.cr[d].master = w.cr[d].master
        /\ x.cr[d].summons = w.cr[d].summons
        /\ d # m => x.cr[d] = w.cr[d] /\ Housed(x, d) = Housed(w, d)
  BY <1>2, <1>4, <1>6 DEF Housed
<1>9. \A d \in Creature : InGame(x, d) = InGame(w, d)
  BY <1>8 DEF InGame
<1>18. \A d \in Creature : Noted(x.known, d) = Noted(w.known, d) /\ Noted(w.known, d) \in Nat
  BY <1>0, <1>3, NotedType
<1>19. Noting(x)
  BY <1>0, <1>3, <1>8, SameNotes
<1>10. Exact(x, {})
  <2> SUFFICES ASSUME NEW d \in Creature
               PROVE  /\ x.cr[d].freed >= 0
                      /\ x.cr[d].refs = Held(x, d) + Count(d \in {})
                      /\ x.cr[d].life = "none" => x.cr[d] = Nothing
                      /\ x.cr[d].life # "none" => x.cr[d].refs > 0
    BY DEF Exact
  <2>1. /\ w.cr[d].refs = Held(w, d) + Count(d \in {}) /\ w.cr[d].freed >= 0
        /\ w.cr[d].life = "none" => w.cr[d] = Nothing
        /\ w.cr[d].life # "none" => w.cr[d].refs > 0
    BY <1>0 DEF Exact
  <2>2. x.cr[d].life = "none" => x.cr[d] = Nothing
    BY <1>4, <1>8, <2>1
  <2>3. \A B : Count(B) \in Int
    BY DEF Count
  <2>4. w.cr[d].freed \in Int /\ w.cr[d].refs \in Int
    BY <1>0, FieldsOf
  <2>5. CASE d = m
    <3>1. Housed(x, m)
      BY <1>7 DEF Housed
    <3>2. Count(Housed(w, d)) = 0 /\ Count(Housed(x, d)) = 1 /\ Count(d \in {}) = 0
      BY <2>5, <3>1 DEF Count
    <3>3. Held(x, d) = Held(w, d) + 1 /\ Held(w, d) \in Int
      <4>1. InGame(x, d) = InGame(w, d)
        BY <1>9
      <4> QED BY <1>8, <1>18, <2>3, <2>4, <3>2, <4>1 DEF Held
    <3>4. x.cr[d].refs = w.cr[d].refs + 1
      BY <1>2, <1>4, <2>5
    <3>5. x.cr[d].refs = Held(x, d) + Count(d \in {})
      BY <2>1, <3>2, <3>3, <3>4
    <3> QED BY <1>8, <2>1, <2>2, <2>4, <2>5, <3>4, <3>5
  <2>6. CASE d # m
    <3>1. Held(x, d) = Held(w, d)
      <4>1. InGame(x, d) = InGame(w, d)
        BY <1>9
      <4> QED BY <1>8, <1>18, <2>6, <4>1 DEF Held
    <3> QED BY <1>8, <2>1, <2>6, <3>1
  <2> QED BY <2>5, <2>6
<1>11. Alert(x)
  BY <1>0, <1>8, <1>9 DEF Alert
<1>12. Linked(x)
  BY <1>0, <1>8 DEF Linked
<1>13. Together(x, {})
  <2>1. \A n \in Creature : w.cr[n].master \in Creature \cup {NULL}
    BY <1>0, FieldsOf
  <2> QED BY <1>0, <1>8, <1>9, <2>1 DEF Together
<1>14. AtHome(x)
  <2> SUFFICES ASSUME NEW n \in Creature, NEW s \in Places, NEW q \in Places
               PROVE  /\ n \in x.spawned[s] /\ n \in x.spawned[q] => s = q
                      /\ InGame(x, n) => (x.cr[n].place = s <=> n \in x.spawned[s])
    BY DEF AtHome
  <2>1. /\ n \in w.spawned[s] /\ n \in w.spawned[q] => s = q
        /\ InGame(w, n) => (w.cr[n].place = s <=> n \in w.spawned[s])
    BY <1>0 DEF AtHome
  <2>2. CASE n = m
    <3>1. x.cr[n].place = p
      BY <1>2, <1>4, <2>2
    <3> QED BY <1>7, <2>2, <3>1
  <2>3. CASE n # m
    <3>1. \A t \in Places : n \in x.spawned[t] <=> n \in w.spawned[t]
      BY <1>6, <2>3
    <3> QED BY <1>8, <1>9, <2>1, <2>3, <3>1
  <2> QED BY <2>2, <2>3
<1>15. Listed(x)
  <2>1. \A d \in Creature : x.cr[d].vec = w.cr[d].vec
    BY <1>8
  <2> QED BY <1>0, <1>3, <2>1, SameVectors
<1>16. Sound(x, {}, {})
  BY <1>5, <1>10, <1>11, <1>12, <1>13, <1>14, <1>15, <1>19 DEF Sound
<1> QED BY <1>3, <1>9, <1>16 DEF x

-----------------------------------------------------------------------------
(* checkSpawn                                                                *)

Gone(w) == {m \in Monsters : w.cr[m].life = "removed" /\ \E p \in Places : m \in w.spawned[p]}

\* The monsters that are gone are taken from their places; the references of the
\* spawn are given back next.
Vacated(w) == [w EXCEPT !.spawned = [p \in Places |-> w.spawned[p] \ Gone(w)]]

LEMMA VacatedSound ==
  ASSUME NEW w, Sound(w, {}, {})
  PROVE  LET x == Vacated(w)
         IN  /\ Sound(x, Gone(w), {})
             /\ x.cr = w.cr /\ x.armed = w.armed /\ x.known = w.known
             /\ x.spawned = [p \in Places |-> w.spawned[p] \ Gone(w)]
<1> DEFINE x == Vacated(w)
           S == Gone(w)
<1>0. /\ w \in Worlds /\ Exact(w, {}) /\ Alert(w) /\ Linked(w)
      /\ Together(w, {}) /\ AtHome(w) /\ Listed(w) /\ Noting(w)
  BY DEF Sound
<1>1. /\ x.cr = w.cr /\ x.toAdd = w.toAdd /\ x.armed = w.armed /\ x.known = w.known
      /\ x.spawned = [p \in Places |-> w.spawned[p] \ S]
      /\ x \in Worlds
  <2> HIDE DEF S
  <2>1. [p \in Places |-> w.spawned[p] \ S] \in [Places -> SUBSET Monsters]
    BY <1>0 DEF Worlds
  <2> QED BY <1>0, <2>1 DEF Worlds, Vacated, S
<1> HIDE DEF x
<1>2. \A m \in Creature : m \in S <=> w.cr[m].life = "removed" /\ Housed(w, m)
  <2>1. \A m \in Creature : Housed(w, m) => m \in Monsters
    BY <1>0 DEF Housed, Worlds
  <2> QED BY <2>1 DEF Gone, Housed, Creature
<1> HIDE DEF S
<1>3. \A m \in Creature, p \in Places : m \in x.spawned[p] <=> m \in w.spawned[p] /\ m \notin S
  BY <1>1
<1>4. \A m \in Creature : Housed(x, m) <=> Housed(w, m) /\ m \notin S
  BY <1>3 DEF Housed
<1>5. \A d \in Creature : InGame(x, d) = InGame(w, d)
  BY <1>1 DEF InGame
<1>6. Exact(x, S)
  <2> SUFFICES ASSUME NEW d \in Creature
               PROVE  /\ x.cr[d].freed >= 0
                      /\ x.cr[d].refs = Held(x, d) + Count(d \in S)
                      /\ x.cr[d].life = "none" => x.cr[d] = Nothing
                      /\ x.cr[d].life # "none" => x.cr[d].refs > 0
    BY DEF Exact
  <2>1. /\ w.cr[d].refs = Held(w, d) + Count(d \in {}) /\ w.cr[d].freed >= 0
        /\ w.cr[d].life = "none" => w.cr[d] = Nothing
        /\ w.cr[d].life # "none" => w.cr[d].refs > 0
    BY <1>0 DEF Exact
  <2>2. \A B : Count(B) \in Int
    BY DEF Count
  <2>3. w.cr[d].freed \in Int
    BY <1>0, FieldsOf
  <2>4. Count(Housed(w, d)) = Count(Housed(x, d)) + Count(d \in S) /\ Count(d \in {}) = 0
    BY <1>2, <1>4 DEF Count
  <2>5. Count(InGame(x, d)) = Count(InGame(w, d))
    BY <1>5
  <2>6. Held(w, d) + 0 = Held(x, d) + Count(d \in S)
    <3>1. x.cr[d] = w.cr[d]
      BY <1>1
    <3>2. Noted(x.known, d) = Noted(w.known, d) /\ Noted(w.known, d) \in Nat
      BY <1>0, <1>1, NotedType
    <3> QED BY <2>2, <2>3, <2>4, <2>5, <3>1, <3>2 DEF Held
  <2> QED BY <1>1, <2>1, <2>4, <2>6
<1>7. Alert(x)
  BY <1>0, <1>1, <1>5 DEF Alert
<1>8. Linked(x)
  BY <1>0, <1>1 DEF Linked
<1>9. Together(x, {})
  <2>1. \A n \in Creature : w.cr[n].master \in Creature \cup {NULL}
    BY <1>0, FieldsOf
  <2> QED BY <1>0, <1>1, <1>5, <2>1 DEF Together
<1>10. AtHome(x)
  <2>1. \A m \in Creature : InGame(w, m) => m \notin S
    BY <1>2 DEF InGame
  <2> QED BY <1>0, <1>1, <1>3, <1>5, <2>1 DEF AtHome
<1>11. Listed(x)
  BY <1>0, <1>1, SameVectors
<1>13. Noting(x)
  BY <1>0, <1>1, SameNotes
<1>12. Sound(x, S, {})
  BY <1>1, <1>6, <1>7, <1>8, <1>9, <1>10, <1>11, <1>13 DEF Sound
<1> QED BY <1>1, <1>12 DEF x, S

\* What checkSpawn does to the places and to who is in the game.
Swept(w, x) ==
  /\ x.armed = w.armed
  /\ x.spawned = [p \in Places |-> w.spawned[p] \ Gone(w)]
  /\ \A d \in Creature : InGame(x, d) <=> InGame(w, d)

LEMMA ErasedSound ==
  ASSUME NEW w, Sound(w, {}, {})
  PROVE  Sound(Erased(w), {}, {}) /\ Swept(w, Erased(w))
<1> DEFINE S == Gone(w)
           y == Vacated(w)
           Good(x, s) == /\ Sound(x, S \ s, {})
                         /\ x.spawned = y.spawned /\ x.armed = y.armed
                         /\ \A d \in Creature : InGame(x, d) <=> InGame(y, d)
<1>1. /\ Sound(y, S, {}) /\ y.cr = w.cr /\ y.armed = w.armed /\ y.known = w.known
      /\ y.spawned = [p \in Places |-> w.spawned[p] \ S]
  BY VacatedSound
<1>2. Erased(w) = FoldSet(LAMBDA m, x : UnRef(x, m), y, S)
  BY DEF Erased, Vacated, Gone
<1>3. S \in SUBSET Creature /\ IsFiniteSet(S)
  <2>1. S \in SUBSET Creature
    BY DEF Gone, Creature
  <2> HIDE DEF S
  <2> QED BY <2>1, CreatureFinite, FS_Subset
<1> HIDE DEF y, S
<1>4. PICK f : Erased(w) = f[S] /\ Erases(f, y, S)
  <2>1. y \in Worlds
    BY <1>1 DEF Sound
  <2> QED BY <1>2, <1>3, <2>1, EraseFold
<1>5. Good(y, {})
  <2>1. S \ {} = S
    OBVIOUS
  <2> QED BY <1>1, <2>1
<1>6. ASSUME NEW s \in SUBSET S, NEW m \in s, NEW x, Good(x, s \ {m})
      PROVE  Good(UnRef(x, m), s)
  <2>1. m \in Creature /\ m \in S \ (s \ {m}) /\ Sound(x, S \ (s \ {m}), {})
    BY <1>3, <1>6
  <2>2. Sound(UnRef(x, m), (S \ (s \ {m})) \ {m}, {}) /\ Paid(x, UnRef(x, m), m)
    <3> HIDE DEF Good
    <3> QED BY <2>1, PaidBack
  <2>3. (S \ (s \ {m})) \ {m} = S \ s
    OBVIOUS
  <2>4. Sound(UnRef(x, m), S \ s, {})
    BY <2>2, <2>3
  <2> QED BY <1>6, <2>2, <2>4 DEF Paid
<1> DEFINE T == {s \in SUBSET S : Good(f[s], s)}
<1>7. {} \in T
  BY <1>4, <1>5 DEF Erases
<1>8. ASSUME NEW s \in SUBSET S, s # {} PROVE \E m \in s : s \ {m} \in T => s \in T
  <2> HIDE DEF Good
  <2>1. PICK m \in s : f[s] = UnRef(f[s \ {m}], m)
    BY <1>4, <1>8 DEF Erases
  <2>2. SUFFICES ASSUME s \ {m} \in T PROVE s \in T
    OBVIOUS
  <2>3. Good(f[s \ {m}], s \ {m})
    BY <2>2
  <2>4. Good(f[s], s)
    BY <1>6, <2>1, <2>3
  <2> QED BY <2>4
<1>9. S \in T
  <2> HIDE DEF T, Good
  <2>1. SUBSET S \subseteq T
    BY <1>3, <1>7, <1>8, SubsetInduction
  <2> QED BY <2>1
<1>10. Good(f[S], S) /\ S \ S = {}
  BY <1>9
<1>11. Sound(f[S], {}, {})
  BY <1>10
<1>12. Swept(w, f[S])
  BY <1>1, <1>10 DEF Swept, InGame, S
<1> QED BY <1>4, <1>11, <1>12

\* A set of living monsters of the spawn is not larger than theirs.
LEMMA LivingAre ==
  ASSUME NEW w \in Worlds
  PROVE  /\ IsFiniteSet(Living(w)) /\ Cardinality(Living(w)) \in Nat
         /\ \A S \in SUBSET Living(w) :
              IsFiniteSet(S) /\ Cardinality(S) \in Nat /\ Cardinality(S) <= Cardinality(Living(w))
<1>1. IsFiniteSet(Monsters) /\ Living(w) \subseteq Monsters
  BY CreaturesAssumption DEF CreaturesAssumption, Living
<1>2. IsFiniteSet(Living(w))
  BY <1>1, FS_Subset
<1>3. \A S \in SUBSET Living(w) : IsFiniteSet(S) /\ Cardinality(S) <= Cardinality(Living(w))
  BY <1>2, FS_Subset
<1> QED BY <1>2, <1>3, FS_CardinalityType

\* The monsters of a place.
LEMMA PlaceFinite ==
  ASSUME NEW w \in Worlds, NEW p \in Places
  PROVE  /\ IsFiniteSet(w.spawned[p]) /\ Cardinality(w.spawned[p]) \in Nat
         /\ \A S \in SUBSET w.spawned[p] :
              Cardinality(S) \in Nat /\ Cardinality(S) <= Cardinality(w.spawned[p])
<1>1. IsFiniteSet(Monsters) /\ w.spawned[p] \subseteq Monsters
  BY CreaturesAssumption DEF CreaturesAssumption, Worlds
<1>2. IsFiniteSet(w.spawned[p])
  BY <1>1, FS_Subset
<1>3. \A S \in SUBSET w.spawned[p] : IsFiniteSet(S) /\ Cardinality(S) <= Cardinality(w.spawned[p])
  BY <1>2, FS_Subset
<1> QED BY <1>2, <1>3, FS_CardinalityType

LEMMA PlacesCount == IsFiniteSet(Places) /\ Cardinality(Places) \in Nat
BY CreaturesAssumption, FS_CardinalityType DEF CreaturesAssumption

-----------------------------------------------------------------------------
(* The steps                                                                 *)

LEMMA WorldIs ==
  /\ World.cr = creature /\ World.toAdd = toAdd /\ World.known = known
  /\ World.spawned = spawned /\ World.armed = armed
BY DEF World

\* The methods have made a sound world of the world.
Moves == \E x : Sound(x, {}, {}) /\ Guards(World, x) /\ Becomes(x)

Turns == \E x : Sound(x, {}, {}) /\ Becomes(x)

LEMMA BecomesWorld ==
  ASSUME NEW x \in Worlds, Becomes(x)
  PROVE  World' = x
BY DEF Worlds, Becomes, World

LEMMA TurnsSound ==
  ASSUME Turns, UNCHANGED checks
  PROVE  Sound(World, {}, {})'
<1>1. PICK x : Sound(x, {}, {}) /\ Becomes(x)
  BY DEF Turns
<1>2. /\ x \in Worlds /\ Exact(x, {}) /\ Alert(x) /\ Linked(x)
      /\ Together(x, {}) /\ AtHome(x) /\ Listed(x) /\ Noting(x)
  BY <1>1 DEF Sound
<1>3. World' = x
  BY <1>1, <1>2, BecomesWorld
<1>4. Listed(World)'
  <2> HIDE DEF World
  <2> QED BY <1>2, <1>3 DEF Listed
<1>5. (World \in Worlds)'
  BY <1>2, <1>3
<1>6. Exact(World, {})'
  BY <1>2, <1>3
<1>7. Alert(World)' /\ Linked(World)' /\ Together(World, {})' /\ AtHome(World)' /\ Noting(World)'
  BY <1>2, <1>3
<1> QED BY <1>4, <1>5, <1>6, <1>7 DEF Sound

\* Who leaves the spawn arms it.
LEMMA GuardsLiving ==
  ASSUME NEW w \in Worlds, NEW x \in Worlds, Guards(w, x), ~x.armed
  PROVE  ~w.armed /\ Living(w) \subseteq Living(x)
BY DEF Guards, Living, Housed, Creature

LEMMA GuardsGuarded ==
  ASSUME NEW x \in Worlds, World \in Worlds, Guards(World, x), Guarded(World), Loop, World' = x,
         UNCHANGED <<blinking, convinced, doubled>>
  PROVE  Guarded(World)'
<1> DEFINE w == World
<1>1. w \in Worlds /\ Guards(w, x) /\ Guarded(w)
  OBVIOUS
<1> HIDE DEF w
<1>2. ~x.armed => Cardinality(Living(x)) + convinced >= Cardinality(Places)
  <2> SUFFICES ASSUME ~x.armed
               PROVE  Cardinality(Living(x)) + convinced >= Cardinality(Places)
    OBVIOUS
  <2>1. ~w.armed /\ Living(w) \subseteq Living(x)
    BY <1>1, GuardsLiving
  <2>2. Cardinality(Living(w)) + convinced >= Cardinality(Places)
    BY <1>1, <2>1 DEF Guarded
  <2>3. /\ Cardinality(Living(w)) \in Nat /\ Cardinality(Living(x)) \in Nat
        /\ Cardinality(Living(w)) <= Cardinality(Living(x))
    BY <1>1, <2>1, LivingAre
  <2> QED BY <2>2, <2>3, PlacesCount DEF Loop
<1>3. \A p \in Places \ doubled : Cardinality(x.spawned[p]) + blinking[p] <= 1
  BY <1>1 DEF Guarded, Guards
<1> QED BY <1>2, <1>3 DEF Guarded

LEMMA MovesGuarded ==
  ASSUME World \in Worlds, Moves, Guarded(World), Loop, UNCHANGED <<blinking, convinced, doubled>>
  PROVE  Guarded(World)'
<1>1. PICK x : x \in Worlds /\ Guards(World, x) /\ Becomes(x)
  BY DEF Moves, Sound
<1>2. World' = x
  BY <1>1, BecomesWorld
<1> QED BY <1>1, <1>2, GuardsGuarded

\* The creature that is checked.
LEMMA CurrentIs ==
  ASSUME Sound(World, {}, {}), Loop, Checking
  PROVE  /\ Current \in Creature /\ World.cr[Current].vec = last
         /\ creature[Current].checked => InGame(World, Current)
<1>1. Listed(World) /\ Alert(World) /\ last \in Vectors /\ at \in DOMAIN checks[last]
  BY DEF Sound, Loop, Checking
<1>2. Current \in Creature /\ World.cr[Current].vec = last
  BY <1>1 DEF Listed, Current
<1> QED BY <1>1, <1>2, WorldIs DEF Alert

LEMMA CheckDeathMoves ==
  ASSUME Sound(World, {}, {}), Loop, CheckDeath
  PROVE  Moves
<1>1. Current \in Creature /\ InGame(World, Current)
  BY CurrentIs DEF CheckDeath
<1>2. PICK v \in Vectors, told \in Told : Becomes(Dies(World, Current, v, told))
  BY DEF CheckDeath
<1>3. Sound(Dies(World, Current, v, told), {}, {}) /\ Guards(World, Dies(World, Current, v, told))
  BY <1>1, DiesSound
<1> QED BY <1>2, <1>3 DEF Moves

\* A monster changes its lists, and updates its idle status.
LEMMA IdleMoves ==
  ASSUME NEW w, Sound(w, {}, {}), Guards(World, w), NEW m \in Monsters, UpdatesIdle(w, m)
  PROVE  Moves
<1>1. PICK idle \in BOOLEAN, v \in Vectors : Becomes(SetIdle(w, m, idle, v))
  BY DEF UpdatesIdle
<1> DEFINE x == SetIdle(w, m, idle, v)
<1>2. Sound(x, {}, {}) /\ Remains(w, x)
  BY SetIdleSound
<1> HIDE DEF x
<1>3. Guards(World, x)
  BY <1>2, RemainsGuards, GuardsOnce
<1> QED BY <1>1, <1>2, <1>3 DEF Moves, x

LEMMA GuardsItself ==
  ASSUME NEW w
  PROVE  Guards(w, w)
BY DEF Guards

LEMMA RemovalMoves ==
  ASSUME Sound(World, {}, {}), NEW c \in Creature, InGame(World, c), NEW told,
         Becomes(RemoveCreature(World, c, told))
  PROVE  Moves
<1>1. Sound(RemoveCreature(World, c, told), {}, {}) /\ Guards(World, RemoveCreature(World, c, told))
  BY RemoveCreatureSound
<1> QED BY <1>1 DEF Moves

LEMMA CheckThinkMoves ==
  ASSUME Sound(World, {}, {}), Loop, CheckThink
  PROVE  Moves
<1>1. Current \in Creature /\ InGame(World, Current)
  BY CurrentIs DEF CheckThink
<1>2. CASE Becomes(World)
  BY <1>2 DEF Moves, Guards
<1>3. CASE Current \in Monsters /\ \E told \in Told : Becomes(RemoveCreature(World, Current, told))
  BY <1>1, <1>3, RemovalMoves
<1>4. CASE Current \in Monsters /\ UpdatesIdle(World, Current)
  BY <1>4, GuardsItself, IdleMoves
<1> QED BY <1>2, <1>3, <1>4 DEF CheckThink

LEMMA CleanupMoves ==
  ASSUME Sound(World, {}, {}), Becomes(CleanedUp(World))
  PROVE  Moves
BY CleanedUpSound DEF Moves

LEMMA KillMoves ==
  ASSUME Sound(World, {}, {}), NEW c \in Creature, Kill(c)
  PROVE  Moves
<1>1. InGame(World, c)
  BY DEF Kill
<1>2. CASE c \in Monsters
  <2>1. PICK v \in Vectors : Becomes(Killed(World, c, v))
    BY <1>2 DEF Kill
  <2>2. Sound(Killed(World, c, v), {}, {}) /\ Keeps(World, Killed(World, c, v))
    BY <1>1, <1>2, KilledSound
  <2> QED BY <2>1, <2>2, KeepsGuards DEF Moves
<1>3. CASE c \notin Monsters
  <2> DEFINE x == [World EXCEPT !.cr[c].alive = FALSE]
  <2>1. Becomes(x)
    BY <1>3 DEF Kill
  <2>2. World.cr[c].checked
    BY <1>1, <1>3 DEF Sound, Alert, Creature
  <2>3. Sound(x, {}, {}) /\ Keeps(World, x)
    <3>1. FALSE \in BOOLEAN /\ (FALSE \/ World.cr[c].checked)
      BY <2>2
    <3> QED BY <1>1, <3>1, HealthSound
  <2> HIDE DEF x
  <2> QED BY <2>1, <2>3, KeepsGuards DEF Moves
<1> QED BY <1>2, <1>3

LEMMA HealMoves ==
  ASSUME Sound(World, {}, {}), NEW c \in Creature, Heal(c)
  PROVE  Moves
<1> DEFINE x == [World EXCEPT !.cr[c].alive = TRUE]
<1>1. InGame(World, c) /\ Becomes(x)
  BY DEF Heal
<1>2. Sound(x, {}, {}) /\ Keeps(World, x)
  <2>1. TRUE \in BOOLEAN /\ (TRUE \/ World.cr[c].checked)
    OBVIOUS
  <2> QED BY <1>1, <2>1, HealthSound
<1> HIDE DEF x
<1> QED BY <1>1, <1>2, KeepsGuards DEF Moves

\* onCreatureFound: a new entry has a reference of its own.
Noticed(w, n) == [w EXCEPT !.known = @ \cup {n}, !.cr[n[3]].refs = @ + 1]

LEMMA NoticedSound ==
  ASSUME NEW w, Sound(w, {}, {}), NEW n \in (Monsters \X Lists \X Creature) \ w.known,
         w.cr[n[1]].life # "none", w.cr[n[3]].life # "none"
  PROVE  LET x == Noticed(w, n) IN Sound(x, {}, {}) /\ Guards(w, x)
<1> DEFINE c == n[3]
           o == [w.cr[c] EXCEPT !.refs = w.cr[c].refs + 1]
           x == Noticed(w, n)
<1>0. /\ w \in Worlds /\ Exact(w, {}) /\ Alert(w) /\ Linked(w)
      /\ Together(w, {}) /\ AtHome(w) /\ Listed(w) /\ Noting(w)
      /\ c \in Creature /\ n[1] \in Creature
  BY DEF Sound, Creature
<1>1. w.cr[c] \in Objects
  BY <1>0, ObjectsOf
<1>2. o \in Objects /\ o.refs = w.cr[c].refs + 1 /\ Alike(o, w.cr[c]) /\ o.freed = w.cr[c].freed
      /\ o.client = w.cr[c].client
  BY <1>1 DEF Objects, Alike
<1>3. /\ x.toAdd = w.toAdd /\ x.armed = w.armed /\ x.spawned = w.spawned
      /\ x.known = w.known \cup {n}
      /\ x.cr = [w.cr EXCEPT ![c] = o]
      /\ x \in [cr : {x.cr}, toAdd : {x.toAdd}, known : {x.known}, spawned : {x.spawned},
               armed : {x.armed}]
  BY <1>0, <1>1 DEF Noticed, Worlds, Objects
<1> HIDE DEF o, x, c
<1>4. x.cr[c] = o /\ \A d \in Creature : d # c => x.cr[d] = w.cr[d]
  BY <1>0, <1>3 DEF Worlds
<1>5. x \in Worlds
  <2>1. x.cr \in [Creature -> Objects]
    BY <1>0, <1>2, <1>3 DEF Worlds
  <2>2. x.known \in SUBSET (Monsters \X Lists \X Creature)
    BY <1>0, <1>3 DEF Worlds
  <2> QED BY <1>0, <1>3, <2>1, <2>2 DEF Worlds
<1>6. \A d \in Creature : Alike(x.cr[d], w.cr[d])
  BY <1>2, <1>4 DEF Alike
<1>7. /\ \A d \in Creature : Noted(w.known, d) \in Nat
      /\ \A d \in Creature : Noted(x.known, d) = Noted(w.known, d) + Count(d = c)
  <2>1. x.known \ {n} = w.known /\ n \in x.known
    BY <1>3
  <2> QED BY <1>0, <1>5, <2>1, NotedType, NotedWithout DEF c
<1>8. Exact(x, {})
  <2> SUFFICES ASSUME NEW d \in Creature
               PROVE  /\ x.cr[d].freed >= 0
                      /\ x.cr[d].refs = Held(x, d) + Count(d \in {})
                      /\ x.cr[d].life = "none" => x.cr[d] = Nothing
                      /\ x.cr[d].life # "none" => x.cr[d].refs > 0
    BY DEF Exact
  <2>1. /\ w.cr[d].refs = Held(w, d) + Count(d \in {}) /\ w.cr[d].freed >= 0
        /\ w.cr[d].life = "none" => w.cr[d] = Nothing
        /\ w.cr[d].life # "none" => w.cr[d].refs > 0
    BY <1>0 DEF Exact
  <2>2. /\ x.cr[d].life = w.cr[d].life /\ x.cr[d].vec = w.cr[d].vec
        /\ x.cr[d].master = w.cr[d].master
        /\ x.cr[d].freed = w.cr[d].freed /\ x.cr[d].client = w.cr[d].client
        /\ x.cr[d].refs = w.cr[d].refs + Count(d = c)
    <3>1. w.cr[d].refs \in Int
      BY <1>0, FieldsOf
    <3> QED BY <1>2, <1>4, <3>1 DEF Alike, Count
  <2>3. InGame(x, d) = InGame(w, d) /\ Housed(x, d) = Housed(w, d)
    BY <1>3, <2>2 DEF InGame, Housed
  <2>4. \A B : Count(B) \in Nat
    BY DEF Count
  <2>5. w.cr[d].freed \in Int /\ w.cr[d].refs \in Int
    BY <1>0, FieldsOf
  <2>6. Held(x, d) = Held(w, d) + Count(d = c) /\ Held(w, d) \in Int
    BY <1>7, <2>2, <2>3, <2>4, <2>5 DEF Held
  <2>7. x.cr[d].refs = Held(x, d) + Count(d \in {})
    BY <2>1, <2>2, <2>4, <2>5, <2>6
  <2>8. x.cr[d].life = "none" => x.cr[d] = Nothing
    BY <1>4, <2>1, <2>2 DEF c
  <2> QED BY <2>1, <2>2, <2>4, <2>5, <2>7, <2>8
<1>9. /\ Alert(x) /\ Linked(x) /\ Together(x, {}) /\ AtHome(x) /\ Listed(x)
  <2> DEFINE k == [w EXCEPT !.cr[c] = o]
  <2>1. /\ k \in Worlds /\ k.cr = x.cr /\ k.toAdd = x.toAdd /\ k.spawned = x.spawned
        /\ k.known = w.known
    BY <1>0, <1>2, <1>3, Replaced
  <2> HIDE DEF k
  <2>2. Alert(k) /\ Linked(k) /\ Together(k, {}) /\ AtHome(k) /\ Listed(k)
    BY <1>0, <1>3, <1>6, <2>1, AlikeWorlds
  <2>3. Alert(x) /\ Linked(x) /\ Together(x, {})
    BY <2>1, <2>2 DEF Alert, Linked, Together, InGame
  <2>4. AtHome(x) /\ Listed(x)
    BY <2>1, <2>2 DEF AtHome, Listed, InGame
  <2> QED BY <2>3, <2>4
<1>10. Noting(x)
  <2> SUFFICES ASSUME NEW e \in x.known PROVE x.cr[e[1]].life # "none"
    BY DEF Noting
  <2>1. w.cr[e[1]].life # "none"
    BY <1>0, <1>3 DEF Noting
  <2>2. e[1] \in Creature
    BY <1>5 DEF Worlds, Creature
  <2> QED BY <1>6, <2>1, <2>2 DEF Alike
<1>11. Sound(x, {}, {})
  BY <1>5, <1>8, <1>9, <1>10 DEF Sound
<1>12. Guards(w, x)
  BY <1>3, <1>6 DEF Guards, Alike, InGame
<1> QED BY <1>11, <1>12 DEF x

LEMMA NoticeMoves ==
  ASSUME Sound(World, {}, {}), NEW m \in Monsters, NEW l \in Lists, NEW c \in Creature, Notice(m, l, c)
  PROVE  Moves
<1> DEFINE n == <<m, l, c>>
           w == World
           x == Noticed(w, n)
<1>1. /\ n \in (Monsters \X Lists \X Creature) \ w.known /\ n[1] = m /\ n[3] = c
      /\ w.cr[m].life # "none" /\ w.cr[c].life # "none"
  <2>1. n \in Monsters \X Lists \X Creature /\ n \notin w.known /\ n[1] = m /\ n[3] = c
    BY WorldIs DEF Notice
  <2>2. w.cr[m].life # "none" /\ (InGame(w, c) \/ w.cr[c].freed > 0)
    BY WorldIs DEF Notice, InGame
  <2>3. Exact(w, {})
    BY DEF Sound
  <2> HIDE DEF w
  <2>4. w.cr[c].life = "none" => w.cr[c].freed = 0
    BY <2>3 DEF Exact, Nothing
  <2> QED BY <2>1, <2>2, <2>4 DEF InGame
<1>2. UpdatesIdle(x, m)
  BY DEF Notice, Noticed
<1>3. Sound(w, {}, {})
  OBVIOUS
<1> HIDE DEF w, n
<1>4. Sound(x, {}, {}) /\ Guards(w, x)
  BY <1>1, <1>3, NoticedSound
<1> HIDE DEF x
<1> QED BY <1>2, <1>4, IdleMoves DEF w

LEMMA ForgetMoves ==
  ASSUME Sound(World, {}, {}), NEW n \in known, Forget(n)
  PROVE  Moves
<1> DEFINE x == Forgets(World, {n})
<1>1. {n} \in SUBSET World.known /\ UpdatesIdle(x, n[1])
  BY WorldIs DEF Forget
<1>2. n[1] \in Monsters
  BY <1>1 DEF Sound, Worlds
<1>3. Sound(x, {}, {}) /\ Spared(World, x)
  BY <1>1, ForgetsSound
<1> HIDE DEF x
<1>4. Guards(World, x)
  BY <1>3, SparedRemains, RemainsGuards
<1> QED BY <1>1, <1>2, <1>3, <1>4, IdleMoves

LEMMA SummonMoves ==
  ASSUME Sound(World, {}, {}), NEW c \in Creature, NEW m \in Monsters, Summon(c, m)
  PROVE  Moves
<1>1. InGame(World, c) /\ World.cr[c].master = NULL /\ World.cr[m].life = "none"
  BY WorldIs DEF Summon
<1>2. PICK v \in Vectors, stays \in BOOLEAN, told \in Told :
        Becomes(Placed(AddSummon(World, c, m), m, v, stays, told))
  BY DEF Summon
<1> DEFINE x == Placed(AddSummon(World, c, m), m, v, stays, told)
<1>3. Sound(x, {}, {}) /\ Guards(World, x)
  BY <1>1, SummonedSound
<1> HIDE DEF x
<1> QED BY <1>2, <1>3 DEF Moves, x

LEMMA ReleaseMoves ==
  ASSUME Sound(World, {}, {}), NEW c \in Players, ReleaseClient(c)
  PROVE  Moves
<1> DEFINE x == UnRef([World EXCEPT !.cr[c].client = FALSE], c)
<1>1. World.cr[c].client /\ Becomes(x) /\ c \in Creature
  BY WorldIs DEF ReleaseClient, Creature
<1>2. Sound(x, {}, {}) /\ Guards(World, x)
  BY <1>1, ReleasedSound
<1> HIDE DEF x
<1> QED BY <1>1, <1>2 DEF Moves

LEMMA ConvinceTurns ==
  ASSUME Sound(World, {}, {}), Guarded(World), Loop, NEW c \in Players, NEW m \in Monsters, Convince(c, m)
  PROVE  Turns /\ Guarded(World)'
<1> DEFINE w == World
           p == creature[m].place
<1>1. PICK v \in Vectors, idle \in BOOLEAN :
        LET u == SetIdle(Persuaded(w, c, m, v), m, idle, v)
        IN  IF p = NULL THEN Becomes(u) /\ SpawnStays
            ELSE /\ Becomes(UnRef(Freed(u, m, p), m))
                 /\ convinced' = convinced + 1
                 /\ UNCHANGED <<blinking, rested, doubled>>
  <2>1. PICK v \in Vectors, idle \in BOOLEAN :
          LET k == AddSummon(DestroySummons(RemoveSummon(World, creature[m].master, m), m, v), c, m)
              u == SetIdle(k, m, idle, v)
          IN  IF p = NULL THEN Becomes(u) /\ SpawnStays
              ELSE /\ Becomes(UnRef([u EXCEPT !.spawned[p] = @ \ {m}, !.cr[m].place = NULL], m))
                   /\ convinced' = convinced + 1
                   /\ UNCHANGED <<blinking, rested, doubled>>
    BY DEF Convince
  <2>2. Persuaded(w, c, m, v) =
          AddSummon(DestroySummons(RemoveSummon(World, creature[m].master, m), m, v), c, m)
    BY WorldIs DEF Persuaded
  <2> QED BY <2>1, <2>2 DEF Freed
<1> DEFINE j == Persuaded(w, c, m, v)
           u == SetIdle(j, m, idle, v)
           y == Freed(u, m, p)
           x == UnRef(y, m)
<1>2. InGame(w, c) /\ InGame(w, m) /\ m \in Creature /\ w.cr[m].place = p /\ w \in Worlds
      /\ w.armed = armed /\ w.spawned = spawned
  BY WorldIs DEF Convince, Creature, Sound
<1>3. Sound(w, {}, {}) /\ Guarded(w)
  OBVIOUS
<1> HIDE DEF w, p
<1>4. Sound(j, {}, {}) /\ Stays(w, j)
  BY <1>2, <1>3, PersuadedSound
<1> HIDE DEF j
<1>5. Sound(u, {}, {}) /\ Remains(j, u)
  BY <1>4, SetIdleSound
<1> HIDE DEF u
<1>6. /\ u.spawned = w.spawned /\ u.armed = w.armed
      /\ \A d \in Creature : (InGame(u, d) <=> InGame(w, d)) /\ (InGame(w, d) => u.cr[d].place = w.cr[d].place)
  BY <1>4, <1>5 DEF Stays, Remains
<1>7. p \in Places \cup {NULL}
  BY <1>2, FieldsOf
<1>8. CASE p = NULL
  <2>1. Becomes(u) /\ SpawnStays
    BY <1>1, <1>8 DEF u, j
  <2>2. Moves
    BY <1>5, <1>6, <2>1 DEF Moves, Guards, w
  <2>3. Guarded(World)'
    BY <1>2, <1>3, <2>1, <2>2, MovesGuarded DEF SpawnStays, w
  <2> QED BY <1>5, <2>1, <2>3 DEF Turns
<1>9. CASE p # NULL
  <2>1. /\ Becomes(x) /\ convinced' = convinced + 1
        /\ UNCHANGED <<blinking, rested, doubled>>
    BY <1>1, <1>9 DEF u, j
  <2>2. p \in Places /\ InGame(u, m) /\ u.cr[m].place = p
    BY <1>2, <1>6, <1>7, <1>9
  <2>3. Sound(y, {m}, {}) /\ Moved(u, y, m, p)
    BY <1>5, <2>2, FreedSound
  <2> HIDE DEF y
  <2>4. Sound(x, {}, {}) /\ Paid(y, x, m)
    BY <1>2, <2>3, PaidSound
  <2> HIDE DEF x
  <2>5. Turns
    BY <2>1, <2>4 DEF Turns
  <2>6. World' = x /\ x \in Worlds
    BY <2>1, <2>4, BecomesWorld DEF Sound
  <2>7. /\ x.armed = w.armed /\ x.spawned = [w.spawned EXCEPT ![p] = w.spawned[p] \ {m}]
        /\ \A d \in Creature : InGame(x, d) <=> InGame(w, d)
    BY <1>6, <2>3, <2>4 DEF Moved, Paid
  <2>8. \A q \in Places : x.spawned[q] \subseteq w.spawned[q]
    BY <1>2, <2>7 DEF Worlds
  <2>9. \A q \in Places \ doubled : Cardinality(x.spawned[q]) + blinking[q] <= 1
    <3> SUFFICES ASSUME NEW q \in Places \ doubled
                 PROVE  Cardinality(x.spawned[q]) + blinking[q] <= 1
      OBVIOUS
    <3>1. Cardinality(w.spawned[q]) + blinking[q] <= 1 /\ blinking[q] \in Nat
      BY <1>3 DEF Guarded, Loop
    <3>2. /\ Cardinality(w.spawned[q]) \in Nat /\ Cardinality(x.spawned[q]) \in Nat
          /\ Cardinality(x.spawned[q]) <= Cardinality(w.spawned[q])
      BY <1>2, <2>8, PlaceFinite
    <3> QED BY <3>1, <3>2
  <2>10. Cardinality(Living(x)) \in Nat /\ Cardinality(Living(w)) \in Nat
         /\ Cardinality(Living(x)) + 1 >= Cardinality(Living(w))
    <3>1. \A d \in Monsters : d # m /\ Housed(w, d) => Housed(x, d)
      BY <1>2, <2>7 DEF Housed, Worlds
    <3>2. Living(w) \ {m} \in SUBSET Living(x)
      BY <2>7, <3>1 DEF Living, Creature
    <3>3. IsFiniteSet(Living(w)) /\ Cardinality(Living(w)) \in Nat
      BY <1>2, LivingAre
    <3>4. Cardinality(Living(w) \ {m}) \in Nat /\ Cardinality(Living(w) \ {m}) + 1 >= Cardinality(Living(w))
      <4> DEFINE L == Living(w)
      <4>1. IsFiniteSet(L) /\ Cardinality(L) \in Nat
        BY <3>3
      <4> HIDE DEF L
      <4>2. /\ IsFiniteSet(L \ {m})
            /\ Cardinality(L \ {m}) = IF m \in L THEN Cardinality(L) - 1 ELSE Cardinality(L)
        BY <4>1, FS_RemoveElement
      <4>3. Cardinality(L \ {m}) \in Nat
        BY <4>2, FS_CardinalityType
      <4> QED BY <4>1, <4>2, <4>3 DEF L
    <3>5. Cardinality(Living(x)) \in Nat /\ Cardinality(Living(w) \ {m}) <= Cardinality(Living(x))
      BY <2>6, <3>2, LivingAre
    <3> QED BY <3>3, <3>4, <3>5
  <2>11. ~x.armed => Cardinality(Living(x)) + (convinced + 1) >= Cardinality(Places)
    <3>1. ~w.armed => Cardinality(Living(w)) + convinced >= Cardinality(Places)
      BY <1>3 DEF Guarded
    <3>2. convinced \in Nat
      BY DEF Loop
    <3> QED BY <2>7, <2>10, <3>1, <3>2, PlacesCount
  <2>12. Guarded(World)'
    BY <2>1, <2>6, <2>9, <2>11 DEF Guarded
  <2> QED BY <2>5, <2>12
<1> QED BY <1>8, <1>9

LEMMA BornPlaced ==
  ASSUME NEW w, Sound(w, {}, {}), NEW m \in Monsters, w.cr[m].life = "none",
         NEW v \in Vectors, NEW stays \in BOOLEAN, NEW told
  PROVE  LET x == Placed(w, m, v, stays, told)
         IN  Sound(x, {}, {}) /\ Guards(w, x) /\ Settled(x, m, NULL)
<1> DEFINE b == [w EXCEPT !.cr[m] = NewBorn]
           x == AddCheck(IF stays THEN b ELSE RemoveCreature(b, m, told), m, v)
<1>0. m \in Creature /\ w \in Worlds
  BY DEF Sound, Creature
<1>1. w.cr[m] = Nothing
  BY <1>0, NobodyHas
<1>2. Placed(w, m, v, stays, told) = x
  <2>1. [w.cr[m] EXCEPT !.life = "game", !.refs = w.cr[m].refs + 1] = NewBorn
    BY <1>1 DEF NewBorn, Nothing
  <2> QED BY <2>1 DEF Placed
<1>3. Sound(b, {}, {}) /\ Edited(w, b, m, NewBorn)
  BY BornSound
<1> HIDE DEF b
<1>4. /\ InGame(b, m) /\ b.cr[m].summons = {} /\ b.cr[m].place = NULL
      /\ Guards(w, b)
  BY <1>0, <1>3, NewBornIs DEF Edited, InGame, Guards
<1>5. Sound(x, {}, {}) /\ Guards(b, x) /\ Settled(x, m, b.cr[m].place)
  BY <1>0, <1>3, <1>4, PlacedSound
<1> HIDE DEF x
<1>6. Guards(w, x) /\ Settled(x, m, NULL)
  BY <1>4, <1>5, GuardsOnce
<1> QED BY <1>2, <1>5, <1>6

LEMMA SpawnMonsterTurns ==
  ASSUME Sound(World, {}, {}), Guarded(World), Loop,
         NEW p \in Places, NEW m \in Monsters, SpawnMonster(p, m)
  PROVE  Turns /\ Guarded(World)'
<1> DEFINE w == World
<1>1. /\ w.cr[m].life = "none" /\ w \in Worlds /\ m \in Creature
      /\ w.armed = armed /\ w.spawned = spawned
      /\ blinking[p] > 0 /\ blinking' = [blinking EXCEPT ![p] = blinking[p] - 1]
      /\ UNCHANGED <<convinced, doubled>>
  BY WorldIs DEF SpawnMonster, Sound, Creature
<1>2. Sound(w, {}, {}) /\ Guarded(w) /\ blinking \in [Places -> Nat]
  BY DEF Loop
<1>3. CASE UNCHANGED <<creature, toAdd, known, spawned, armed, rested>>
  <2>1. World' = World
    BY <1>3 DEF World
  <2>2. Becomes(World)
    BY <1>3, WorldIs DEF Becomes
  <2>3. \A q \in Places \ doubled : Cardinality(w.spawned[q]) + blinking'[q] <= 1
    <3> SUFFICES ASSUME NEW q \in Places \ doubled
                 PROVE  Cardinality(w.spawned[q]) + blinking'[q] <= 1
      OBVIOUS
    <3>1. Cardinality(w.spawned[q]) + blinking[q] <= 1 /\ Cardinality(w.spawned[q]) \in Nat
      BY <1>1, <1>2, PlaceFinite DEF Guarded
    <3>2. blinking'[q] \in Int /\ blinking[q] \in Nat /\ blinking'[q] <= blinking[q]
      BY <1>1, <1>2
    <3> QED BY <3>1, <3>2
  <2>4. ~w.armed => Cardinality(Living(w)) + convinced >= Cardinality(Places)
    BY <1>2 DEF Guarded
  <2>5. Guarded(World)'
    <3> HIDE DEF w
    <3> QED BY <1>1, <2>1, <2>3, <2>4 DEF Guarded, w
  <2> QED BY <1>2, <2>2, <2>5 DEF Turns
<1>4. CASE \E v \in Vectors, stays \in BOOLEAN, told \in Told :
             Becomes(Homed(Placed(World, m, v, stays, told), m, p))
  <2>1. PICK v \in Vectors, stays \in BOOLEAN, told \in Told :
          Becomes(Homed(Placed(w, m, v, stays, told), m, p))
    BY <1>4
  <2> DEFINE y == Placed(w, m, v, stays, told)
             x == Homed(y, m, p)
  <2> HIDE DEF w
  <2>2. Sound(y, {}, {}) /\ Guards(w, y) /\ Settled(y, m, NULL)
    BY <1>1, <1>2, BornPlaced
  <2>3. Becomes(x)
    BY <2>1
  <2> HIDE DEF y
  <2>9. ~Housed(w, m)
    BY <1>1, <1>2, NobodyHas
  <2>4. ~Housed(y, m)
    BY <2>2, <2>9 DEF Guards, Housed
  <2>5. /\ Sound(x, {}, {})
        /\ x.armed = y.armed /\ x.spawned = [y.spawned EXCEPT ![p] = y.spawned[p] \cup {m}]
        /\ \A d \in Creature : InGame(x, d) <=> InGame(y, d)
    <3>1. y.cr[m].life # "none"
      BY <2>2 DEF Settled
    <3> QED BY <2>2, <2>4, <3>1, HomedSound
  <2> HIDE DEF x
  <2>6. Turns
    BY <2>3, <2>5 DEF Turns
  <2>7. World' = x /\ x \in Worlds /\ y \in Worlds
    BY <2>2, <2>3, <2>5, BecomesWorld DEF Sound
  <2>8. \A q \in Places : x.spawned[q] = IF q = p THEN w.spawned[q] \cup {m} ELSE w.spawned[q]
    BY <1>1, <2>2, <2>5 DEF Guards, Worlds
  <2>10. \A q \in Places \ doubled : Cardinality(x.spawned[q]) + blinking'[q] <= 1
    <3> SUFFICES ASSUME NEW q \in Places \ doubled
                 PROVE  Cardinality(x.spawned[q]) + blinking'[q] <= 1
      OBVIOUS
    <3>1. /\ Cardinality(w.spawned[q]) + blinking[q] <= 1 /\ Cardinality(w.spawned[q]) \in Nat
          /\ IsFiniteSet(w.spawned[q]) /\ m \notin w.spawned[q]
      BY <1>1, <1>2, <2>9, PlaceFinite DEF Guarded, Housed
    <3>2. CASE q = p
      <4>1. Cardinality(w.spawned[q] \cup {m}) = Cardinality(w.spawned[q]) + 1
        BY <3>1, FS_AddElement
      <4>2. blinking'[q] = blinking[q] - 1 /\ blinking[q] \in Nat
        BY <1>1, <1>2, <3>2
      <4> QED BY <2>8, <3>1, <3>2, <4>1, <4>2
    <3>3. CASE q # p
      <4>1. blinking'[q] = blinking[q]
        BY <1>1, <1>2, <3>3
      <4> QED BY <2>8, <3>1, <3>3, <4>1
    <3> QED BY <3>2, <3>3
  <2>11. ~x.armed => Cardinality(Living(x)) + convinced >= Cardinality(Places)
    <3> SUFFICES ASSUME ~x.armed
                 PROVE  Cardinality(Living(x)) + convinced >= Cardinality(Places)
      OBVIOUS
    <3>1. ~w.armed /\ Living(w) \subseteq Living(y)
      BY <1>1, <2>2, <2>5, <2>7, GuardsLiving
    <3>2. Living(y) \subseteq Living(x)
      <4>1. y.spawned = w.spawned
        BY <2>2 DEF Guards
      <4>2. \A d \in Monsters : Housed(y, d) => Housed(x, d)
        BY <2>8, <4>1 DEF Housed
      <4> QED BY <2>5, <4>2 DEF Living, Creature
    <3>3. Cardinality(Living(w)) + convinced >= Cardinality(Places)
      BY <1>2, <3>1 DEF Guarded
    <3>4. /\ Cardinality(Living(w)) \in Nat /\ Cardinality(Living(x)) \in Nat
          /\ Cardinality(Living(w)) <= Cardinality(Living(x))
      BY <1>1, <2>7, <3>1, <3>2, LivingAre
    <3> QED BY <3>3, <3>4, PlacesCount DEF Loop
  <2>12. Guarded(World)'
    BY <1>1, <2>7, <2>10, <2>11 DEF Guarded
  <2> QED BY <2>6, <2>12
<1> QED BY <1>3, <1>4 DEF SpawnMonster, Homed

LEMMA ArmedSound ==
  ASSUME NEW w, Sound(w, {}, {}), NEW b \in BOOLEAN
  PROVE  LET x == [w EXCEPT !.armed = b]
         IN  Sound(x, {}, {}) /\ x.cr = w.cr /\ x.spawned = w.spawned /\ x.armed = b
<1> DEFINE x == [w EXCEPT !.armed = b]
<1>0. /\ w \in Worlds /\ Exact(w, {}) /\ Alert(w) /\ Linked(w)
      /\ Together(w, {}) /\ AtHome(w) /\ Listed(w) /\ Noting(w)
  BY DEF Sound
<1>1. /\ x.cr = w.cr /\ x.toAdd = w.toAdd /\ x.spawned = w.spawned /\ x.armed = b
      /\ x.known = w.known
      /\ x \in Worlds
  BY <1>0 DEF Worlds
<1> HIDE DEF x
<1>2. \A d \in Creature : InGame(x, d) = InGame(w, d) /\ Held(x, d) = Held(w, d)
  BY <1>1 DEF InGame, Held, Housed
<1>3. Exact(x, {}) /\ Alert(x) /\ Linked(x) /\ AtHome(x) /\ Listed(x) /\ Noting(x)
  BY <1>0, <1>1, <1>2, SameVectors DEF Exact, Alert, Linked, AtHome, Noting
<1>4. Together(x, {})
  <2>1. \A n \in Creature : w.cr[n].master \in Creature \cup {NULL}
    BY <1>0, FieldsOf
  <2> QED BY <1>0, <1>1, <1>2, <2>1 DEF Together
<1>5. Sound(x, {}, {})
  BY <1>1, <1>3, <1>4 DEF Sound
<1> QED BY <1>1, <1>5 DEF x

LEMMA CheckSpawnTurns ==
  ASSUME Sound(World, {}, {}), Guarded(World), Loop, CheckSpawn
  PROVE  /\ Turns /\ Guarded(World)'
         /\ blinking' \in [Places -> Nat] /\ convinced' \in Nat /\ doubled' \subseteq Places
<1> DEFINE w == World
           y == Erased(w)
           left == {p \in Places : y.spawned[p] # spawned[p]}
           due == {p \in Places : IsVacant(y, p) /\ rested[p] /\ p \notin left}
           x == [y EXCEPT !.armed = IsShort(y)]
<1>1. PICK late \in SUBSET due, starts \in SUBSET due :
        /\ Becomes(x)
        /\ blinking' = [p \in Places |-> blinking[p] + IF p \in starts THEN 1 ELSE 0]
        /\ doubled' = {p \in Places : \/ p \in starts /\ blinking[p] > 0
                                      \/ /\ p \in doubled
                                         /\ y.spawned[p] # {} \/ blinking[p] > 0}
  BY DEF CheckSpawn
<1>2. convinced' = 0 /\ w \in Worlds
  BY DEF CheckSpawn, Sound
<1>3. Sound(w, {}, {}) /\ Guarded(w) /\ blinking \in [Places -> Nat]
  BY DEF Loop
<1> HIDE DEF w
<1>4. Sound(y, {}, {}) /\ Swept(w, y) /\ y \in Worlds
  BY <1>3, ErasedSound DEF Sound
<1>5. \A p \in starts : y.spawned[p] = {}
  BY <1>1 DEF IsVacant
<1> HIDE DEF y, left, due
<1>6. Sound(x, {}, {}) /\ x.cr = y.cr /\ x.spawned = y.spawned /\ x.armed = IsShort(y)
  <2>1. IsShort(y) \in BOOLEAN
    BY DEF IsShort
  <2> QED BY <1>4, <2>1, ArmedSound
<1> HIDE DEF x
<1>7. Turns
  BY <1>1, <1>6 DEF Turns
<1>8. World' = x /\ x \in Worlds
  BY <1>1, <1>6, BecomesWorld DEF Sound
<1>9. blinking' \in [Places -> Nat] /\ doubled' \subseteq Places
  BY <1>1, <1>3
<1>10. \A q \in Places : x.spawned[q] = w.spawned[q] \ Gone(w)
  BY <1>4, <1>6 DEF Swept
<1>11. \A m \in Monsters, p \in Places : m \in x.spawned[p] => InGame(x, m)
  <2> SUFFICES ASSUME NEW m \in Monsters, NEW p \in Places, m \in x.spawned[p] PROVE InGame(x, m)
    OBVIOUS
  <2>1. m \in w.spawned[p] /\ m \notin Gone(w) /\ m \in Creature
    BY <1>10 DEF Creature
  <2>2. w.cr[m].life # "removed"
    BY <2>1 DEF Gone
  <2>3. w.cr[m].life # "none"
    BY <1>3, <2>1, NobodyHas DEF Housed
  <2>4. InGame(w, m)
    BY <1>2, <2>1, <2>2, <2>3, FieldsOf DEF InGame
  <2>5. InGame(y, m)
    BY <1>4, <2>1, <2>4 DEF Swept
  <2> QED BY <1>6, <2>5 DEF InGame
<1>12. ~x.armed => Cardinality(Living(x)) + 0 >= Cardinality(Places)
  <2> DEFINE U == UNION {x.spawned[p] : p \in Places}
  <2>1. x.armed <=> Cardinality(U) < Cardinality(Places)
    BY <1>6 DEF IsShort
  <2>2. U \in SUBSET Living(x)
    BY <1>8, <1>11 DEF Living, Housed, Worlds
  <2> HIDE DEF U
  <2>3. /\ Cardinality(U) \in Nat /\ Cardinality(Living(x)) \in Nat
        /\ Cardinality(U) <= Cardinality(Living(x))
    BY <1>8, <2>2, LivingAre
  <2> QED BY <2>1, <2>3, PlacesCount
<1>13. \A p \in Places \ doubled' : Cardinality(x.spawned[p]) + blinking'[p] <= 1
  <2> SUFFICES ASSUME NEW p \in Places \ doubled' PROVE Cardinality(x.spawned[p]) + blinking'[p] <= 1
    OBVIOUS
  <2>1. /\ p \in starts => blinking[p] = 0
        /\ p \in doubled => y.spawned[p] = {} /\ blinking[p] = 0
        /\ blinking[p] \in Nat
        /\ blinking'[p] = blinking[p] + IF p \in starts THEN 1 ELSE 0
    BY <1>1, <1>3
  <2>2. Cardinality({}) = 0
    BY FS_EmptySet
  <2>3. CASE p \in starts
    <3>1. x.spawned[p] = {}
      BY <1>5, <1>6, <2>3
    <3> QED BY <2>1, <2>2, <2>3, <3>1
  <2>4. CASE p \notin starts /\ p \in doubled
    <3>1. x.spawned[p] = {}
      BY <1>6, <2>1, <2>4
    <3> QED BY <2>1, <2>2, <2>4, <3>1
  <2>5. CASE p \notin starts /\ p \notin doubled
    <3>1. Cardinality(w.spawned[p]) + blinking[p] <= 1
      BY <1>3, <2>5 DEF Guarded
    <3>2. x.spawned[p] \in SUBSET w.spawned[p]
      BY <1>10
    <3>3. /\ Cardinality(w.spawned[p]) \in Nat /\ Cardinality(x.spawned[p]) \in Nat
          /\ Cardinality(x.spawned[p]) <= Cardinality(w.spawned[p])
      BY <1>2, <3>2, PlaceFinite
    <3> QED BY <2>1, <2>5, <3>1, <3>3
  <2> QED BY <2>3, <2>4, <2>5
<1>14. Guarded(World)'
  BY <1>2, <1>8, <1>12, <1>13 DEF Guarded
<1> QED BY <1>2, <1>7, <1>9, <1>14

-----------------------------------------------------------------------------
(* The vectors                                                               *)

\* A sequence without one of its elements.
LEMMA WithoutOne ==
  ASSUME NEW S, NEW s \in Seq(S), NEW i \in 1 .. Len(s)
  PROVE  /\ RemoveAt(s, i) \in Seq(S)
         /\ Len(RemoveAt(s, i)) = Len(s) - 1
         /\ \A j \in 1 .. Len(s) - 1 : RemoveAt(s, i)[j] = s[IF j < i THEN j ELSE j + 1]
<1> DEFINE a == SubSeq(s, 1, i - 1)
           b == SubSeq(s, i + 1, Len(s))
<1>1. Len(s) \in Nat /\ \A j \in 1 .. Len(s) : s[j] \in S
  OBVIOUS
<1>2. a \in Seq(S) /\ Len(a) = i - 1 /\ \A j \in 1 .. i - 1 : a[j] = s[j]
  BY <1>1
<1>3. b \in Seq(S) /\ Len(b) = Len(s) - i /\ \A j \in 1 .. Len(s) - i : b[j] = s[i + j]
  BY <1>1
<1>4. RemoveAt(s, i) = a \o b
  BY DEF RemoveAt
<1> HIDE DEF a, b
<1>5. /\ a \o b \in Seq(S) /\ Len(a \o b) = Len(s) - 1
      /\ \A j \in 1 .. Len(s) - 1 : (a \o b)[j] = IF j <= i - 1 THEN a[j] ELSE b[j - (i - 1)]
  <2>1. i - 1 + (Len(s) - i) = Len(s) - 1
    BY <1>1
  <2>2. /\ a \o b \in Seq(S) /\ Len(a \o b) = Len(a) + Len(b)
        /\ \A j \in 1 .. Len(a) + Len(b) :
             (a \o b)[j] = IF j <= Len(a) THEN a[j] ELSE b[j - Len(a)]
    BY <1>2, <1>3, ConcatProperties
  <2> QED BY <1>2, <1>3, <2>1, <2>2
<1>6. ASSUME NEW j \in 1 .. Len(s) - 1
      PROVE  (a \o b)[j] = s[IF j < i THEN j ELSE j + 1]
  <2>1. CASE j < i
    BY <1>1, <1>2, <1>5, <2>1
  <2>2. CASE ~(j < i)
    <3>1. j - (i - 1) \in 1 .. Len(s) - i /\ i + (j - (i - 1)) = j + 1
      BY <1>1, <2>2
    <3>2. b[j - (i - 1)] = s[j + 1]
      BY <1>3, <3>1
    <3> QED BY <1>1, <1>5, <2>2, <3>2
  <2> QED BY <2>1, <2>2
<1> QED BY <1>4, <1>5, <1>6

\* A creature leaves its vector: the reference of the vector goes to releaseThings.
Dropped(w, c) == [w EXCEPT !.cr[c].vec = -1, !.cr[c].freed = @ + 1]

LeftOut(a) == [a EXCEPT !.vec = -1, !.freed = a.freed + 1]

LEMMA DroppedIs ==
  ASSUME NEW w \in Worlds, NEW c \in Creature
  PROVE  LET x == Dropped(w, c)
         IN  x \in Worlds /\ LeftOut(w.cr[c]) \in Objects /\ Edited(w, x, c, LeftOut(w.cr[c]))
<1> DEFINE o == LeftOut(w.cr[c])
           a == [w.cr[c] EXCEPT !.vec = -1]
<1>1. w.cr[c] \in Objects
  BY ObjectsOf
<1>2. a \in Objects /\ w.cr[c].freed + 1 \in Int
  BY <1>1 DEF Objects
<1>3. [a EXCEPT !.freed = w.cr[c].freed + 1] \in Objects
  <2> HIDE DEF a
  <2> QED BY <1>2 DEF Objects
<1>4. o \in Objects
  BY <1>3 DEF LeftOut
<1>5. Dropped(w, c) = [w EXCEPT !.cr[c] = o]
  BY <1>1 DEF Dropped, LeftOut, Worlds, Objects
<1> HIDE DEF o
<1> QED BY <1>4, <1>5, ReplacedIsEdited DEF o

LEMMA DroppedSound ==
  ASSUME NEW w, Sound(w, {}, {}), NEW c \in Creature, ~w.cr[c].checked, w.cr[c].vec >= 0
  PROVE  LET x == Dropped(w, c)
         IN  /\ Edited(w, x, c, LeftOut(w.cr[c]))
             /\ x \in Worlds /\ Exact(x, {}) /\ Alert(x) /\ Linked(x)
             /\ Together(x, {}) /\ AtHome(x) /\ Noting(x) /\ Guards(w, x)
<1> DEFINE x == Dropped(w, c)
           o == LeftOut(w.cr[c])
<1>0. /\ w \in Worlds /\ Exact(w, {}) /\ Alert(w) /\ Linked(w)
      /\ Together(w, {}) /\ AtHome(w) /\ Listed(w) /\ Noting(w)
  BY DEF Sound
<1>1. /\ x \in Worlds /\ Edited(w, x, c, o)
      /\ x.cr[c] = o /\ \A d \in Creature : d # c => x.cr[d] = w.cr[d]
      /\ x.toAdd = w.toAdd /\ x.spawned = w.spawned /\ x.armed = w.armed /\ x.known = w.known
  BY <1>0, DroppedIs DEF Edited
<1>2. /\ o.life = w.cr[c].life /\ o.alive = w.cr[c].alive
      /\ o.checked = w.cr[c].checked /\ o.vec = -1
      /\ o.refs = w.cr[c].refs /\ o.freed = w.cr[c].freed + 1
      /\ o.client = w.cr[c].client /\ o.master = w.cr[c].master
      /\ o.summons = w.cr[c].summons /\ o.place = w.cr[c].place
  <2>1. w.cr[c] \in Objects
    BY <1>0, ObjectsOf
  <2> QED BY <2>1 DEF Objects, LeftOut
<1> HIDE DEF x, o
<1>3. w.cr[c].life # "none" /\ w.cr[c].freed \in Int /\ w.cr[c].refs \in Int
      /\ w.cr[c].freed >= 0
  BY <1>0, FieldsOf DEF Exact, Nothing
<1>4. x.cr[c].refs = Held(x, c)
  <2>1. /\ Count(InGame(x, c)) = Count(InGame(w, c)) /\ Count(Housed(x, c)) = Count(Housed(w, c))
        /\ Count(x.cr[c].vec >= 0) = 0 /\ Count(w.cr[c].vec >= 0) = 1
        /\ Count(x.cr[c].client) = Count(w.cr[c].client)
        /\ Count(x.cr[c].master # NULL) = Count(w.cr[c].master # NULL)
    BY <1>1, <1>2 DEF InGame, Housed, Count
  <2>2. w.cr[c].refs = Held(w, c) + Count(c \in {}) /\ Count(c \in {}) = 0
    BY <1>0 DEF Exact, Count
  <2>3. \A B : Count(B) \in Int
    BY DEF Count
  <2>5. Noted(x.known, c) = Noted(w.known, c) /\ Noted(w.known, c) \in Nat
    BY <1>0, <1>1, NotedType
  <2>4. Held(w, c) = Held(x, c) /\ Held(x, c) \in Int
    BY <1>1, <1>2, <1>3, <2>1, <2>3, <2>5 DEF Held
  <2> QED BY <1>1, <1>2, <2>2, <2>4
<1>5. Exact(x, {})
  <2>1. \A d \in Creature : d # c =>
          /\ x.cr[d].freed >= 0
          /\ x.cr[d].refs = Held(x, d) + Count(d \in {})
          /\ x.cr[d].life = "none" => x.cr[d] = Nothing
          /\ x.cr[d].life # "none" => x.cr[d].refs > 0
    <3>1. Exact(w, {}) /\ x.spawned = w.spawned /\ x.known = w.known
      BY <1>0, <1>1
    <3>2. \A d \in Creature : d # c => x.cr[d] = w.cr[d]
      BY <1>1
    <3> QED BY <3>1, <3>2, KeptExact
  <2>2. x.cr[c].refs = Held(x, c) + Count(c \in {})
    <3>1. Count(c \in {}) = 0
      BY DEF Count
    <3> QED BY <1>1, <1>2, <1>3, <1>4, <3>1
  <2>3. x.cr[c].freed >= 0 /\ x.cr[c].life # "none" /\ x.cr[c].refs > 0
    BY <1>0, <1>1, <1>2, <1>3 DEF Exact
  <2> QED BY <2>1, <2>2, <2>3 DEF Exact
<1>6. Alert(x)
  BY <1>0, <1>1, <1>2 DEF Alert, InGame
<1>7. \A d \in Creature :
        /\ x.cr[d].life = w.cr[d].life /\ x.cr[d].master = w.cr[d].master
        /\ x.cr[d].summons = w.cr[d].summons /\ x.cr[d].place = w.cr[d].place
  BY <1>1, <1>2
<1>8. Linked(x)
  BY <1>0, <1>7 DEF Linked
<1>9. Together(x, {})
  <2>1. \A n \in Creature : w.cr[n].master \in Creature \cup {NULL}
    BY <1>0, FieldsOf
  <2> QED BY <1>0, <1>7, <2>1 DEF Together, InGame
<1>10. AtHome(x)
  BY <1>0, <1>1, <1>7 DEF AtHome, InGame
<1>11. Guards(w, x)
  BY <1>1, <1>7 DEF Guards, InGame
<1>12. Noting(x)
  BY <1>0, <1>1, <1>7, SameNotes
<1> QED BY <1>1, <1>5, <1>6, <1>8, <1>9, <1>10, <1>11, <1>12 DEF x, o

LEMMA CheckDropSound ==
  ASSUME Sound(World, {}, {}), Guarded(World), Loop, CheckDrop
  PROVE  Sound(World, {}, {})' /\ Guarded(World)'
<1> DEFINE c == Current
           w == World
           x == Dropped(w, c)
           old == checks[last]
           new == RemoveAt(old, at)
<1>1. /\ Current \in Creature /\ World.cr[Current].vec = last /\ last \in Vectors
      /\ ~World.cr[Current].checked /\ at \in DOMAIN checks[last]
  BY CurrentIs, WorldIs DEF CheckDrop, Checking, Loop
<1>2. checks' = [checks EXCEPT ![last] = new] /\ UNCHANGED <<blinking, convinced, doubled>>
  BY DEF CheckDrop, SpawnStays
<1>3. Becomes(x)
  BY DEF CheckDrop, Dropped
<1>4. c \in Creature /\ w.cr[c].vec = last /\ ~w.cr[c].checked /\ c = old[at] /\ w.cr[c].vec >= 0
  <2>1. last >= 0
    BY <1>1 DEF Vectors
  <2> QED BY <1>1, <2>1 DEF Current
<1>5. Sound(w, {}, {}) /\ Guarded(w) /\ w \in Worlds /\ Listed(w) /\ Noting(w)
  BY DEF Sound
<1> HIDE DEF w, c
<1>6. /\ Edited(w, x, c, LeftOut(w.cr[c])) /\ Guards(w, x)
      /\ x \in Worlds /\ Exact(x, {}) /\ Alert(x) /\ Linked(x) /\ Together(x, {}) /\ AtHome(x)
      /\ Noting(x)
  BY <1>4, <1>5, DroppedSound
<1> HIDE DEF x
<1>7. World' = x
  BY <1>3, <1>6, BecomesWorld
<1>8. old \in Seq(Creature) /\ at \in 1 .. Len(old) /\ checks \in [Vectors -> Seq(Creature)]
  BY <1>1, <1>5 DEF Listed
<1>9. /\ new \in Seq(Creature) /\ Len(new) = Len(old) - 1
      /\ \A j \in 1 .. Len(old) - 1 : new[j] = old[IF j < at THEN j ELSE j + 1]
  BY <1>8, WithoutOne
<1> HIDE DEF new
<1>10. ASSUME NEW j \in DOMAIN new
       PROVE  \E i \in DOMAIN old : i # at /\ new[j] = old[i] /\ i = IF j < at THEN j ELSE j + 1
  <2>1. j \in 1 .. Len(old) - 1 /\ (IF j < at THEN j ELSE j + 1) \in 1 .. Len(old)
    BY <1>8, <1>9
  <2>2. (IF j < at THEN j ELSE j + 1) # at
    BY <1>8, <2>1
  <2> QED BY <1>8, <1>9, <2>1, <2>2
<1>11. ASSUME NEW i \in DOMAIN old, i # at
       PROVE  \E j \in DOMAIN new : new[j] = old[i]
  <2>1. CASE i < at
    <3>1. i \in 1 .. Len(old) - 1 /\ i \in DOMAIN new
      BY <1>8, <1>9, <2>1
    <3> QED BY <1>9, <2>1, <3>1
  <2>2. CASE i > at
    <3>1. i - 1 \in 1 .. Len(old) - 1 /\ i - 1 \in DOMAIN new /\ ~(i - 1 < at) /\ (i - 1) + 1 = i
      BY <1>8, <1>9, <2>2
    <3> QED BY <1>9, <3>1
  <2> QED BY <1>8, <1>11, <2>1, <2>2
<1>12. /\ x.toAdd = w.toAdd /\ x.cr[c].vec = -1
       /\ \A d \in Creature : d # c => x.cr[d].vec = w.cr[d].vec
  <2>1. w.cr[c] \in Objects
    BY <1>4, <1>5, ObjectsOf
  <2>2. LeftOut(w.cr[c]).vec = -1
    BY <2>1 DEF LeftOut, Objects
  <2> QED BY <1>6, <2>2 DEF Edited
<1>13. \A i \in DOMAIN w.toAdd : w.toAdd[i] # c /\ w.toAdd[i] \in Creature
  BY <1>1, <1>4, <1>5 DEF Listed, Worlds
<1>14. \A v \in Vectors : \A i \in DOMAIN checks[v] :
         /\ checks[v][i] \in Creature
         /\ checks[v][i] = c => v = last /\ i = at
  BY <1>1, <1>4, <1>5, <1>8 DEF Listed
<1> DEFINE post == checks'
<1>15. /\ post \in [Vectors -> Seq(Creature)]
       /\ post[last] = new
       /\ \A v \in Vectors : v # last => post[v] = checks[v]
  BY <1>1, <1>2, <1>8, <1>9
<1> HIDE DEF post, old
<1>16. ASSUME NEW v \in Vectors, NEW j \in DOMAIN post[v]
       PROVE  \E i \in DOMAIN checks[v] : 
                /\ post[v][j] = checks[v][i] /\ checks[v][i] # c
                /\ i = IF v = last /\ j >= at THEN j + 1 ELSE j
  <2>1. CASE v = last
    <3>1. PICK i \in DOMAIN old : i # at /\ new[j] = old[i] /\ i = IF j < at THEN j ELSE j + 1
      BY <1>10, <1>15, <2>1
    <3>2. j \in Int
      BY <1>8, <1>9, <1>15, <2>1
    <3> QED BY <1>8, <1>14, <1>15, <2>1, <3>1, <3>2 DEF old
  <2>2. CASE v # last
    BY <1>14, <1>15, <2>2
  <2> QED BY <2>1, <2>2
<1>17. ASSUME NEW d \in Creature, x.cr[d].vec >= 0
       PROVE  \/ \E i \in DOMAIN x.toAdd : x.toAdd[i] = d
              \/ \E i \in DOMAIN post[x.cr[d].vec] : post[x.cr[d].vec][i] = d
  <2>1. d # c /\ x.cr[d].vec = w.cr[d].vec /\ w.cr[d].vec \in Vectors
    <3>1. d # c /\ x.cr[d].vec = w.cr[d].vec
      BY <1>12, <1>17
    <3>2. w.cr[d].vec \in {-1} \cup Vectors
      BY <1>5, FieldsOf
    <3> QED BY <1>17, <3>1, <3>2
  <2>2. CASE \E i \in DOMAIN w.toAdd : w.toAdd[i] = d
    BY <1>12, <2>2
  <2>3. CASE \E i \in DOMAIN checks[w.cr[d].vec] : checks[w.cr[d].vec][i] = d
    <3>1. PICK i \in DOMAIN checks[w.cr[d].vec] : checks[w.cr[d].vec][i] = d
      BY <2>3
    <3>2. CASE w.cr[d].vec = last
      <4>1. i \in DOMAIN old /\ i # at /\ old[i] = d
        BY <1>4, <2>1, <3>1, <3>2 DEF old
      <4> QED BY <1>11, <1>15, <2>1, <3>2, <4>1
    <3>3. CASE w.cr[d].vec # last
      BY <1>15, <2>1, <3>1, <3>3
    <3> QED BY <3>2, <3>3
  <2> QED BY <1>5, <1>17, <2>1, <2>2, <2>3 DEF Listed
<1>18. ASSUME NEW v \in Vectors, NEW i \in DOMAIN post[v]
       PROVE  /\ x.cr[post[v][i]].vec = v
              /\ \A j \in DOMAIN post[v] : post[v][i] = post[v][j] => i = j
              /\ \A j \in DOMAIN x.toAdd : x.toAdd[j] # post[v][i]
  <2>1. PICK a \in DOMAIN checks[v] :
          /\ post[v][i] = checks[v][a] /\ checks[v][a] # c
          /\ a = IF v = last /\ i >= at THEN i + 1 ELSE i
    BY <1>16
  <2>2. x.cr[post[v][i]].vec = v
    BY <1>5, <1>12, <1>14, <2>1 DEF Listed
  <2>3. \A j \in DOMAIN x.toAdd : x.toAdd[j] # post[v][i]
    BY <1>5, <1>12, <2>1 DEF Listed
  <2>4. ASSUME NEW j \in DOMAIN post[v], post[v][i] = post[v][j] PROVE i = j
    <3>1. PICK b \in DOMAIN checks[v] :
            /\ post[v][j] = checks[v][b] /\ checks[v][b] # c
            /\ b = IF v = last /\ j >= at THEN j + 1 ELSE j
      BY <1>16
    <3>2. a = b
      BY <1>5, <2>1, <2>4, <3>1 DEF Listed
    <3>3. i \in Int /\ j \in Int /\ at \in Int
      BY <1>8, <1>15
    <3> QED BY <2>1, <3>1, <3>2, <3>3
  <2> QED BY <2>2, <2>3, <2>4
<1>19. Listed(World)'
  <2>1. /\ \A i \in DOMAIN x.toAdd : x.cr[x.toAdd[i]].vec >= 0
        /\ \A i, j \in DOMAIN x.toAdd : x.toAdd[i] = x.toAdd[j] => i = j
    BY <1>5, <1>12, <1>13 DEF Listed
  <2>2. post \in [Vectors -> Seq(Creature)]
    BY <1>15
  <2> QED BY <1>7, <1>17, <1>18, <2>1, <2>2 DEF Listed, post
<1>20. Guarded(World)'
  BY <1>2, <1>5, <1>6, <1>7, GuardsGuarded DEF w
<1>21. /\ (World \in Worlds)' /\ Exact(World, {})' /\ Alert(World)' /\ Linked(World)'
       /\ Together(World, {})' /\ AtHome(World)' /\ Noting(World)'
  BY <1>6, <1>7
<1> QED BY <1>19, <1>20, <1>21 DEF Sound

-----------------------------------------------------------------------------
(* checkCreatures begins                                                     *)

\* One creature goes to its vector.
Deal(ch, n) == [ch EXCEPT ![creature[toAdd[n]].vec] = Append(@, toAdd[n])]

Deals(f) == f = [n \in 0 .. Len(toAdd) |-> IF n = 0 THEN checks ELSE Deal(f[n - 1], n)]

LEMMA DealsSolvable ==
  ASSUME Len(toAdd) \in Nat
  PROVE  \E f : Deals(f)
<1> DEFINE Solved(g, n) == g[0] = checks /\ \A m \in 1 .. n : g[m] = Deal(g[m - 1], m)
           N == {n \in Nat : \E g : Solved(g, n)}
<1>1. 0 \in N
  <2> DEFINE g == [m \in {0} |-> checks]
  <2>1. Solved(g, 0)
    OBVIOUS
  <2> QED BY <2>1
<1>2. ASSUME NEW n \in Nat, n \in N PROVE n + 1 \in N
  <2>1. PICK g : Solved(g, n)
    BY <1>2
  <2> DEFINE h == [m \in 0 .. n + 1 |-> IF m <= n THEN g[m] ELSE Deal(g[n], n + 1)]
  <2>2. h[0] = checks
    BY <2>1
  <2>3. ASSUME NEW m \in 1 .. n + 1 PROVE h[m] = Deal(h[m - 1], m)
    <3>1. m - 1 \in 0 .. n /\ m \in 0 .. n + 1 /\ m - 1 \in 0 .. n + 1
      OBVIOUS
    <3>2. h[m - 1] = g[m - 1]
      BY <3>1
    <3>3. CASE m <= n
      <4>1. h[m] = g[m] /\ m \in 1 .. n
        BY <3>1, <3>3
      <4> QED BY <2>1, <3>2, <4>1
    <3>4. CASE m = n + 1
      <4>1. h[m] = Deal(g[n], n + 1) /\ m - 1 = n
        BY <3>1, <3>4
      <4> QED BY <3>2, <3>4, <4>1
    <3> QED BY <3>3, <3>4
  <2> HIDE DEF h
  <2> QED BY <2>2, <2>3
<1>3. Nat \subseteq N
  <2> HIDE DEF N
  <2> QED BY <1>1, <1>2, NatBySuccessor
<1>4. PICK g : Solved(g, Len(toAdd))
  BY <1>3
<1> DEFINE f == [m \in 0 .. Len(toAdd) |-> g[m]]
<1>5. ASSUME NEW n \in 0 .. Len(toAdd)
      PROVE  f[n] = IF n = 0 THEN checks ELSE Deal(f[n - 1], n)
  <2>1. CASE n = 0
    BY <1>4, <2>1
  <2>2. CASE n # 0
    <3>1. n \in 1 .. Len(toAdd) /\ n - 1 \in 0 .. Len(toAdd)
      BY <2>2
    <3> QED BY <1>4, <2>2, <3>1
  <2> QED BY <2>1, <2>2
<1>6. f = [n \in 0 .. Len(toAdd) |-> f[n]]
  OBVIOUS
<1>7. f = [n \in 0 .. Len(toAdd) |-> IF n = 0 THEN checks ELSE Deal(f[n - 1], n)]
  <2> HIDE DEF f
  <2> QED BY <1>5, <1>6
<1> QED BY <1>7 DEF Deals

LEMMA CheckBeginDeals ==
  ASSUME Len(toAdd) \in Nat, CheckBegin
  PROVE  \E f : Deals(f) /\ checks' = f[Len(toAdd)]
<1> DEFINE f == CHOOSE g : Deals(g)
<1>1. Deals(f)
  BY DealsSolvable
<1>2. checks' = f[Len(toAdd)]
  BY DEF CheckBegin, Deals, Deal
<1> QED BY <1>1, <1>2

\* The first k of those to be added are in their vectors.
Dealt(ch, k) ==
  /\ ch \in [Vectors -> Seq(Creature)]
  /\ \A v \in Vectors : \A i \in DOMAIN ch[v] :
       /\ creature[ch[v][i]].vec = v
       /\ \A j \in DOMAIN ch[v] : ch[v][i] = ch[v][j] => i = j
       /\ \A j \in k + 1 .. Len(toAdd) : toAdd[j] # ch[v][i]
  /\ \A c \in Creature : creature[c].vec >= 0 =>
       \/ \E i \in k + 1 .. Len(toAdd) : toAdd[i] = c
       \/ \E i \in DOMAIN ch[creature[c].vec] : ch[creature[c].vec][i] = c

\* Those to be added are different creatures with a vector each.
Waiting ==
  /\ toAdd \in Seq(Creature)
  /\ \A i \in 1 .. Len(toAdd) : creature[toAdd[i]].vec \in Vectors
  /\ \A i, j \in 1 .. Len(toAdd) : toAdd[i] = toAdd[j] => i = j
  /\ \A c \in Creature : creature[c].vec >= 0 => creature[c].vec \in Vectors

LEMMA DealDealt ==
  ASSUME Waiting, NEW k \in Nat, k < Len(toAdd), NEW ch, Dealt(ch, k)
  PROVE  Dealt(Deal(ch, k + 1), k + 1)
<1> DEFINE c == toAdd[k + 1]
           u == creature[c].vec
           new == Append(ch[u], c)
           y == Deal(ch, k + 1)
<1>1. Len(toAdd) \in Nat /\ k + 1 \in 1 .. Len(toAdd) /\ c \in Creature /\ u \in Vectors
  BY DEF Waiting
<1>2. /\ ch \in [Vectors -> Seq(Creature)]
      /\ \A v \in Vectors : \A i \in DOMAIN ch[v] :
           /\ creature[ch[v][i]].vec = v
           /\ \A j \in DOMAIN ch[v] : ch[v][i] = ch[v][j] => i = j
           /\ \A j \in k + 1 .. Len(toAdd) : toAdd[j] # ch[v][i]
      /\ \A d \in Creature : creature[d].vec >= 0 =>
           \/ \E i \in k + 1 .. Len(toAdd) : toAdd[i] = d
           \/ \E i \in DOMAIN ch[creature[d].vec] : ch[creature[d].vec][i] = d
  BY DEF Dealt
<1>3. y = [ch EXCEPT ![u] = new]
  BY DEF Deal
<1>4. \A j \in k + 2 .. Len(toAdd) : j \in k + 1 .. Len(toAdd) /\ j \in 1 .. Len(toAdd) /\ toAdd[j] # c
  BY <1>1 DEF Waiting
<1>5. ch[u] \in Seq(Creature)
  BY <1>1, <1>2
<1>6. /\ new \in Seq(Creature) /\ DOMAIN new = 1 .. Len(ch[u]) + 1 /\ DOMAIN ch[u] = 1 .. Len(ch[u])
      /\ \A i \in 1 .. Len(ch[u]) : new[i] = ch[u][i]
      /\ new[Len(ch[u]) + 1] = c /\ Len(ch[u]) \in Nat
  <2>1. c \in Creature
    BY <1>1
  <2> HIDE DEF c, u
  <2>2. /\ new \in Seq(Creature) /\ Len(new) = Len(ch[u]) + 1
        /\ \A i \in 1 .. Len(ch[u]) : new[i] = ch[u][i]
        /\ new[Len(ch[u]) + 1] = c
    BY <1>5, <2>1, AppendProperties
  <2>3. Len(ch[u]) \in Nat /\ DOMAIN ch[u] = 1 .. Len(ch[u])
    BY <1>5
  <2>4. DOMAIN new = 1 .. Len(new)
    BY <2>2
  <2> QED BY <2>2, <2>3, <2>4
<1>7. \A v \in Vectors : \A i \in DOMAIN ch[v] : ch[v][i] # c
  BY <1>1, <1>2
<1>8. k + 1 \in k + 1 .. Len(toAdd) /\ k + 1 + 1 = k + 2
  BY <1>1
<1>12. k + 2 .. Len(toAdd) \subseteq k + 1 .. Len(toAdd)
  BY <1>1
<1> HIDE DEF c, u, new, y
<1>9. /\ y \in [Vectors -> Seq(Creature)] /\ y[u] = new
      /\ \A v \in Vectors : v # u => y[v] = ch[v]
  BY <1>1, <1>2, <1>3, <1>6
<1>10. ASSUME NEW v \in Vectors, NEW i \in DOMAIN y[v]
       PROVE  /\ creature[y[v][i]].vec = v
              /\ \A j \in DOMAIN y[v] : y[v][i] = y[v][j] => i = j
              /\ \A j \in k + 2 .. Len(toAdd) : toAdd[j] # y[v][i]
  <2>1. CASE v # u
    <3>1. i \in DOMAIN ch[v] /\ y[v] = ch[v]
      BY <1>9, <2>1
    <3> QED BY <1>1, <1>2, <1>8, <1>12, <3>1
  <2>2. CASE v = u /\ i = Len(ch[u]) + 1
    <3>1. y[v][i] = c
      BY <1>6, <1>9, <2>2
    <3>2. creature[c].vec = v
      BY <2>2 DEF u
    <3>3. \A j \in DOMAIN y[v] : y[v][i] = y[v][j] => i = j
      <4>1. y[v] = new /\ \A j \in DOMAIN ch[u] : ch[u][j] # c
        BY <1>1, <1>7, <1>9, <2>2
      <4>2. \A j \in DOMAIN new : j # Len(ch[u]) + 1 => j \in DOMAIN ch[u] /\ new[j] = ch[u][j]
        BY <1>6
      <4> QED BY <1>6, <2>2, <3>1, <4>1, <4>2
    <3> QED BY <1>4, <3>1, <3>2, <3>3
  <2>3. CASE v = u /\ i # Len(ch[u]) + 1
    <3>1. i \in DOMAIN ch[u] /\ y[v][i] = ch[u][i]
      BY <1>6, <1>9, <2>3
    <3>2. creature[ch[u][i]].vec = u /\ \A j \in k + 2 .. Len(toAdd) : toAdd[j] # ch[u][i]
      BY <1>1, <1>2, <1>4, <3>1
    <3>3. ASSUME NEW j \in DOMAIN y[v], y[v][i] = y[v][j] PROVE i = j
      <4>1. CASE j = Len(ch[u]) + 1
        BY <1>1, <1>6, <1>7, <1>9, <2>3, <3>1, <3>3, <4>1
      <4>2. CASE j # Len(ch[u]) + 1
        <5>1. j \in DOMAIN ch[u] /\ y[v][j] = ch[u][j]
          BY <1>6, <1>9, <2>3, <4>2
        <5>2. ch[u][i] = ch[u][j]
          BY <3>1, <3>3, <5>1
        <5> QED BY <1>1, <1>2, <3>1, <5>1, <5>2
      <4> QED BY <4>1, <4>2
    <3> QED BY <2>3, <3>1, <3>2, <3>3
  <2> QED BY <2>1, <2>2, <2>3
<1>11. ASSUME NEW d \in Creature, creature[d].vec >= 0
       PROVE  \/ \E i \in k + 2 .. Len(toAdd) : toAdd[i] = d
              \/ \E i \in DOMAIN y[creature[d].vec] : y[creature[d].vec][i] = d
  <2>0. creature[d].vec \in Vectors
    BY <1>11 DEF Waiting
  <2>1. CASE \E i \in k + 1 .. Len(toAdd) : toAdd[i] = d
    <3>1. PICK i \in k + 1 .. Len(toAdd) : toAdd[i] = d
      BY <2>1
    <3>2. CASE i = k + 1
      <4>1. creature[d].vec = u /\ d = c
        BY <3>1, <3>2 DEF u, c
      <4>2. Len(ch[u]) + 1 \in DOMAIN new
        BY <1>6
      <4> QED BY <1>6, <1>9, <4>1, <4>2
    <3>3. CASE i # k + 1
      <4>1. i \in k + 2 .. Len(toAdd)
        BY <1>1, <3>3
      <4> QED BY <3>1, <4>1
    <3> QED BY <3>2, <3>3
  <2>2. CASE \E i \in DOMAIN ch[creature[d].vec] : ch[creature[d].vec][i] = d
    <3>1. PICK i \in DOMAIN ch[creature[d].vec] : ch[creature[d].vec][i] = d
      BY <2>2
    <3>2. CASE creature[d].vec = u
      <4>1. i \in DOMAIN new /\ new[i] = ch[u][i]
        BY <1>6, <3>1, <3>2
      <4> QED BY <1>9, <3>1, <3>2, <4>1
    <3>3. CASE creature[d].vec # u
      BY <1>9, <2>0, <3>1, <3>3
    <3> QED BY <3>2, <3>3
  <2> QED BY <1>2, <1>11, <2>1, <2>2
<1>13. Dealt(y, k + 1)
  <2>1. k + 1 + 1 .. Len(toAdd) = k + 2 .. Len(toAdd)
    BY <1>8
  <2>2. \A v \in Vectors : \A i \in DOMAIN y[v] :
          /\ creature[y[v][i]].vec = v
          /\ \A j \in DOMAIN y[v] : y[v][i] = y[v][j] => i = j
          /\ \A j \in k + 1 + 1 .. Len(toAdd) : toAdd[j] # y[v][i]
    BY <1>10, <2>1
  <2>3. \A d \in Creature : creature[d].vec >= 0 =>
          \/ \E i \in k + 1 + 1 .. Len(toAdd) : toAdd[i] = d
          \/ \E i \in DOMAIN y[creature[d].vec] : y[creature[d].vec][i] = d
    BY <1>11, <2>1
  <2> QED BY <1>9, <2>2, <2>3 DEF Dealt
<1> QED BY <1>13 DEF y

LEMMA CheckBeginSound ==
  ASSUME Sound(World, {}, {}), Guarded(World), Loop, CheckBegin
  PROVE  Sound(World, {}, {})' /\ Guarded(World)'
<1> DEFINE w == World
           x == World'
<1>0. /\ w \in Worlds /\ Exact(w, {}) /\ Alert(w) /\ Linked(w)
      /\ Together(w, {}) /\ AtHome(w) /\ Listed(w) /\ Guarded(w) /\ Noting(w)
  BY DEF Sound
<1>1. w.cr = creature /\ w.toAdd = toAdd /\ w.spawned = spawned /\ w.armed = armed
  BY WorldIs
<1>2. x.cr = w.cr /\ x.toAdd = <<>> /\ x.spawned = w.spawned /\ x.armed = w.armed /\ x.known = w.known
      /\ UNCHANGED <<blinking, convinced, doubled>> /\ x = [w EXCEPT !.toAdd = <<>>]
  <2>1. UNCHANGED <<creature, known, spawned, armed>> /\ toAdd' = <<>>
        /\ UNCHANGED <<blinking, convinced, doubled>>
    BY DEF CheckBegin, SpawnStays
  <2> QED BY <2>1 DEF World
<1> HIDE DEF w, x
<1>3. Waiting
  <2>1. toAdd \in Seq(Creature) /\ DOMAIN toAdd = 1 .. Len(toAdd)
    BY <1>0, <1>1 DEF Worlds
  <2>2. \A c \in Creature : creature[c].vec >= 0 => creature[c].vec \in Vectors
    <3>1. \A c \in Creature : creature[c].vec \in {-1} \cup Vectors
      BY <1>0, <1>1, FieldsOf
    <3> QED BY <3>1
  <2>3. \A i \in 1 .. Len(toAdd) : toAdd[i] \in Creature /\ creature[toAdd[i]].vec >= 0
    BY <1>0, <1>1, <2>1 DEF Listed
  <2>4. \A i, j \in 1 .. Len(toAdd) : toAdd[i] = toAdd[j] => i = j
    BY <1>0, <1>1, <2>1 DEF Listed
  <2> QED BY <2>1, <2>2, <2>3, <2>4 DEF Waiting
<1>4. Len(toAdd) \in Nat /\ DOMAIN toAdd = 1 .. Len(toAdd)
  BY <1>3 DEF Waiting
<1>5. PICK f : Deals(f) /\ checks' = f[Len(toAdd)]
  BY <1>4, CheckBeginDeals
<1> DEFINE N == {k \in Nat : k <= Len(toAdd) => Dealt(f[k], k)}
<1>6. f[0] = checks /\ \A k \in 1 .. Len(toAdd) : f[k] = Deal(f[k - 1], k)
  <2>1. \A k \in 0 .. Len(toAdd) : f[k] = IF k = 0 THEN checks ELSE Deal(f[k - 1], k)
    BY <1>5 DEF Deals
  <2>2. 0 \in 0 .. Len(toAdd) /\ \A k \in 1 .. Len(toAdd) : k \in 0 .. Len(toAdd) /\ k # 0
    BY <1>4
  <2> QED BY <2>1, <2>2
<1>7. 0 \in N
  <2>1. Dealt(checks, 0)
    <3>1. 0 + 1 .. Len(toAdd) = DOMAIN toAdd
      BY <1>4
    <3>2. /\ checks \in [Vectors -> Seq(Creature)]
          /\ \A v \in Vectors : \A i \in DOMAIN checks[v] :
               /\ creature[checks[v][i]].vec = v
               /\ \A j \in DOMAIN checks[v] : checks[v][i] = checks[v][j] => i = j
               /\ \A j \in DOMAIN toAdd : toAdd[j] # checks[v][i]
          /\ \A c \in Creature : creature[c].vec >= 0 =>
               \/ \E i \in DOMAIN toAdd : toAdd[i] = c
               \/ \E i \in DOMAIN checks[creature[c].vec] : checks[creature[c].vec][i] = c
      BY <1>0, <1>1 DEF Listed
    <3> QED BY <3>1, <3>2 DEF Dealt
  <2> QED BY <1>6, <2>1
<1>8. ASSUME NEW k \in Nat, k \in N PROVE k + 1 \in N
  <2> SUFFICES ASSUME k + 1 <= Len(toAdd) PROVE Dealt(f[k + 1], k + 1)
    OBVIOUS
  <2>1. k < Len(toAdd) /\ k <= Len(toAdd) /\ k + 1 \in 1 .. Len(toAdd) /\ k + 1 - 1 = k
    BY <1>4
  <2>2. f[k + 1] = Deal(f[k], k + 1)
    BY <1>6, <2>1
  <2>3. Dealt(f[k], k)
    BY <1>8, <2>1
  <2>4. Dealt(Deal(f[k], k + 1), k + 1)
    BY <1>3, <2>1, <2>3, DealDealt
  <2> QED BY <2>2, <2>4
<1>9. Nat \subseteq N
  <2> HIDE DEF N
  <2> QED BY <1>7, <1>8, NatBySuccessor
<1>10. Dealt(checks', Len(toAdd))
  <2>1. Len(toAdd) \in N /\ Len(toAdd) <= Len(toAdd)
    BY <1>4, <1>9
  <2> QED BY <1>5, <2>1
<1> DEFINE post == checks'
<1>11. /\ post \in [Vectors -> Seq(Creature)]
       /\ \A v \in Vectors : \A i \in DOMAIN post[v] :
            /\ x.cr[post[v][i]].vec = v
            /\ \A j \in DOMAIN post[v] : post[v][i] = post[v][j] => i = j
       /\ \A c \in Creature : x.cr[c].vec >= 0 =>
            \E i \in DOMAIN post[x.cr[c].vec] : post[x.cr[c].vec][i] = c
  <2>1. Len(toAdd) + 1 .. Len(toAdd) = {}
    BY <1>4
  <2> QED BY <1>1, <1>2, <1>10, <2>1 DEF Dealt
<1> HIDE DEF post
<1>12. DOMAIN x.toAdd = {}
  BY <1>2
<1>13. Listed(World)'
  BY <1>11, <1>12 DEF Listed, x, post
<1>14. x \in Worlds
  <2>1. <<>> \in Seq(Creature)
    OBVIOUS
  <2> QED BY <1>0, <1>2, <2>1 DEF Worlds
<1>15. Exact(x, {}) /\ Alert(x) /\ Linked(x) /\ AtHome(x) /\ Noting(x)
  <2>1. \A d \in Creature : InGame(x, d) = InGame(w, d) /\ Held(x, d) = Held(w, d)
    BY <1>2 DEF InGame, Held, Housed
  <2> QED BY <1>0, <1>2, <2>1 DEF Exact, Alert, Linked, AtHome, Noting
<1>16. Together(x, {})
  <2>1. \A n \in Creature : w.cr[n].master \in Creature \cup {NULL}
    BY <1>0, FieldsOf
  <2> QED BY <1>0, <1>2, <2>1 DEF Together, InGame
<1>17. Guarded(World)'
  <2>1. Guards(w, x)
    BY <1>2 DEF Guards, InGame
  <2> QED BY <1>0, <1>2, <1>14, <2>1, GuardsGuarded DEF w, x
<1>18. Sound(World, {}, {})'
  BY <1>13, <1>14, <1>15, <1>16 DEF Sound, x
<1> QED BY <1>17, <1>18

-----------------------------------------------------------------------------
(* The invariant                                                             *)

LEMMA MovesKeep ==
  ASSUME IInv, Moves, UNCHANGED checks, SpawnStays, UNCHANGED last, at' \in Nat
  PROVE  IInv'
<1>1. Sound(World, {}, {}) /\ Guarded(World) /\ Loop /\ World \in Worlds
  BY DEF IInv, Sound
<1>2. Turns
  BY DEF Moves, Turns
<1>3. Sound(World, {}, {})'
  BY <1>2, TurnsSound
<1>4. Guarded(World)'
  BY <1>1, MovesGuarded DEF SpawnStays
<1>5. Loop'
  BY <1>1 DEF Loop, SpawnStays
<1> QED BY <1>3, <1>4, <1>5 DEF IInv

LEMMA PlayKeeps ==
  ASSUME IInv, Moves, Play
  PROVE  IInv'
<1>1. UNCHANGED checks /\ SpawnStays /\ UNCHANGED last /\ at' \in Nat
  BY DEF Play, LoopStays, IInv, Loop
<1> QED BY <1>1, MovesKeep

LEMMA CheckKeeps ==
  ASSUME IInv, Check
  PROVE  IInv'
<1>1. Sound(World, {}, {}) /\ Guarded(World) /\ Loop
  BY DEF IInv
<1>2. last \in Vectors /\ at \in Nat /\ VectorCount \in Nat \ {0}
  BY <1>1, CreaturesAssumption DEF Loop, CreaturesAssumption
<1>3. CASE CheckBegin
  <2>1. Sound(World, {}, {})' /\ Guarded(World)'
    BY <1>1, <1>3, CheckBeginSound
  <2>2. last' = (last + 1) % VectorCount /\ at' = 1 /\ SpawnStays
    BY <1>3 DEF CheckBegin
  <2>3. last' \in Vectors
    BY <1>2, <2>2 DEF Vectors
  <2>4. Loop'
    BY <1>1, <2>2, <2>3 DEF Loop, SpawnStays
  <2> QED BY <2>1, <2>4 DEF IInv
<1>4. CASE CheckDrop
  <2>1. Sound(World, {}, {})' /\ Guarded(World)'
    BY <1>1, <1>4, CheckDropSound
  <2>2. UNCHANGED <<last, at>> /\ SpawnStays
    BY <1>4 DEF CheckDrop
  <2>3. Loop'
    BY <1>1, <2>2 DEF Loop, SpawnStays
  <2> QED BY <2>1, <2>3 DEF IInv
<1>5. CASE CheckDeath
  <2>1. Moves
    BY <1>1, <1>5, CheckDeathMoves
  <2>2. at' = at + 1 /\ UNCHANGED <<checks, last>> /\ SpawnStays
    BY <1>5 DEF CheckDeath
  <2>3. at' \in Nat
    BY <1>2, <2>2
  <2> QED BY <2>1, <2>2, <2>3, MovesKeep
<1>6. CASE CheckThink
  <2>1. Moves
    BY <1>1, <1>6, CheckThinkMoves
  <2>2. at' = at + 1 /\ UNCHANGED <<checks, last>> /\ SpawnStays
    BY <1>6 DEF CheckThink
  <2>3. at' \in Nat
    BY <1>2, <2>2
  <2> QED BY <2>1, <2>2, <2>3, MovesKeep
<1>7. CASE CheckEnd
  <2>1. Becomes(CleanedUp(World)) /\ at' = 0 /\ UNCHANGED <<checks, last>> /\ SpawnStays
    BY <1>7 DEF CheckEnd
  <2>2. Moves
    BY <1>1, <2>1, CleanupMoves
  <2> QED BY <2>1, <2>2, MovesKeep
<1>8. CASE Cleanup
  <2>1. Becomes(CleanedUp(World)) /\ Play
    BY <1>8 DEF Cleanup, Play
  <2>2. Moves
    BY <1>1, <2>1, CleanupMoves
  <2> QED BY <2>1, <2>2, PlayKeeps
<1> QED BY <1>3, <1>4, <1>5, <1>6, <1>7, <1>8 DEF Check

LEMMA GameKeeps ==
  ASSUME IInv, Game
  PROVE  IInv'
<1>1. Sound(World, {}, {}) /\ Guarded(World) /\ Loop
  BY DEF IInv
<1>2. ASSUME NEW m \in Monsters, Idle(m) PROVE IInv'
  <2>1. UpdatesIdle(World, m) /\ Guards(World, World)
    BY <1>2, GuardsItself DEF Idle
  <2>2. Moves
    BY <1>1, <2>1, IdleMoves
  <2>3. Play
    BY <1>2 DEF Idle
  <2> QED BY <2>2, <2>3, PlayKeeps
<1>3. ASSUME NEW c \in Creature, Kill(c) PROVE IInv'
  <2>1. Moves
    BY <1>1, <1>3, KillMoves
  <2>2. Play
    BY <1>3 DEF Kill
  <2> QED BY <2>1, <2>2, PlayKeeps
<1>4. ASSUME NEW c \in Creature, Heal(c) PROVE IInv'
  <2>1. Moves
    BY <1>1, <1>4, HealMoves
  <2>2. Play
    BY <1>4 DEF Heal
  <2> QED BY <2>1, <2>2, PlayKeeps
<1>5. ASSUME NEW c \in Creature, Removal(c) PROVE IInv'
  <2>1. InGame(World, c) /\ (\E told \in Told : Becomes(RemoveCreature(World, c, told))) /\ Play
    BY <1>5 DEF Removal
  <2>2. Moves
    BY <1>1, <2>1, RemovalMoves
  <2> QED BY <2>1, <2>2, PlayKeeps
<1>6. ASSUME NEW c \in Creature, NEW m \in Monsters, Summon(c, m) PROVE IInv'
  <2>1. Moves
    BY <1>1, <1>6, SummonMoves
  <2>2. Play
    BY <1>6 DEF Summon
  <2> QED BY <2>1, <2>2, PlayKeeps
<1>7. ASSUME NEW c \in Players, NEW m \in Monsters, Convince(c, m) PROVE IInv'
  <2>1. Turns /\ Guarded(World)'
    BY <1>1, <1>7, ConvinceTurns
  <2>2. LoopStays /\ UNCHANGED <<blinking, rested, doubled>>
    BY <1>7 DEF Convince, SpawnStays
  <2>3. Sound(World, {}, {})'
    BY <2>1, <2>2, TurnsSound DEF LoopStays
  <2>4. convinced' \in Nat
    <3>1. convinced' = convinced \/ convinced' = convinced + 1
      <4>1. PICK v \in Vectors, idle \in BOOLEAN :
              IF creature[m].place = NULL THEN SpawnStays ELSE convinced' = convinced + 1
        BY <1>7 DEF Convince
      <4> QED BY <4>1 DEF SpawnStays
    <3> QED BY <1>1, <3>1 DEF Loop
  <2>5. Loop'
    BY <1>1, <2>2, <2>4 DEF Loop, LoopStays
  <2> QED BY <2>1, <2>3, <2>5 DEF IInv
<1>8. ASSUME NEW c \in Players, ReleaseClient(c) PROVE IInv'
  <2>1. Moves
    BY <1>1, <1>8, ReleaseMoves
  <2>2. Play
    BY <1>8 DEF ReleaseClient
  <2> QED BY <2>1, <2>2, PlayKeeps
<1>9. ASSUME NEW m \in Monsters, NEW l \in Lists, NEW c \in Creature, Notice(m, l, c) PROVE IInv'
  <2>1. Moves
    BY <1>1, <1>9, NoticeMoves
  <2>2. Play
    BY <1>9 DEF Notice
  <2> QED BY <2>1, <2>2, PlayKeeps
<1>10. ASSUME NEW n \in known, Forget(n) PROVE IInv'
  <2>1. Moves
    BY <1>1, <1>10, ForgetMoves
  <2>2. Play
    BY <1>10 DEF Forget
  <2> QED BY <2>1, <2>2, PlayKeeps
<1> QED BY <1>2, <1>3, <1>4, <1>5, <1>6, <1>7, <1>8, <1>9, <1>10 DEF Game

LEMMA SpawnKeeps ==
  ASSUME IInv, Spawn
  PROVE  IInv'
<1>1. Sound(World, {}, {}) /\ Guarded(World) /\ Loop /\ blinking \in [Places -> Nat]
  BY DEF IInv, Loop
<1>2. CASE CheckSpawn
  <2>1. /\ Turns /\ Guarded(World)'
        /\ blinking' \in [Places -> Nat] /\ convinced' \in Nat /\ doubled' \subseteq Places
    BY <1>1, <1>2, CheckSpawnTurns
  <2>2. LoopStays /\ rested' \in [Places -> BOOLEAN]
    BY <1>2 DEF CheckSpawn
  <2>3. Sound(World, {}, {})'
    BY <2>1, <2>2, TurnsSound DEF LoopStays
  <2>4. Loop'
    BY <1>1, <2>1, <2>2 DEF Loop, LoopStays
  <2> QED BY <2>1, <2>3, <2>4 DEF IInv
<1>3. ASSUME NEW p \in Places, Rest(p) PROVE IInv'
  <2>1. /\ UNCHANGED <<creature, toAdd, known, spawned, armed, blinking, convinced, doubled>> /\ LoopStays
        /\ rested' = [rested EXCEPT ![p] = TRUE]
    BY <1>3 DEF Rest
  <2>2. Turns
    BY <1>1, <2>1, WorldIs DEF Turns, Becomes
  <2>3. Moves
    BY <1>1, <2>1, WorldIs DEF Moves, Guards, Becomes
  <2>4. Sound(World, {}, {})'
    BY <2>1, <2>2, TurnsSound DEF LoopStays
  <2>5. Guarded(World)'
    <3>1. World \in Worlds
      BY <1>1 DEF Sound
    <3> QED BY <1>1, <2>1, <2>3, <3>1, MovesGuarded
  <2>6. Loop'
    BY <1>1, <2>1 DEF Loop, LoopStays
  <2> QED BY <2>4, <2>5, <2>6 DEF IInv
<1>4. ASSUME NEW p \in Places, NEW m \in Monsters, SpawnMonster(p, m) PROVE IInv'
  <2>1. Turns /\ Guarded(World)'
    BY <1>1, <1>4, SpawnMonsterTurns
  <2>2. LoopStays /\ blinking[p] > 0 /\ blinking' = [blinking EXCEPT ![p] = blinking[p] - 1]
        /\ (rested' = rested \/ rested' = [rested EXCEPT ![p] = FALSE])
        /\ UNCHANGED <<convinced, doubled>>
    BY <1>4 DEF SpawnMonster
  <2>3. Sound(World, {}, {})'
    BY <2>1, <2>2, TurnsSound DEF LoopStays
  <2>4. Loop'
    <3>1. blinking[p] - 1 \in Nat
      BY <1>1, <2>2
    <3>2. blinking' \in [Places -> Nat]
      BY <1>1, <2>2, <3>1
    <3> QED BY <1>1, <2>2, <3>2 DEF Loop, LoopStays
  <2> QED BY <2>1, <2>3, <2>4 DEF IInv
<1> QED BY <1>2, <1>3, <1>4 DEF Spawn

LEMMA StepKeeps ==
  ASSUME IInv, [Next]_vars
  PROVE  IInv'
<1>1. CASE Next
  BY <1>1, CheckKeeps, GameKeeps, SpawnKeeps DEF Next
<1>2. CASE UNCHANGED vars
  <2>1. UNCHANGED <<creature, toAdd, checks, last, at, known, spawned, blinking, rested, armed,
                    convinced, doubled>>
    BY <1>2 DEF vars
  <2>2. Sound(World, {}, {}) /\ Guarded(World) /\ Loop
    BY DEF IInv
  <2>3. Moves
    BY <2>1, <2>2, WorldIs DEF Moves, Guards, Becomes
  <2>4. Play
    BY <2>1 DEF Play, LoopStays, SpawnStays
  <2> QED BY <2>3, <2>4, PlayKeeps
<1> QED BY <1>1, <1>2

-----------------------------------------------------------------------------
(* At first                                                                  *)

\* SetToSeq lists every element once.
LEMMA SetToSeqIs ==
  ASSUME NEW S, IsFiniteSet(S)
  PROVE  /\ SetToSeq(S) \in Seq(S)
         /\ \A i, j \in DOMAIN SetToSeq(S) : SetToSeq(S)[i] = SetToSeq(S)[j] => i = j
         /\ \A c \in S : \E i \in DOMAIN SetToSeq(S) : SetToSeq(S)[i] = c
<1> DEFINE n == Cardinality(S)
           s == SetToSeq(S)
<1>1. n \in Nat /\ ExistsBijection(1 .. n, S)
  BY FS_CardinalityType
<1>2. \E f \in [1 .. n -> S] : IsInjective(f)
  BY <1>1 DEF ExistsBijection, Bijection, Injection
<1>3. s \in [1 .. n -> S] /\ IsInjective(s)
  BY <1>2 DEF SetToSeq
<1> HIDE DEF s
<1>4. s \in Injection(1 .. n, S)
  BY <1>3 DEF Injection
<1>5. Cardinality(1 .. n) = n
  BY <1>1, FS_Interval
<1>6. s \in Surjection(1 .. n, S)
  BY <1>4, <1>5, FS_Injection
<1>7. s \in Seq(S) /\ DOMAIN s = 1 .. n
  BY <1>1, <1>3
<1>8. \A c \in S : \E i \in DOMAIN s : s[i] = c
  BY <1>6, <1>7 DEF Surjection
<1>9. \A i, j \in DOMAIN s : s[i] = s[j] => i = j
  BY <1>3 DEF IsInjective
<1> QED BY <1>7, <1>8, <1>9 DEF s

\* The players who have logged in, and the monsters that wait in their places.
LoggedIn == [Nothing EXCEPT !.life = "game", !.checked = TRUE, !.vec = 0, !.refs = 3, !.client = TRUE]
Asleep(p) == [Nothing EXCEPT !.life = "game", !.refs = 2, !.place = p]

LEMMA FirstObjects ==
  /\ LoggedIn \in Objects /\ \A p \in Places : Asleep(p) \in Objects
  /\ LoggedIn.life = "game" /\ LoggedIn.alive = TRUE /\ LoggedIn.checked = TRUE
  /\ LoggedIn.vec = 0 /\ LoggedIn.refs = 3 /\ LoggedIn.freed = 0 /\ LoggedIn.client = TRUE
  /\ LoggedIn.master = NULL /\ LoggedIn.summons = {} /\ LoggedIn.place = NULL
  /\ \A p : /\ Asleep(p).life = "game" /\ Asleep(p).alive = TRUE /\ Asleep(p).checked = FALSE
            /\ Asleep(p).vec = -1 /\ Asleep(p).refs = 2 /\ Asleep(p).freed = 0
            /\ Asleep(p).client = FALSE /\ Asleep(p).master = NULL
            /\ Asleep(p).summons = {} /\ Asleep(p).place = p
<1> DEFINE a == [Nothing EXCEPT !.life = "game"]
           b == [a EXCEPT !.checked = TRUE]
           d == [b EXCEPT !.vec = 0]
           e == [d EXCEPT !.refs = 3]
           g == [a EXCEPT !.refs = 2]
<1>0. 0 \in Vectors
  BY CreaturesAssumption DEF CreaturesAssumption, Vectors
<1>1. a \in Objects
  BY NothingType DEF Objects
<1>2. b \in Objects /\ g \in Objects
  <2> HIDE DEF a
  <2>1. b \in Objects
    BY <1>1 DEF Objects
  <2>2. g \in Objects
    BY <1>1 DEF Objects
  <2> QED BY <2>1, <2>2
<1>3. d \in Objects
  <2> HIDE DEF b
  <2> QED BY <1>0, <1>2 DEF Objects
<1>4. e \in Objects
  <2>1. 3 \in Int
    OBVIOUS
  <2> HIDE DEF d
  <2> QED BY <1>3, <2>1 DEF Objects
<1>5. [e EXCEPT !.client = TRUE] \in Objects
  <2> HIDE DEF e
  <2> QED BY <1>4 DEF Objects
<1>6. \A p \in Places : [g EXCEPT !.place = p] \in Objects
  <2> HIDE DEF g
  <2> QED BY <1>2 DEF Objects
<1>7. LoggedIn \in Objects /\ \A p \in Places : Asleep(p) \in Objects
  BY <1>5, <1>6 DEF LoggedIn, Asleep
<1>8. /\ LoggedIn.life = "game" /\ LoggedIn.alive = TRUE /\ LoggedIn.checked = TRUE
      /\ LoggedIn.vec = 0 /\ LoggedIn.refs = 3 /\ LoggedIn.freed = 0 /\ LoggedIn.client = TRUE
      /\ LoggedIn.master = NULL /\ LoggedIn.summons = {} /\ LoggedIn.place = NULL
  BY DEF LoggedIn, Nothing
<1>9. \A p : /\ Asleep(p).life = "game" /\ Asleep(p).alive = TRUE /\ Asleep(p).checked = FALSE
             /\ Asleep(p).vec = -1 /\ Asleep(p).refs = 2 /\ Asleep(p).freed = 0
             /\ Asleep(p).client = FALSE /\ Asleep(p).master = NULL
             /\ Asleep(p).summons = {} /\ Asleep(p).place = p
  BY DEF Asleep, Nothing
<1> QED BY <1>7, <1>8, <1>9

\* What a creature is at first.
Begins(w, c) ==
  \/ c \in Players /\ w.cr[c] = LoggedIn /\ \A q \in Places : c \notin w.spawned[q]
  \/ /\ c \in Monsters
     /\ \E p \in Places : w.cr[c] = Asleep(p) /\ \A q \in Places : c \in w.spawned[q] <=> q = p
  \/ c \in Monsters /\ w.cr[c] = Nothing /\ \A q \in Places : c \notin w.spawned[q]

LEMMA InitBegins ==
  ASSUME Init
  PROVE  World \in Worlds /\ World.known = {} /\ \A c \in Creature : Begins(World, c)
<1>1. PICK first \in [Places -> Monsters] :
        /\ \A p, q \in Places : first[p] = first[q] => p = q
        /\ creature = [c \in Creature |->
             IF c \in Players THEN LoggedIn
             ELSE IF \E p \in Places : first[p] = c
             THEN Asleep(CHOOSE p \in Places : first[p] = c)
             ELSE Nothing]
        /\ spawned = [p \in Places |-> {first[p]}]
  BY DEF Init, LoggedIn, Asleep
<1>2. toAdd = <<>> /\ armed = FALSE /\ known = {}
  BY DEF Init
<1>3. Players \cap Monsters = {} /\ Creature = Monsters \cup Players
  BY CreaturesAssumption DEF CreaturesAssumption, Creature
<1>4. ASSUME NEW c \in Creature
      PROVE  creature[c] \in Objects /\ Begins(World, c)
  <2>0. /\ World.cr[c] = creature[c]
        /\ \A q \in Places : World.spawned[q] = {first[q]} /\ first[q] \in Monsters
    BY <1>1, WorldIs
  <2>1. CASE c \in Players
    <3>1. creature[c] = LoggedIn
      BY <1>1, <2>1
    <3>2. \A q \in Places : c \notin World.spawned[q]
      BY <1>3, <2>0, <2>1
    <3> QED BY <2>0, <2>1, <3>1, <3>2, FirstObjects DEF Begins
  <2>2. CASE c \notin Players /\ \E p \in Places : first[p] = c
    <3> DEFINE p == CHOOSE q \in Places : first[q] = c
    <3>1. p \in Places /\ first[p] = c
      BY <2>2
    <3>2. creature[c] = Asleep(p)
      BY <1>1, <2>2
    <3> HIDE DEF p
    <3>3. \A q \in Places : c \in World.spawned[q] <=> q = p
      BY <1>1, <2>0, <3>1
    <3> QED BY <1>3, <2>0, <2>2, <3>1, <3>2, <3>3, FirstObjects DEF Begins
  <2>3. CASE c \notin Players /\ ~\E p \in Places : first[p] = c
    <3>1. creature[c] = Nothing
      BY <1>1, <2>3
    <3>2. \A q \in Places : c \notin World.spawned[q]
      BY <2>0, <2>3
    <3> QED BY <1>3, <2>0, <2>3, <3>1, <3>2, NothingType DEF Begins
  <2> QED BY <2>1, <2>2, <2>3
<1>5. World \in Worlds
  <2>1. creature \in [Creature -> Objects]
    <3>1. creature = [c \in Creature |-> creature[c]]
      BY <1>1
    <3> QED BY <1>4, <3>1
  <2>2. spawned \in [Places -> SUBSET Monsters]
    BY <1>1
  <2>3. toAdd \in Seq(Creature) /\ armed \in BOOLEAN
    <3>1. <<>> \in Seq(Creature)
      OBVIOUS
    <3> QED BY <1>2, <3>1
  <2> QED BY <1>2, <2>1, <2>2, <2>3 DEF World, Worlds
<1> QED BY <1>2, <1>4, <1>5, WorldIs

LEMMA BeginsSound ==
  ASSUME NEW w \in Worlds, w.known = {}, \A c \in Creature : Begins(w, c)
  PROVE  Exact(w, {}) /\ Alert(w) /\ Linked(w) /\ Together(w, {}) /\ AtHome(w)
<1>1. ASSUME NEW c \in Creature
      PROVE  /\ w.cr[c].freed >= 0 /\ w.cr[c].refs = Held(w, c) + Count(c \in {})
             /\ w.cr[c].life = "none" => w.cr[c] = Nothing
             /\ w.cr[c].life # "none" => w.cr[c].refs > 0
             /\ w.cr[c].checked => InGame(w, c) /\ w.cr[c].vec >= 0
             /\ InGame(w, c) /\ (c \in Players \/ ~w.cr[c].alive) => w.cr[c].checked
             /\ w.cr[c].master = NULL /\ w.cr[c].summons = {}
             /\ \A p, q \in Places : c \in w.spawned[p] /\ c \in w.spawned[q] => p = q
             /\ \A p \in Places : InGame(w, c) => (w.cr[c].place = p <=> c \in w.spawned[p])
  <2>0. Monsters \cap Players = {} /\ Noted(w.known, c) = 0
    BY CreaturesAssumption, FS_EmptySet DEF CreaturesAssumption, Noted
  <2>1. CASE c \in Players /\ w.cr[c] = LoggedIn /\ \A q \in Places : c \notin w.spawned[q]
    <3>1. ~Housed(w, c)
      BY <2>1 DEF Housed
    <3>2. Held(w, c) = 3 /\ Count(c \in {}) = 0
      BY <2>0, <2>1, <3>1, FirstObjects DEF Held, Count, InGame
    <3> QED BY <2>1, <3>2, FirstObjects, NullIsNobody DEF InGame
  <2>2. CASE /\ c \in Monsters
             /\ \E p \in Places : w.cr[c] = Asleep(p) /\ \A q \in Places : c \in w.spawned[q] <=> q = p
    <3>1. PICK p \in Places : w.cr[c] = Asleep(p) /\ \A q \in Places : c \in w.spawned[q] <=> q = p
      BY <2>2
    <3>2. Housed(w, c)
      BY <3>1 DEF Housed
    <3>3. Held(w, c) = 2 /\ Count(c \in {}) = 0
      BY <2>0, <3>1, <3>2, FirstObjects DEF Held, Count, InGame
    <3> QED BY <2>0, <2>2, <3>1, <3>3, FirstObjects DEF InGame
  <2>3. CASE c \in Monsters /\ w.cr[c] = Nothing /\ \A q \in Places : c \notin w.spawned[q]
    <3>1. ~Housed(w, c)
      BY <2>3 DEF Housed
    <3>2. /\ Nothing.life = "none" /\ Nothing.alive = TRUE /\ Nothing.checked = FALSE
          /\ Nothing.vec = -1 /\ Nothing.refs = 0 /\ Nothing.freed = 0 /\ Nothing.client = FALSE
          /\ Nothing.master = NULL /\ Nothing.summons = {} /\ Nothing.place = NULL
      BY DEF Nothing
    <3>3. Held(w, c) = 0 /\ Count(c \in {}) = 0
      BY <2>0, <2>3, <3>1, <3>2 DEF Held, Count, InGame
    <3> QED BY <2>3, <3>2, <3>3 DEF InGame
  <2> QED BY <2>1, <2>2, <2>3 DEF Begins
<1>2. Exact(w, {}) /\ Alert(w)
  BY <1>1 DEF Exact, Alert
<1>3. Linked(w) /\ Together(w, {})
  BY <1>1, NullIsNobody DEF Linked, Together
<1>4. AtHome(w)
  BY <1>1 DEF AtHome
<1> QED BY <1>2, <1>3, <1>4

LEMMA InitSound ==
  ASSUME Init
  PROVE  IInv
<1> DEFINE w == World
<1>1. w \in Worlds /\ w.known = {} /\ \A c \in Creature : Begins(w, c)
  BY InitBegins
<1>2. w.toAdd = <<>> /\ w.spawned = spawned
  BY WorldIs DEF Init
<1> HIDE DEF w
<1>3. Exact(w, {}) /\ Alert(w) /\ Linked(w) /\ Together(w, {}) /\ AtHome(w)
  BY <1>1, BeginsSound
<1>4. VectorCount \in Nat \ {0} /\ Players \subseteq Creature /\ 0 \in Vectors
  BY CreaturesAssumption DEF CreaturesAssumption, Vectors, Creature
<1> DEFINE s == SetToSeq(Players)
<1>5. /\ s \in Seq(Players)
      /\ \A i, j \in DOMAIN s : s[i] = s[j] => i = j
      /\ \A c \in Players : \E i \in DOMAIN s : s[i] = c
  BY CreaturesAssumption, SetToSeqIs DEF CreaturesAssumption
<1>6. checks = [v \in Vectors |-> IF v = 0 THEN s ELSE <<>>]
  BY DEF Init
<1> HIDE DEF s
<1>7. \A i \in DOMAIN s : s[i] \in Players /\ s[i] \in Creature
  BY <1>4, <1>5
<1>8. \A c \in Creature : IF c \in Players THEN w.cr[c].vec = 0 ELSE w.cr[c].vec = -1
  <2>1. Monsters \cap Players = {} /\ Nothing.vec = -1
    BY CreaturesAssumption DEF CreaturesAssumption, Nothing
  <2> QED BY <1>1, <2>1, FirstObjects DEF Begins
<1>9. Listed(w)
  <2>1. checks \in [Vectors -> Seq(Creature)]
    <3>1. s \in Seq(Creature) /\ <<>> \in Seq(Creature)
      BY <1>4, <1>5
    <3> QED BY <1>6, <3>1
  <2>2. ASSUME NEW v \in Vectors, NEW i \in DOMAIN checks[v]
        PROVE  v = 0 /\ checks[v] = s /\ i \in DOMAIN s
    BY <1>6, <2>2
  <2>3. DOMAIN w.toAdd = {}
    BY <1>2
  <2>4. checks[0] = s
    BY <1>4, <1>6
  <2>5. \A v \in Vectors : \A i \in DOMAIN checks[v] :
          /\ w.cr[checks[v][i]].vec = v
          /\ \A j \in DOMAIN checks[v] : checks[v][i] = checks[v][j] => i = j
    BY <1>5, <1>7, <1>8, <2>2
  <2>6. \A c \in Creature : w.cr[c].vec >= 0 =>
          \E i \in DOMAIN checks[w.cr[c].vec] : checks[w.cr[c].vec][i] = c
    BY <1>5, <1>8, <2>4
  <2> QED BY <2>1, <2>3, <2>5, <2>6 DEF Listed
<1>10. Sound(w, {}, {})
  BY <1>1, <1>3, <1>9 DEF Sound, Noting
<1>11. Guarded(w)
  <2>1. PICK first \in [Places -> Monsters] :
          /\ \A p, q \in Places : first[p] = first[q] => p = q
          /\ spawned = [p \in Places |-> {first[p]}]
    BY DEF Init
  <2>2. blinking = [p \in Places |-> 0] /\ convinced = 0
    BY DEF Init
  <2>3. ASSUME NEW p \in Places
        PROVE  /\ w.spawned[p] = {first[p]} /\ first[p] \in Living(w)
               /\ Cardinality(w.spawned[p]) + blinking[p] <= 1
    <3>1. w.spawned[p] = {first[p]} /\ first[p] \in Monsters /\ first[p] \in Creature
      BY <1>2, <2>1 DEF Creature
    <3>2. Begins(w, first[p]) /\ first[p] \in w.spawned[p]
      BY <1>1, <3>1
    <3>3. InGame(w, first[p])
      BY <3>2, FirstObjects DEF Begins, InGame
    <3>4. Cardinality({first[p]}) = 1
      BY FS_Singleton
    <3> QED BY <2>2, <3>1, <3>2, <3>3, <3>4 DEF Living, Housed
  <2>4. Cardinality(Living(w)) + convinced >= Cardinality(Places)
    <3> DEFINE L == Living(w)
    <3>1. IsFiniteSet(L) /\ Cardinality(L) \in Nat
      BY <1>1, LivingAre
    <3>2. \A p \in Places : first[p] \in L
      BY <2>3
    <3> HIDE DEF L
    <3>3. first \in [Places -> L]
      BY <3>2
    <3>4. first \in Injection(Places, L)
      BY <2>1, <3>3 DEF Injection, IsInjective
    <3>5. Cardinality(Places) <= Cardinality(L)
      BY <3>1, <3>4, FS_Injection
    <3> QED BY <2>2, <3>1, <3>5, PlacesCount DEF L
  <2> QED BY <2>3, <2>4 DEF Guarded
<1>12. Loop
  BY <1>4 DEF Init, Loop
<1> QED BY <1>10, <1>11, <1>12 DEF IInv, w

LEMMA AlwaysSound == Spec => []IInv
BY InitSound, StepKeeps, PTL DEF Spec

-----------------------------------------------------------------------------
(* The theorems                                                              *)

\* A set with at most one element.
LEMMA AtMostOne ==
  ASSUME NEW S, \A a, b \in S : a = b
  PROVE  Cardinality(S) = Count(S # {})
<1>1. CASE S = {}
  BY <1>1, FS_EmptySet DEF Count
<1>2. CASE S # {}
  <2>1. PICK a \in S : S = {a}
    BY <1>2
  <2>2. Cardinality({a}) = 1
    BY FS_Singleton
  <2> QED BY <1>2, <2>1, <2>2 DEF Count
<1> QED BY <1>1, <1>2

\* Where a creature is listed.
LEMMA ListedOnce ==
  ASSUME World \in Worlds, Listed(World), NEW c \in Creature
  PROVE  /\ InToAdd(c) \in {0, 1}
         /\ \A v \in Vectors : InVector(c, v) \in Nat
         /\ \A v \in Vectors \ {creature[c].vec} : InVector(c, v) = 0
         /\ creature[c].vec \in {-1} \cup Vectors
         /\ creature[c].vec < 0 => InToAdd(c) = 0
         /\ creature[c].vec >= 0 => InToAdd(c) + InVector(c, creature[c].vec) = 1
<1> DEFINE A == {i \in DOMAIN toAdd : toAdd[i] = c}
           B(v) == {i \in DOMAIN checks[v] : checks[v][i] = c}
           u == creature[c].vec
<1>1. /\ \A i \in DOMAIN toAdd : creature[toAdd[i]].vec >= 0
      /\ \A i, j \in DOMAIN toAdd : toAdd[i] = toAdd[j] => i = j
      /\ \A v \in Vectors : \A i \in DOMAIN checks[v] :
           /\ creature[checks[v][i]].vec = v
           /\ \A j \in DOMAIN checks[v] : checks[v][i] = checks[v][j] => i = j
           /\ \A j \in DOMAIN toAdd : toAdd[j] # checks[v][i]
      /\ u >= 0 => \/ \E i \in DOMAIN toAdd : toAdd[i] = c
                   \/ \E i \in DOMAIN checks[u] : checks[u][i] = c
  BY WorldIs DEF Listed
<1>2. u \in {-1} \cup Vectors
  BY FieldsOf, WorldIs
<1>3. InToAdd(c) = Count(A # {})
  <2>1. \A i, j \in A : i = j
    BY <1>1
  <2>2. InToAdd(c) = Cardinality(A)
    BY DEF InToAdd
  <2> HIDE DEF A
  <2> QED BY <2>1, <2>2, AtMostOne
<1>4. ASSUME NEW v \in Vectors PROVE InVector(c, v) = Count(B(v) # {})
  <2>1. \A i, j \in B(v) : i = j
    BY <1>1
  <2>2. InVector(c, v) = Cardinality(B(v))
    BY DEF InVector
  <2> HIDE DEF B
  <2> QED BY <2>1, <2>2, AtMostOne
<1>5. \A v \in Vectors : v # u => B(v) = {}
  BY <1>1
<1>6. u < 0 => A = {}
  BY <1>1, <1>2 DEF Vectors
<1>7. u >= 0 => u \in Vectors /\ (A # {} <=> B(u) = {})
  BY <1>1, <1>2
<1> HIDE DEF A, B, u
<1>8. InToAdd(c) \in {0, 1} /\ \A v \in Vectors : InVector(c, v) \in Nat
  BY <1>3, <1>4 DEF Count
<1>9. \A v \in Vectors : v # u => InVector(c, v) = 0
  BY <1>4, <1>5 DEF Count
<1>10. u < 0 => InToAdd(c) = 0
  BY <1>3, <1>6 DEF Count
<1>11. u >= 0 => InToAdd(c) + InVector(c, u) = 1
  BY <1>3, <1>4, <1>7 DEF Count
<1> QED BY <1>2, <1>8, <1>9, <1>10, <1>11 DEF u

LEMMA VectorSum ==
  ASSUME World \in Worlds, Listed(World), NEW c \in Creature
  PROVE  FoldSet(LAMBDA v, n : n + InVector(c, v), 0, Vectors)
           = IF creature[c].vec < 0 THEN 0 ELSE InVector(c, creature[c].vec)
<1> DEFINE S == Vectors
           u == creature[c].vec
           step == [p \in S \X Nat |-> p[2] + InVector(c, p[1])]
           G(f, s) == IF s = {} THEN 0 ELSE f[s \ {Chosen(s)}] + InVector(c, Chosen(s))
           Eq(f) == f = [s \in SUBSET S |-> G(f, s)]
           Good(n, s) == n = IF u \in s THEN InVector(c, u) ELSE 0
<1>1. /\ \A v \in S : InVector(c, v) \in Nat
      /\ \A v \in S : v # u => InVector(c, v) = 0
      /\ u \in {-1} \cup S
  BY ListedOnce
<1>2. IsFiniteSet(S)
  <2>1. VectorCount - 1 \in Int /\ 0 \in Int
    BY CreaturesAssumption DEF CreaturesAssumption
  <2> QED BY <2>1, FS_Interval DEF Vectors
<1>3. PICK f \in [SUBSET S -> Nat] : Folds(f, S, 0, step)
  <2>1. step \in [S \X Nat -> Nat]
    BY <1>1
  <2>2. 0 \in Nat
    OBVIOUS
  <2> HIDE DEF step, S
  <2> QED BY <1>2, <2>1, <2>2, FoldSolvable
<1>4. Eq(f)
  <2>1. f = [s \in SUBSET S |-> IF s = {} THEN 0 ELSE step[<<Chosen(s), f[s \ {Chosen(s)}]>>]]
    BY <1>3 DEF Folds
  <2>2. ASSUME NEW s \in SUBSET S, s # {}
        PROVE  step[<<Chosen(s), f[s \ {Chosen(s)}]>>] = f[s \ {Chosen(s)}] + InVector(c, Chosen(s))
    <3>1. Chosen(s) \in S /\ f[s \ {Chosen(s)}] \in Nat
      BY <2>2 DEF Chosen
    <3> QED BY <3>1
  <2> HIDE DEF step, S
  <2> QED BY <2>1, <2>2
<1>5. FoldSet(LAMBDA v, n : n + InVector(c, v), 0, S) = (CHOOSE g : Eq(g))[S]
  BY DEF FoldSet, MapThenFoldSet, Chosen
<1> DEFINE g == CHOOSE g : Eq(g)
<1>6. Eq(g)
  <2> HIDE DEF Eq
  <2> QED BY <1>4
<1> HIDE DEF S
<1>7. g[{}] = 0 /\ \A s \in SUBSET S : s # {} => g[s] = g[s \ {Chosen(s)}] + InVector(c, Chosen(s))
  BY <1>6
<1>8. \A s \in SUBSET S : s # {} => Chosen(s) \in s
  BY DEF Chosen
<1> DEFINE T == {s \in SUBSET S : Good(g[s], s)}
<1> HIDE DEF g, u
<1>9. {} \in T
  BY <1>7
<1>10. ASSUME NEW s \in SUBSET S, s # {} PROVE \E v \in s : s \ {v} \in T => s \in T
  <2> DEFINE v == Chosen(s)
  <2>1. v \in s /\ v \in S /\ InVector(c, v) \in Nat /\ (v # u => InVector(c, v) = 0)
    BY <1>1, <1>8, <1>10
  <2>2. g[s] = g[s \ {v}] + InVector(c, v)
    BY <1>7, <1>10
  <2> HIDE DEF v
  <2>3. ASSUME Good(g[s \ {v}], s \ {v}) PROVE Good(g[s], s)
    <3>1. CASE v = u
      BY <2>1, <2>2, <2>3, <3>1
    <3>2. CASE v # u
      <4>1. InVector(c, v) = 0 /\ (u \in s <=> u \in s \ {v})
        BY <2>1, <3>2
      <4>2. g[s \ {v}] \in Int
        BY <1>1, <2>1, <2>3
      <4> QED BY <2>2, <2>3, <4>1, <4>2
    <3> QED BY <3>1, <3>2
  <2> QED BY <2>1, <2>3
<1>11. S \in T
  <2> HIDE DEF T, Good, S
  <2>1. \A s \in SUBSET S : s # {} => \E v \in s : s \ {v} \in T => s \in T
    BY <1>10
  <2>2. {} \in T /\ IsFiniteSet(S)
    BY <1>2, <1>9
  <2>3. SUBSET S \subseteq T
    BY <2>1, <2>2, SubsetInduction, SMTT(30)
  <2> QED BY <2>3
<1>12. g[S] = IF u < 0 THEN 0 ELSE InVector(c, u)
  <2>1. u \in S <=> ~(u < 0)
    BY <1>1 DEF S, Vectors
  <2> QED BY <1>11, <2>1
<1> QED BY <1>5, <1>12 DEF g, u, S

\* Everything the creatures are made of has its type.
THEOREM WellTyped == Spec => []TypeOK
<1>1. ASSUME IInv PROVE TypeOK
  <2>1. World \in Worlds /\ Exact(World, {}) /\ Listed(World) /\ Loop
    BY <1>1 DEF IInv, Sound
  <2>2. ASSUME NEW c \in Creature
        PROVE  creature[c].refs \in Nat /\ creature[c].freed \in Nat
    <3>1. /\ creature[c].freed >= 0 /\ creature[c].freed \in Int /\ creature[c].refs \in Int
          /\ creature[c].life = "none" => creature[c] = Nothing
          /\ creature[c].life # "none" => creature[c].refs > 0
      BY <2>1, FieldsOf, WorldIs DEF Exact
    <3>2. Nothing.refs = 0
      BY DEF Nothing
    <3> QED BY <3>1, <3>2
  <2> DEFINE Typed ==
        [life : {"none", "game", "removed"}, alive : BOOLEAN, checked : BOOLEAN,
         vec : {-1} \cup Vectors, refs : Nat, freed : Nat, client : BOOLEAN,
         master : Creature \cup {NULL}, summons : SUBSET Monsters, place : Places \cup {NULL}]
  <2>3. ASSUME NEW c \in Creature PROVE creature[c] \in Typed
    <3>1. creature[c] \in Objects
      BY <2>1, ObjectsOf, WorldIs
    <3> QED BY <2>2, <3>1 DEF Objects
  <2>4. creature = [c \in Creature |-> creature[c]]
    BY <2>1, WorldIs DEF Worlds
  <2>5. creature \in [Creature -> Typed]
    <3> HIDE DEF Typed
    <3> QED BY <2>3, <2>4
  <2>7. known \subseteq Monsters \X Lists \X Creature
    BY <2>1, WorldIs DEF Worlds
  <2>6. toAdd \in Seq(Creature) /\ spawned \in [Places -> SUBSET Monsters] /\ armed \in BOOLEAN
    BY <2>1, WorldIs DEF Worlds
  <2> QED BY <2>1, <2>5, <2>6, <2>7 DEF TypeOK, Listed, Loop
<1> QED BY <1>1, AlwaysSound, PTL

\* A creature without health is still checked, so that its death comes
\* (changeHealth, setIdle, destroySummons).
THEOREM DeathsComeDue == Spec => []TheDyingAreChecked
<1>1. ASSUME IInv PROVE TheDyingAreChecked
  <2>1. Alert(World)
    BY <1>1 DEF IInv, Sound
  <2> QED BY <2>1, WorldIs DEF Alert, TheDyingAreChecked
<1> QED BY <1>1, AlwaysSound, PTL

\* Nothing points to a creature that was deleted, and summons and their masters
\* are in the game together and know each other (~Creature, removeCreature).
THEOREM DeletedAreForgotten == Spec => []NothingDangles
<1>1. ASSUME IInv PROVE NothingDangles
  <2>1. /\ World \in Worlds /\ Linked(World) /\ Together(World, {}) /\ Listed(World)
        /\ Sound(World, {}, {})
    BY <1>1 DEF IInv, Sound
  <2>2. ASSUME NEW c \in Creature, creature[c].life = "none"
        PROVE  /\ creature[c] = Nothing
               /\ \A d \in Creature : creature[d].master # c /\ c \notin creature[d].summons
               /\ \A p \in Places : c \notin spawned[p]
               /\ \A n \in known : n[1] # c /\ n[3] # c
               /\ \A i \in DOMAIN toAdd : toAdd[i] # c
               /\ \A v \in Vectors : \A i \in DOMAIN checks[v] : checks[v][i] # c
    <3>1. /\ creature[c] = Nothing /\ ~Housed(World, c)
          /\ \A d \in Creature : creature[d].master # c /\ c \notin creature[d].summons
          /\ \A n \in known : n[1] # c /\ n[3] # c
      BY <2>1, <2>2, NobodyHas, WorldIs
    <3>2. creature[c].vec = -1
      BY <3>1 DEF Nothing
    <3>3. \A i \in DOMAIN toAdd : toAdd[i] # c
      BY <2>1, <3>2, WorldIs DEF Listed
    <3>4. \A v \in Vectors : \A i \in DOMAIN checks[v] : checks[v][i] # c
      BY <2>1, <3>2, WorldIs DEF Listed, Vectors
    <3>5. \A p \in Places : c \notin spawned[p]
      BY <3>1, WorldIs DEF Housed
    <3> QED BY <3>1, <3>3, <3>4, <3>5
  <2>3. ASSUME NEW m \in Monsters, InGame(World, m), creature[m].master # NULL
        PROVE  m \in creature[creature[m].master].summons /\ InGame(World, creature[m].master)
    <3>1. m \in Creature /\ creature[m].master \in Creature
      <4>1. m \in Creature
        BY DEF Creature
      <4>2. World.cr[m].master \in Creature \cup {NULL}
        BY <2>1, <4>1, FieldsOf
      <4> QED BY <2>3, <4>1, <4>2, WorldIs
    <3>2. m \in creature[creature[m].master].summons
      BY <2>1, <3>1, WorldIs DEF Linked
    <3>3. InGame(World, creature[m].master)
      BY <2>1, <2>3, <3>1, WorldIs DEF Together
    <3> QED BY <3>2, <3>3
  <2> QED BY <2>2, <2>3 DEF NothingDangles
<1> QED BY <1>1, AlwaysSound, PTL

\* checkVector tells where a creature is listed, and it is listed there once
\* (addCreatureCheck and checkCreatures).
THEOREM EveryoneListedOnce == Spec => []VectorsAgree
<1>1. ASSUME IInv PROVE VectorsAgree
  <2>1. World \in Worlds /\ Listed(World)
    BY <1>1 DEF IInv, Sound
  <2> SUFFICES ASSUME NEW c \in Creature
      PROVE  /\ \A v \in Vectors \ {creature[c].vec} : InVector(c, v) = 0
             /\ InToAdd(c) + (IF creature[c].vec < 0 THEN 0 ELSE InVector(c, creature[c].vec))
                  = Count(creature[c].vec >= 0)
    BY DEF VectorsAgree
  <2>2. /\ InToAdd(c) \in {0, 1}
        /\ \A v \in Vectors \ {creature[c].vec} : InVector(c, v) = 0
        /\ creature[c].vec \in {-1} \cup Vectors
        /\ creature[c].vec < 0 => InToAdd(c) = 0
        /\ creature[c].vec >= 0 => InToAdd(c) + InVector(c, creature[c].vec) = 1
    BY <2>1, ListedOnce
  <2>3. creature[c].vec \in Int
    BY <2>2 DEF Vectors
  <2> QED BY <2>2, <2>3 DEF Count
<1> QED BY <1>1, AlwaysSound, PTL

\* refCount is the number of pointers that own a reference, those in the target and
\* friend lists of monsters included (Thing::addRef and unRef, ~Monster, ~Creature).
THEOREM ReferencesAreCounted == Spec => []RefsAreExact
<1>1. ASSUME IInv PROVE RefsAreExact
  <2>1. /\ World \in Worlds /\ Exact(World, {}) /\ Linked(World) /\ AtHome(World) /\ Listed(World)
    BY <1>1 DEF IInv, Sound
  <2> SUFFICES ASSUME NEW c \in Creature, creature[c].life # "none"
      PROVE  /\ creature[c].refs > 0
             /\ creature[c].refs = Count(InGame(World, c)) + creature[c].freed
                  + InToAdd(c) + FoldSet(LAMBDA v, n : n + InVector(c, v), 0, Vectors)
                  + Count(creature[c].client)
                  + Cardinality({d \in Creature : c \in creature[d].summons})
                  + Cardinality({p \in Places : c \in spawned[p]})
                  + Cardinality({e \in known : e[3] = c})
    BY DEF RefsAreExact
  <2> DEFINE D == {d \in Creature : c \in creature[d].summons}
             P == {p \in Places : c \in spawned[p]}
             n == FoldSet(LAMBDA v, k : k + InVector(c, v), 0, Vectors)
  <2>2. creature[c].refs > 0 /\ creature[c].refs = Held(World, c) + Count(c \in {})
    BY <2>1, WorldIs DEF Exact
  <2>3. InToAdd(c) + n = Count(creature[c].vec >= 0) /\ InToAdd(c) \in Int /\ n \in Int
    <3>1. n = IF creature[c].vec < 0 THEN 0 ELSE InVector(c, creature[c].vec)
      BY <2>1, VectorSum
    <3> HIDE DEF n
    <3>2. /\ InToAdd(c) \in {0, 1}
          /\ \A v \in Vectors : InVector(c, v) \in Nat
          /\ creature[c].vec \in {-1} \cup Vectors
          /\ creature[c].vec < 0 => InToAdd(c) = 0
          /\ creature[c].vec >= 0 => InToAdd(c) + InVector(c, creature[c].vec) = 1
      BY <2>1, ListedOnce
    <3>3. creature[c].vec \in Int /\ (creature[c].vec \in Vectors => creature[c].vec >= 0)
      BY <3>2, CreaturesAssumption DEF Vectors, CreaturesAssumption
    <3>4. CASE creature[c].vec < 0
      BY <3>1, <3>2, <3>3, <3>4 DEF Count
    <3>5. CASE creature[c].vec >= 0
      <4>1. creature[c].vec \in Vectors
        BY <3>2, <3>5
      <4>2. ~(creature[c].vec < 0)
        BY <3>3, <3>5
      <4>3. n = InVector(c, creature[c].vec)
        BY <3>1, <4>2
      <4> QED BY <3>2, <3>5, <4>1, <4>3 DEF Count
    <3> QED BY <3>3, <3>4, <3>5
  <2>4. Cardinality(D) = Count(creature[c].master # NULL)
    <3>1. \A d \in Creature : d \in D <=> creature[c].master = d
      BY <2>1, WorldIs DEF Linked
    <3>2. creature[c].master \in Creature \cup {NULL} /\ NULL \notin Creature
      BY <2>1, FieldsOf, WorldIs, NullIsNobody
    <3>3. (\A a, b \in D : a = b) /\ (D # {} <=> creature[c].master # NULL)
      BY <3>1, <3>2
    <3>4. Cardinality(D) = Count(D # {})
      <4> HIDE DEF D
      <4> QED BY <3>3, AtMostOne
    <3> QED BY <3>3, <3>4 DEF Count
  <2>5. Cardinality(P) = Count(Housed(World, c))
    <3>1. (\A a, b \in P : a = b) /\ (P # {} <=> Housed(World, c))
      BY <2>1, WorldIs DEF AtHome, Housed
    <3>2. Cardinality(P) = Count(P # {})
      <4> HIDE DEF P
      <4> QED BY <3>1, AtMostOne
    <3> QED BY <3>1, <3>2 DEF Count
  <2> HIDE DEF D, P, n
  <2>6. creature[c].freed \in Int /\ (\A B : Count(B) \in Int) /\ Count(c \in {}) = 0
    BY <2>1, FieldsOf, WorldIs DEF Count
  <2>9. Noted(known, c) \in Nat
    BY <2>1, NotedType, WorldIs
  <2>7. Held(World, c) =
          Count(InGame(World, c)) + creature[c].freed + Count(creature[c].vec >= 0)
            + Count(creature[c].client) + Count(creature[c].master # NULL) + Count(Housed(World, c))
            + Noted(known, c)
    BY WorldIs DEF Held
  <2>8. creature[c].refs = Count(InGame(World, c)) + creature[c].freed + InToAdd(c) + n
          + Count(creature[c].client) + Cardinality(D) + Cardinality(P) + Noted(known, c)
    BY <2>2, <2>3, <2>4, <2>5, <2>6, <2>7, <2>9
  <2> QED BY <2>2, <2>8 DEF D, P, n, Noted
<1> QED BY <1>1, AlwaysSound, PTL

\* A spawn that no check is to come for has as many living monsters as places, but
\* for those convinced since its last one; and a place gets a second monster only
\* when a check came while another one blinked there (checkSpawn, spawnMonster,
\* startEvent and removeMonster).
THEOREM PlacesStayKept == Spec => []PlacesAreKept
<1>1. ASSUME IInv PROVE PlacesAreKept
  <2>1. Guarded(World)
    BY <1>1 DEF IInv
  <2>2. Living(World) = {m \in Monsters : Alive(m)}
    BY WorldIs DEF Living, Alive, Housed
  <2> QED BY <2>1, <2>2, WorldIs DEF Guarded, PlacesAreKept, DisarmedIsFull, FilledOnce
<1> QED BY <1>1, AlwaysSound, PTL
=============================================================================
