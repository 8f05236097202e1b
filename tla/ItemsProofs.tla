----------------------------- MODULE ItemsProofs -----------------------------
(***************************************************************************)
(* Proofs about Items, for any items, slots, capacities and stack size:    *)
(* the lists, the parents and the cached weights go on telling the same,   *)
(* no move makes or loses a coin, and what was given is there.             *)
(*                                                                         *)
(* The methods of the cylinders take a world to a world, and so do the     *)
(* lemmas about them.  The sums are those of SumFunctionOnSet, of which    *)
(* the first part shows that they can be taken in any order.               *)
(***************************************************************************)
EXTENDS Items, FiniteSetTheorems, SequenceTheorems, WellFoundedInduction, TLAPS

-----------------------------------------------------------------------------
(* Induction                                                                 *)

\* Every set of numbers has a least one.
LEMMA LeastNumber ==
  ASSUME NEW T \in SUBSET Nat, T # {}
  PROVE  \E x \in T : \A y \in T : x <= y
<1> DEFINE R == {ss \in Nat \X Nat : ss[1] < ss[2]}
<1>1. IsWellFoundedOn(R, Nat)
  BY NatLessThanWellFounded DEF OpToRel
<1>2. PICK x \in T : \A y \in T : <<y, x>> \notin R
  <2> HIDE DEF R
  <2> QED BY <1>1, WFMin
<1>3. ASSUME NEW y \in T, y < x PROVE FALSE
  <2>1. <<y, x>> \in Nat \X Nat /\ <<y, x>>[1] = y /\ <<y, x>>[2] = x
    OBVIOUS
  <2> QED BY <2>1, <1>2, <1>3
<1> QED BY <1>3

\* A set that holds 0 and is closed under successor holds every number.
LEMMA NatBySuccessor ==
  ASSUME NEW T, 0 \in T, \A n \in Nat : n \in T => n + 1 \in T
  PROVE  Nat \subseteq T
<1> DEFINE R == {n \in Nat : n \notin T}
<1>1. SUFFICES ASSUME R # {} PROVE FALSE
  OBVIOUS
<1>2. PICK x \in R : \A y \in R : x <= y
  BY <1>1, LeastNumber
<1>3. x # 0 /\ x - 1 \in Nat /\ x - 1 \in T
  BY <1>2
<1> QED BY <1>3

\* T holds every part of S of which it holds all parts with one less.
Inductive(T, S) == \A s \in SUBSET S : (\A c \in s : s \ {c} \in T) => s \in T

LEMMA SubsetInduction ==
  ASSUME NEW S, IsFiniteSet(S), NEW T, Inductive(T, S)
  PROVE  SUBSET S \subseteq T
<1> DEFINE N == {n \in Nat : \A s \in SUBSET S : Cardinality(s) = n => s \in T}
<1>1. \A s \in SUBSET S : IsFiniteSet(s) /\ Cardinality(s) \in Nat
  BY FS_Subset, FS_CardinalityType
<1>2. 0 \in N
  <2>1. ASSUME NEW s \in SUBSET S, Cardinality(s) = 0 PROVE s \in T
    <3>1. s = {}
      BY <1>1, <2>1, FS_EmptySet
    <3>2. \A c \in s : s \ {c} \in T
      BY <3>1
    <3> QED BY <3>2 DEF Inductive
  <2> QED BY <2>1
<1>3. ASSUME NEW n \in Nat, n \in N PROVE n + 1 \in N
  <2> SUFFICES ASSUME NEW s \in SUBSET S, Cardinality(s) = n + 1 PROVE s \in T
    OBVIOUS
  <2>1. ASSUME NEW c \in s PROVE s \ {c} \in T
    <3>1. IsFiniteSet(s) /\ s \ {c} \in SUBSET S
      BY <1>1
    <3>2. Cardinality(s \ {c}) = Cardinality(s) - 1
      BY <3>1, FS_RemoveElement
    <3>3. Cardinality(s \ {c}) = n
      BY <3>2, n + 1 - 1 = n
    <3> QED BY <1>3, <3>1, <3>3
  <2> QED BY <2>1 DEF Inductive
<1>4. Nat \subseteq N
  <2> HIDE DEF N
  <2> QED BY <1>2, <1>3, NatBySuccessor
<1> QED BY <1>1, <1>4

-----------------------------------------------------------------------------
(* Sums                                                                      *)

Chosen(s) == CHOOSE c \in s : TRUE

\* The equation of the recursive function behind SumFunctionOnSet.
ByChoice(f, S, h) ==
  f = [s \in SUBSET S |-> IF s = {} THEN 0 ELSE h[Chosen(s)] + f[s \ {Chosen(s)}]]

LEMMA ByChoiceSolvable ==
  ASSUME NEW S, IsFiniteSet(S), NEW h, \A x \in S : h[x] \in Int
  PROVE  \E f \in [SUBSET S -> Int] : ByChoice(f, S, h)
<1> DEFINE Small(n) == {s \in SUBSET S : Cardinality(s) <= n}
           Following(f, s) == IF s = {} THEN 0 ELSE h[Chosen(s)] + f[s \ {Chosen(s)}]
           Solved(f, n) == \A s \in Small(n) : f[s] = Following(f, s)
           N == {n \in Nat : \E f \in [SUBSET S -> Int] : Solved(f, n)}
<1>1. \A s \in SUBSET S : IsFiniteSet(s) /\ Cardinality(s) \in Nat
  BY FS_Subset, FS_CardinalityType
<1>2. ASSUME NEW s \in SUBSET S, s # {}
      PROVE  /\ Chosen(s) \in s /\ s \ {Chosen(s)} \in SUBSET S
             /\ Cardinality(s \ {Chosen(s)}) = Cardinality(s) - 1
  <2>1. Chosen(s) \in s
    BY <1>2 DEF Chosen
  <2> QED BY <1>1, <2>1, FS_RemoveElement
<1>3. ASSUME NEW f \in [SUBSET S -> Int], NEW s \in SUBSET S PROVE Following(f, s) \in Int
  BY <1>2
<1>4. 0 \in N
  <2> DEFINE f == [s \in SUBSET S |-> 0]
  <2>1. f \in [SUBSET S -> Int]
    OBVIOUS
  <2>2. \A s \in Small(0) : s = {}
    BY <1>1, FS_EmptySet
  <2>3. Solved(f, 0)
    BY <2>2
  <2> QED BY <2>1, <2>3
<1>5. ASSUME NEW n \in Nat, n \in N PROVE n + 1 \in N
  <2>1. PICK f \in [SUBSET S -> Int] : Solved(f, n)
    BY <1>5
  <2> DEFINE g == [s \in SUBSET S |-> IF Cardinality(s) <= n THEN f[s] ELSE Following(f, s)]
  <2>2. g \in [SUBSET S -> Int]
    <3> HIDE DEF Following
    <3> QED BY <1>3
  <2>3. ASSUME NEW s \in Small(n + 1) PROVE g[s] = Following(g, s)
    <3>1. CASE s = {}
      <4>1. Cardinality(s) <= n
        BY <3>1, FS_EmptySet
      <4> QED BY <4>1, <3>1, <2>1
    <3>2. CASE s # {}
      <4>1. /\ s \ {Chosen(s)} \in SUBSET S /\ Cardinality(s \ {Chosen(s)}) <= n
            /\ Chosen(s) \in S
        BY <1>1, <1>2, <3>2
      <4>2. g[s \ {Chosen(s)}] = f[s \ {Chosen(s)}]
        BY <4>1
      <4>3. Following(g, s) = Following(f, s)
        BY <4>2
      <4>4. Cardinality(s) <= n => f[s] = Following(f, s)
        BY <2>1
      <4> HIDE DEF Following
      <4> QED BY <4>3, <4>4
    <3> QED BY <3>1, <3>2
  <2> HIDE DEF g, Following
  <2> QED BY <2>2, <2>3
<1>6. Nat \subseteq N
  <2> HIDE DEF N
  <2> QED BY <1>4, <1>5, NatBySuccessor
<1>7. PICK f \in [SUBSET S -> Int] : Solved(f, Cardinality(S))
  BY <1>6, FS_CardinalityType
<1>8. \A s \in SUBSET S : Cardinality(s) <= Cardinality(S)
  BY FS_Subset
<1>9. f = [s \in SUBSET S |-> f[s]]
  OBVIOUS
<1>10. \A s \in SUBSET S : f[s] = Following(f, s)
  BY <1>7, <1>8
<1>11. f = [s \in SUBSET S |-> Following(f, s)]
  <2> HIDE DEF Following
  <2> QED BY <1>9, <1>10
<1> QED BY <1>11 DEF ByChoice

\* f gives the sum of h over every subset of S, whichever element is taken last.
Adds(f, S, h) ==
  /\ f \in [SUBSET S -> Int]
  /\ f[{}] = 0
  /\ \A s \in SUBSET S : \A c \in s : f[s] = f[s \ {c}] + h[c]

LEMMA AnyOrder ==
  ASSUME NEW S, IsFiniteSet(S), NEW h, \A x \in S : h[x] \in Int,
         NEW f \in [SUBSET S -> Int], ByChoice(f, S, h)
  PROVE  Adds(f, S, h)
<1> DEFINE Good(s) == \A c \in s : f[s] = f[s \ {c}] + h[c]
           T == {s \in SUBSET S : Good(s)}
<1>1. f[{}] = 0 /\ \A s \in SUBSET S : s # {} => f[s] = h[Chosen(s)] + f[s \ {Chosen(s)}]
  BY DEF ByChoice
<1>2. ASSUME NEW s \in SUBSET S, \A c \in s : s \ {c} \in T PROVE s \in T
  <2> SUFFICES ASSUME NEW c \in s PROVE f[s] = f[s \ {c}] + h[c]
    OBVIOUS
  <2> DEFINE x == Chosen(s)
  <2>1. x \in s
    BY DEF Chosen
  <2>2. f[s] = h[x] + f[s \ {x}]
    BY <1>1
  <2> HIDE DEF x
  <2>3. CASE c = x
    <3>1. f[s \ {x}] \in Int /\ h[x] \in Int
      BY <2>1
    <3> QED BY <2>2, <2>3, <3>1
  <2>4. CASE c # x
    <3>1. f[s \ {x}] = f[(s \ {x}) \ {c}] + h[c]
      BY <1>2, <2>1, <2>4
    <3>2. f[s \ {c}] = f[(s \ {c}) \ {x}] + h[x]
      BY <1>2, <2>1, <2>4
    <3> DEFINE r == f[(s \ {x}) \ {c}]
    <3>3. (s \ {c}) \ {x} = (s \ {x}) \ {c} /\ (s \ {x}) \ {c} \in SUBSET S
      OBVIOUS
    <3>4. r \in Int /\ h[x] \in Int /\ h[c] \in Int
      BY <2>1, <3>3
    <3>5. f[s \ {x}] = r + h[c] /\ f[s \ {c}] = r + h[x]
      BY <3>1, <3>2, <3>3
    <3> HIDE DEF r
    <3>6. f[s] = h[x] + (r + h[c])
      BY <2>2, <3>5
    <3>7. f[s \ {c}] + h[c] = (r + h[x]) + h[c]
      BY <3>5
    <3> QED BY <3>4, <3>6, <3>7
  <2> QED BY <2>3, <2>4
<1>3. SUBSET S \subseteq T
  <2> HIDE DEF T
  <2>1. Inductive(T, S)
    BY <1>2 DEF Inductive
  <2>2. IsFiniteSet(S)
    OBVIOUS
  <2> QED BY <2>1, <2>2, SubsetInduction
<1> QED BY <1>1, <1>3 DEF Adds

\* SumFunctionOnSet is such a sum.
LEMMA SumAdds ==
  ASSUME NEW S, IsFiniteSet(S), NEW h, \A x \in S : h[x] \in Int
  PROVE  \E f : Adds(f, S, h) /\ SumFunctionOnSet(h, S) = f[S]
<1>1. PICK e \in [SUBSET S -> Int] : ByChoice(e, S, h)
  BY ByChoiceSolvable
<1> DEFINE f == CHOOSE f : ByChoice(f, S, h)
<1>2. ByChoice(f, S, h)
  BY <1>1
<1>3. SumFunctionOnSet(h, S) = f[S]
  BY DEF SumFunctionOnSet, FoldFunctionOnSet, MapThenFoldSet, ByChoice, Chosen
<1> HIDE DEF f
<1>4. f \in [SUBSET S -> Int]
  <2> DEFINE T == {s \in SUBSET S : f[s] \in Int}
  <2>1. /\ DOMAIN f = SUBSET S /\ f[{}] = 0
        /\ \A s \in SUBSET S : s # {} => f[s] = h[Chosen(s)] + f[s \ {Chosen(s)}]
    BY <1>2 DEF ByChoice
  <2>2. ASSUME NEW s \in SUBSET S, \A c \in s : s \ {c} \in T PROVE s \in T
    <3>1. s # {} => Chosen(s) \in s
      BY DEF Chosen
    <3>2. CASE s = {}
      BY <2>1, <3>2
    <3>3. CASE s # {}
      <4>1. h[Chosen(s)] \in Int /\ f[s \ {Chosen(s)}] \in Int
        BY <2>2, <3>1, <3>3
      <4> QED BY <2>1, <3>3, <4>1
    <3> QED BY <3>2, <3>3
  <2>3. SUBSET S \subseteq T
    <3> HIDE DEF T
    <3>1. Inductive(T, S)
      BY <2>2 DEF Inductive
    <3>2. IsFiniteSet(S)
      OBVIOUS
    <3> QED BY <3>1, <3>2, SubsetInduction
  <2>4. f = [s \in SUBSET S |-> f[s]]
    BY <1>2 DEF ByChoice
  <2> QED BY <2>3, <2>4
<1>5. Adds(f, S, h)
  BY <1>2, <1>4, AnyOrder
<1> QED BY <1>3, <1>5

\* A sum of greater numbers is greater.
LEMMA AddsMore ==
  ASSUME NEW S, IsFiniteSet(S), NEW h, NEW k, NEW f, NEW g,
         \A x \in S : h[x] \in Int /\ k[x] \in Int,
         Adds(f, S, h), Adds(g, S, k), NEW U \in SUBSET S, \A x \in U : h[x] <= k[x]
  PROVE  f[U] <= g[U]
<1> DEFINE T == {s \in SUBSET U : f[s] <= g[s]}
<1>0. IsFiniteSet(U)
  BY FS_Subset
<1>1. ASSUME NEW s \in SUBSET U, \A c \in s : s \ {c} \in T PROVE s \in T
  <2>1. CASE s = {}
    BY <2>1 DEF Adds
  <2>2. CASE s # {}
    <3>1. PICK c \in s : TRUE
      BY <2>2
    <3>2. s \in SUBSET S /\ s \ {c} \in SUBSET S /\ c \in U /\ c \in S
      OBVIOUS
    <3>3. f[s] = f[s \ {c}] + h[c] /\ g[s] = g[s \ {c}] + k[c]
      BY <3>2 DEF Adds
    <3>4. f[s \ {c}] \in Int /\ g[s \ {c}] \in Int /\ h[c] \in Int /\ k[c] \in Int
      BY <3>2 DEF Adds
    <3>5. f[s \ {c}] <= g[s \ {c}] /\ h[c] <= k[c]
      BY <1>1, <3>2
    <3> QED BY <3>3, <3>4, <3>5
  <2> QED BY <2>1, <2>2
<1>2. SUBSET U \subseteq T
  <2> HIDE DEF T
  <2>1. Inductive(T, U)
    BY <1>1 DEF Inductive
  <2> QED BY <1>0, <2>1, SubsetInduction
<1> QED BY <1>2

LEMMA SumMore ==
  ASSUME NEW S, IsFiniteSet(S), NEW h, NEW k, \A x \in S : h[x] \in Int /\ k[x] \in Int,
         \A x \in S : h[x] <= k[x]
  PROVE  SumFunctionOnSet(h, S) <= SumFunctionOnSet(k, S)
<1>1. PICK f : Adds(f, S, h) /\ SumFunctionOnSet(h, S) = f[S]
  BY SumAdds
<1>2. PICK g : Adds(g, S, k) /\ SumFunctionOnSet(k, S) = g[S]
  BY SumAdds
<1>3. f[S] <= g[S]
  BY <1>1, <1>2, AddsMore
<1> QED BY <1>1, <1>2, <1>3

LEMMA SumType ==
  ASSUME NEW S, IsFiniteSet(S), NEW h, \A x \in S : h[x] \in Int
  PROVE  SumFunctionOnSet(h, S) \in Int
<1>1. PICK f : Adds(f, S, h) /\ SumFunctionOnSet(h, S) = f[S]
  BY SumAdds
<1> QED BY <1>1 DEF Adds

LEMMA SumNat ==
  ASSUME NEW S, IsFiniteSet(S), NEW h, \A x \in S : h[x] \in Nat
  PROVE  SumFunctionOnSet(h, S) \in Nat
<1> DEFINE k == [x \in S |-> 0]
           g == [s \in SUBSET S |-> 0]
<1>1. PICK f : Adds(f, S, h) /\ SumFunctionOnSet(h, S) = f[S]
  BY SumAdds
<1>2. Adds(g, S, k)
  BY DEF Adds
<1>3. g[S] <= f[S]
  <2>1. \A x \in S : h[x] \in Int /\ k[x] \in Int /\ k[x] <= h[x]
    OBVIOUS
  <2> HIDE DEF g, k
  <2> QED BY <1>1, <1>2, <2>1, AddsMore
<1>4. f[S] \in Int
  BY <1>1 DEF Adds
<1> QED BY <1>1, <1>3, <1>4

\* A sum changes by as much as one of its numbers does.
LEMMA SumChanges ==
  ASSUME NEW S, IsFiniteSet(S), NEW h, NEW k, \A x \in S : h[x] \in Int /\ k[x] \in Int,
         NEW c \in S, \A x \in S : x # c => h[x] = k[x]
  PROVE  SumFunctionOnSet(k, S) = SumFunctionOnSet(h, S) - h[c] + k[c]
<1>1. PICK f : Adds(f, S, h) /\ SumFunctionOnSet(h, S) = f[S]
  BY SumAdds
<1>2. PICK g : Adds(g, S, k) /\ SumFunctionOnSet(k, S) = g[S]
  BY SumAdds
<1>3. f[S \ {c}] <= g[S \ {c}] /\ g[S \ {c}] <= f[S \ {c}]
  <2>1. \A x \in S \ {c} : h[x] = k[x] /\ h[x] \in Int
    OBVIOUS
  <2>2. \A x \in S \ {c} : h[x] <= k[x] /\ k[x] <= h[x]
    BY <2>1
  <2>3. S \ {c} \in SUBSET S
    OBVIOUS
  <2>4. f[S \ {c}] <= g[S \ {c}]
    BY <1>1, <1>2, <2>2, <2>3, AddsMore
  <2>5. g[S \ {c}] <= f[S \ {c}]
    BY <1>1, <1>2, <2>2, <2>3, AddsMore
  <2> QED BY <2>4, <2>5
<1>4. /\ f[S] = f[S \ {c}] + h[c] /\ g[S] = g[S \ {c}] + k[c]
      /\ f[S \ {c}] \in Int /\ g[S \ {c}] \in Int
  BY <1>1, <1>2 DEF Adds
<1> QED BY <1>1, <1>2, <1>3, <1>4

\* Equal numbers have equal sums, and the sum of one number is that number.
LEMMA SumSame ==
  ASSUME NEW S, IsFiniteSet(S), NEW h, NEW k, \A x \in S : h[x] \in Int /\ h[x] = k[x]
  PROVE  SumFunctionOnSet(k, S) = SumFunctionOnSet(h, S)
<1>1. \A x \in S : h[x] \in Int /\ k[x] \in Int /\ h[x] <= k[x] /\ k[x] <= h[x]
  OBVIOUS
<1>2. /\ SumFunctionOnSet(h, S) <= SumFunctionOnSet(k, S)
      /\ SumFunctionOnSet(k, S) <= SumFunctionOnSet(h, S)
  BY <1>1, SumMore
<1>3. SumFunctionOnSet(h, S) \in Int /\ SumFunctionOnSet(k, S) \in Int
  BY <1>1, SumType
<1> QED BY <1>2, <1>3

LEMMA SumOfOne ==
  ASSUME NEW h, NEW c, h[c] \in Int
  PROVE  SumFunctionOnSet(h, {c}) = h[c] /\ SumFunctionOnSet(h, {}) = 0
<1>1. IsFiniteSet({c}) /\ IsFiniteSet({})
  BY FS_Singleton, FS_EmptySet
<1>2. PICK f : Adds(f, {c}, h) /\ SumFunctionOnSet(h, {c}) = f[{c}]
  BY <1>1, SumAdds
<1>3. f[{c}] = f[{c} \ {c}] + h[c] /\ {c} \ {c} = {}
  BY <1>2 DEF Adds
<1>4. PICK g : Adds(g, {}, h) /\ SumFunctionOnSet(h, {}) = g[{}]
  BY <1>1, SumAdds
<1> QED BY <1>2, <1>3, <1>4 DEF Adds

-----------------------------------------------------------------------------
(* Lists                                                                     *)

\* The list holds every item of T, once, and no other.
Lists(list, T) ==
  /\ list \in Seq(Items)
  /\ \A m, n \in DOMAIN list : list[m] = list[n] => m = n
  /\ \A i \in Items : (\E n \in DOMAIN list : list[n] = i) <=> i \in T

LEMMA RemoveFirstIsAt ==
  ASSUME NEW list \in Seq(Items), NEW n \in DOMAIN list,
         \A m \in DOMAIN list : list[m] = list[n] => m = n
  PROVE  RemoveFirst(list, list[n]) = SubSeq(list, 1, n - 1) \o SubSeq(list, n + 1, Len(list))
<1>1. DOMAIN list = 1 .. Len(list) /\ Len(list) \in Nat
  OBVIOUS
<1>2. {m \in 1 .. Len(list) : list[m] = list[n]} = {n}
  BY <1>1
<1>3. Min({n}) = n
  BY <1>1 DEF Min
<1>4. SelectInSeq(list, LAMBDA v : v = list[n]) = n
  BY <1>2, <1>3 DEF SelectInSeq
<1>5. \E m \in 1 .. Len(list) : list[m] = list[n]
  BY <1>1
<1> QED BY <1>4, <1>5 DEF RemoveFirst, RemoveAt

LEMMA ListWithout ==
  ASSUME NEW list, NEW T, Lists(list, T), NEW i
  PROVE  Lists(RemoveFirst(list, i), T \ {i})
<1>0. DOMAIN list = 1 .. Len(list) /\ Len(list) \in Nat /\ list \in Seq(Items)
  BY DEF Lists
<1>1. CASE \A n \in DOMAIN list : list[n] # i
  <2>1. RemoveFirst(list, i) = list
    BY <1>0, <1>1 DEF RemoveFirst
  <2> QED BY <1>1, <2>1 DEF Lists
<1>2. ASSUME NEW n \in DOMAIN list, list[n] = i PROVE Lists(RemoveFirst(list, i), T \ {i})
  <2> DEFINE r == RemoveFirst(list, i)
             at(m) == IF m < n THEN m ELSE m + 1
             a == SubSeq(list, 1, n - 1)
             b == SubSeq(list, n + 1, Len(list))
  <2>1. r = a \o b
    BY <1>0, <1>2, RemoveFirstIsAt DEF Lists
  <2>2. /\ a \in Seq(Items) /\ Len(a) = n - 1
        /\ \A m \in 1 .. (n - 1) : a[m] = list[m]
    BY <1>0, <1>2
  <2>3. /\ b \in Seq(Items) /\ Len(b) = Len(list) - n
        /\ \A m \in 1 .. (Len(list) - n) : b[m] = list[n + m]
    BY <1>0, <1>2
  <2> HIDE DEF a, b, r
  <2>4. /\ r \in Seq(Items) /\ Len(r) = Len(list) - 1 /\ DOMAIN r = 1 .. (Len(list) - 1)
        /\ \A m \in 1 .. (Len(list) - 1) : r[m] = IF m < n THEN a[m] ELSE b[m - (n - 1)]
    <3>1. Len(r) = Len(a) + Len(b) /\ r \in Seq(Items)
      BY <2>1, <2>2, <2>3, ConcatProperties
    <3>2. Len(r) = Len(list) - 1
      BY <1>0, <2>2, <2>3, <3>1
    <3>3. \A m \in 1 .. Len(r) : r[m] = IF m <= Len(a) THEN a[m] ELSE b[m - Len(a)]
      BY <2>1, <2>2, <2>3
    <3> QED BY <1>0, <2>2, <3>1, <3>2, <3>3
  <2>5. \A m \in DOMAIN r : r[m] = list[at(m)] /\ at(m) \in DOMAIN list /\ at(m) # n
    <3> SUFFICES ASSUME NEW m \in DOMAIN r
                 PROVE  r[m] = list[at(m)] /\ at(m) \in DOMAIN list /\ at(m) # n
      OBVIOUS
    <3>1. m \in 1 .. (Len(list) - 1) /\ n \in 1 .. Len(list)
      BY <1>0, <2>4
    <3>2. CASE m < n
      <4>1. r[m] = a[m] /\ m \in 1 .. (n - 1) /\ m \in 1 .. Len(list) /\ m # n
        BY <1>0, <2>4, <3>1, <3>2
      <4> QED BY <1>0, <2>2, <3>2, <4>1
    <3>3. CASE ~(m < n)
      <4>1. r[m] = b[m - (n - 1)] /\ m - (n - 1) \in 1 .. (Len(list) - n)
        BY <1>0, <2>4, <3>1, <3>3
      <4>2. r[m] = list[n + (m - (n - 1))] /\ n + (m - (n - 1)) = m + 1
        BY <1>0, <2>3, <3>1, <4>1
      <4> QED BY <1>0, <3>1, <3>3, <4>2
    <3> QED BY <3>2, <3>3
  <2>6. \A m, k \in DOMAIN r : at(m) = at(k) => m = k
    BY <1>0, <2>4
  <2>7. \A m, k \in DOMAIN list : list[m] = list[k] => m = k
    BY DEF Lists
  <2>8. \A m, k \in DOMAIN r : r[m] = r[k] => m = k
    BY <2>5, <2>6, <2>7
  <2>9. ASSUME NEW x \in Items
        PROVE  (\E m \in DOMAIN r : r[m] = x) <=> x \in T \ {i}
    <3>1. ASSUME NEW m \in DOMAIN r, r[m] = x PROVE x \in T \ {i}
      BY <1>2, <2>5, <2>7, <3>1 DEF Lists
    <3>2. ASSUME x \in T \ {i} PROVE \E m \in DOMAIN r : r[m] = x
      <4>1. PICK k \in DOMAIN list : list[k] = x
        BY <3>2 DEF Lists
      <4>2. k # n
        BY <1>2, <3>2, <4>1
      <4> DEFINE m == IF k < n THEN k ELSE k - 1
      <4>3. m \in 1 .. (Len(list) - 1) /\ at(m) = k
        BY <1>0, <1>2, <2>4, <4>2
      <4> QED BY <2>4, <2>5, <4>1, <4>3
    <3> QED BY <3>1, <3>2
  <2> QED BY <2>4, <2>8, <2>9 DEF Lists, r
<1> QED BY <1>1, <1>2

LEMMA ListWith ==
  ASSUME NEW list, NEW T, Lists(list, T), NEW i \in Items, i \notin T
  PROVE  Lists(<<i>> \o list, T \cup {i})
<1> DEFINE r == <<i>> \o list
<1>0. DOMAIN list = 1 .. Len(list) /\ Len(list) \in Nat /\ list \in Seq(Items)
  BY DEF Lists
<1>1. /\ r \in Seq(Items) /\ DOMAIN r = 1 .. (Len(list) + 1) /\ r[1] = i
      /\ \A m \in 2 .. (Len(list) + 1) : r[m] = list[m - 1]
  BY <1>0
<1>2. \A n \in DOMAIN list : list[n] # i
  BY DEF Lists
<1> HIDE DEF r
<1>3. ASSUME NEW m \in DOMAIN r, NEW n \in DOMAIN r, r[m] = r[n] PROVE m = n
  <2>0. \A k \in DOMAIN r : k # 1 => r[k] # i
    <3>1. \A k \in DOMAIN r : k # 1 => k \in 2 .. (Len(list) + 1) /\ k - 1 \in DOMAIN list
      BY <1>0, <1>1
    <3> QED BY <1>1, <1>2, <3>1
  <2>1. CASE m = 1 \/ n = 1
    BY <1>1, <1>3, <2>0, <2>1
  <2>2. CASE m # 1 /\ n # 1
    <3>1. list[m - 1] = list[n - 1] /\ m - 1 \in DOMAIN list /\ n - 1 \in DOMAIN list
      BY <1>0, <1>1, <1>3, <2>2
    <3>2. m - 1 = n - 1
      BY <3>1 DEF Lists
    <3> QED BY <1>0, <1>1, <3>2
  <2> QED BY <2>1, <2>2
<1>4. ASSUME NEW x \in Items PROVE (\E m \in DOMAIN r : r[m] = x) <=> x \in T \cup {i}
  <2>1. ASSUME NEW m \in DOMAIN r, r[m] = x PROVE x \in T \cup {i}
    <3>1. CASE m = 1
      BY <1>1, <2>1, <3>1
    <3>2. CASE m # 1
      <4>1. m - 1 \in DOMAIN list /\ list[m - 1] = x
        BY <1>0, <1>1, <2>1, <3>2
      <4> QED BY <4>1 DEF Lists
    <3> QED BY <3>1, <3>2
  <2>2. ASSUME x \in T PROVE \E m \in DOMAIN r : r[m] = x
    <3>1. PICK n \in DOMAIN list : list[n] = x
      BY <2>2 DEF Lists
    <3>2. n + 1 \in DOMAIN r /\ r[n + 1] = list[n]
      BY <1>0, <1>1
    <3> QED BY <3>1, <3>2
  <2>3. 1 \in DOMAIN r
    BY <1>0, <1>1
  <2> QED BY <1>1, <2>1, <2>2, <2>3
<1> QED BY <1>1, <1>3, <1>4 DEF Lists, r

\* A list of nothing new is the same list.
LEMMA ListSame ==
  ASSUME NEW list, NEW T, NEW U, Lists(list, T), \A i \in Items : i \in T <=> i \in U
  PROVE  Lists(list, U)
BY DEF Lists

-----------------------------------------------------------------------------
(* The bags a bag lies in                                                    *)

\* No bag lies in itself.
Nested(w) == \A b \in Bags : b \notin Holders(w, w.parent[b])

LEMMA KindsAreApart ==
  /\ Bags \subseteq Items /\ Coins \subseteq Items /\ Bags \cap Coins = {}
  /\ Player \notin Items /\ Tile \notin Items /\ Nowhere \notin Items /\ NoItem \notin Items
  /\ Player \notin Bags /\ Tile \notin Bags /\ Nowhere \notin Bags /\ NoItem \notin Bags
  /\ Player # Tile /\ Nowhere # Player /\ Nowhere # Tile /\ Nowhere \notin Cylinders
BY ItemsAssumption DEF Items, Cylinders

LEMMA HoldersFacts ==
  ASSUME NEW w, NEW c
  PROVE  /\ Holders(w, c) \subseteq Bags
         /\ GoesUp(w, c, Holders(w, c))
         /\ \A S \in SUBSET Bags : GoesUp(w, c, S) => Holders(w, c) \subseteq S
BY DEF Holders, GoesUp

LEMMA NoHolders ==
  ASSUME NEW w, NEW c, c \notin Bags
  PROVE  Holders(w, c) = {}
<1>1. GoesUp(w, c, {}) /\ {} \in SUBSET Bags
  BY DEF GoesUp
<1> QED BY <1>1, HoldersFacts

\* Upwards from a bag that is on the way, it is the same way.
LEMMA HoldersShrink ==
  ASSUME NEW w, NEW c, NEW b \in Holders(w, c)
  PROVE  /\ Holders(w, b) \subseteq Holders(w, c)
         /\ Holders(w, w.parent[b]) \subseteq Holders(w, b)
<1>1. Holders(w, c) \in SUBSET Bags /\ Holders(w, b) \in SUBSET Bags
  BY HoldersFacts
<1>2. GoesUp(w, b, Holders(w, c))
  BY HoldersFacts DEF GoesUp
<1>3. GoesUp(w, w.parent[b], Holders(w, b))
  <2>1. GoesUp(w, b, Holders(w, b)) /\ b \in Bags
    BY <1>1, HoldersFacts
  <2> QED BY <2>1 DEF GoesUp
<1> QED BY <1>1, <1>2, <1>3, HoldersFacts

LEMMA HolderAbove ==
  ASSUME NEW w, NEW b \in Bags, NEW x \in Holders(w, b), x # b
  PROVE  x \in Holders(w, w.parent[b])
<1> DEFINE S == {b} \cup Holders(w, w.parent[b])
<1>1. Holders(w, w.parent[b]) \subseteq Bags /\ GoesUp(w, w.parent[b], Holders(w, w.parent[b]))
  BY HoldersFacts
<1>2. S \in SUBSET Bags /\ GoesUp(w, b, S)
  BY <1>1 DEF GoesUp
<1> QED BY <1>2, HoldersFacts

\* Of two bags on the way up from c, one lies in the other.
LEMMA HoldersAreAChain ==
  ASSUME NEW w, NEW c, NEW x \in Holders(w, c), NEW y \in Holders(w, c)
  PROVE  x \in Holders(w, y) \/ y \in Holders(w, x)
<1> DEFINE S == {z \in Holders(w, c) : x \in Holders(w, z)} \cup Holders(w, x)
<1>1. /\ Holders(w, c) \subseteq Bags /\ GoesUp(w, c, Holders(w, c))
      /\ Holders(w, x) \subseteq Bags /\ GoesUp(w, x, Holders(w, x))
  BY HoldersFacts
<1>2. x \in Bags /\ x \in Holders(w, x)
  BY <1>1 DEF GoesUp
<1>3. c \in Bags => c \in S
  BY <1>1 DEF GoesUp
<1>4. ASSUME NEW b \in S, w.parent[b] \in Bags PROVE w.parent[b] \in S
  <2>1. CASE b \in Holders(w, x)
    BY <1>1, <1>4, <2>1 DEF GoesUp
  <2>2. CASE b \in Holders(w, c) /\ x \in Holders(w, b) /\ b # x
    <3>1. x \in Holders(w, w.parent[b])
      BY <1>1, <2>2, HolderAbove
    <3>2. w.parent[b] \in Holders(w, c)
      BY <1>1, <1>4, <2>2 DEF GoesUp
    <3> QED BY <3>1, <3>2
  <2> QED BY <1>2, <2>1, <2>2
<1>5. S \in SUBSET Bags /\ GoesUp(w, c, S)
  <2> HIDE DEF S
  <2>1. S \subseteq Bags
    BY <1>1 DEF S
  <2> QED BY <1>3, <1>4, <2>1 DEF GoesUp
<1>6. Holders(w, c) \subseteq S
  BY <1>5, HoldersFacts
<1> QED BY <1>6

\* The bags above c are the same in a world where they lie in the same things.
LEMMA SameHolders ==
  ASSUME NEW w, NEW v, NEW c, \A b \in Holders(w, c) : v.parent[b] = w.parent[b]
  PROVE  Holders(v, c) = Holders(w, c)
<1>1. GoesUp(v, c, Holders(w, c)) /\ Holders(w, c) \in SUBSET Bags
  BY HoldersFacts DEF GoesUp
<1>2. Holders(v, c) \subseteq Holders(w, c)
  BY <1>1, HoldersFacts
<1>3. GoesUp(v, c, Holders(v, c)) /\ Holders(v, c) \in SUBSET Bags
  BY HoldersFacts
<1>4. GoesUp(w, c, Holders(v, c))
  BY <1>2, <1>3 DEF GoesUp
<1> QED BY <1>2, <1>3, <1>4, HoldersFacts

\* A bag of c that holds others of c is the only one that lies there.
LEMMA OneBelow ==
  ASSUME NEW w, Nested(w), NEW c, NEW x \in Holders(w, c), NEW y \in Holders(w, c),
         w.parent[x] = w.parent[y]
  PROVE  x = y
<1>1. x \in Bags /\ y \in Bags
  BY HoldersFacts
<1>2. SUFFICES ASSUME x # y PROVE FALSE
  OBVIOUS
<1>3. x \in Holders(w, w.parent[y]) \/ y \in Holders(w, w.parent[x])
  BY <1>1, <1>2, HoldersAreAChain, HolderAbove
<1> QED BY <1>1, <1>3 DEF Nested

\* Every bag above c is c or holds a bag above c.
LEMMA SomeBelow ==
  ASSUME NEW w, NEW c, NEW b \in Holders(w, c), b # c
  PROVE  \E x \in Holders(w, c) : w.parent[x] = b
<1>1. SUFFICES ASSUME \A x \in Holders(w, c) : w.parent[x] # b PROVE FALSE
  OBVIOUS
<1>2. Holders(w, c) \subseteq Bags /\ GoesUp(w, c, Holders(w, c))
  BY HoldersFacts
<1>3. Holders(w, c) \ {b} \in SUBSET Bags /\ GoesUp(w, c, Holders(w, c) \ {b})
  BY <1>1, <1>2 DEF GoesUp
<1> QED BY <1>3, HoldersFacts

\* A thing that is taken out leaves no bag in itself.
LEMMA NestedWithout ==
  ASSUME NEW w, Nested(w), NEW v, NEW i,
         \A b \in Bags : v.parent[b] = IF b = i THEN Nowhere ELSE w.parent[b]
  PROVE  Nested(v)
<1> SUFFICES ASSUME NEW b \in Bags PROVE b \notin Holders(v, v.parent[b])
  BY DEF Nested
<1>1. CASE b = i
  BY <1>1, KindsAreApart, NoHolders
<1>2. CASE b # i
  <2> DEFINE c == w.parent[b]
  <2>1. GoesUp(w, c, Holders(w, c)) /\ Holders(w, c) \in SUBSET Bags
    BY HoldersFacts
  <2>2. GoesUp(v, c, Holders(w, c))
    BY <2>1, KindsAreApart DEF GoesUp
  <2>3. Holders(v, c) \subseteq Holders(w, c)
    BY <2>1, <2>2, HoldersFacts
  <2>4. b \notin Holders(w, c) /\ v.parent[b] = c
    BY <1>2 DEF Nested
  <2> QED BY <2>3, <2>4
<1> QED BY <1>1, <1>2

\* Nor does one that is put into a cylinder that does not lie in it.
LEMMA NestedWith ==
  ASSUME NEW w, Nested(w), NEW v, NEW i, NEW c, i \notin Holders(w, c),
         \A b \in Bags : v.parent[b] = IF b = i THEN c ELSE w.parent[b]
  PROVE  Nested(v)
<1> SUFFICES ASSUME NEW b \in Bags PROVE b \notin Holders(v, v.parent[b])
  BY DEF Nested
<1>0. Holders(v, c) = Holders(w, c)
  <2>1. \A x \in Holders(w, c) : v.parent[x] = w.parent[x]
    BY HoldersFacts
  <2> QED BY <2>1, SameHolders
<1>1. CASE b = i
  BY <1>0, <1>1
<1>2. CASE b # i
  <2> DEFINE p == w.parent[b]
             S == Holders(w, p) \cup Holders(w, c)
  <2>1. /\ GoesUp(w, c, Holders(w, c)) /\ Holders(w, c) \in SUBSET Bags
        /\ GoesUp(w, p, Holders(w, p)) /\ Holders(w, p) \in SUBSET Bags
    BY HoldersFacts
  <2>2. v.parent[b] = p /\ b \notin Holders(w, p)
    BY <1>2 DEF Nested
  <2>3. CASE i \notin Holders(w, p)
    <3>1. \A x \in Holders(w, p) : v.parent[x] = w.parent[x]
      BY <2>1, <2>3
    <3> QED BY <2>2, <3>1, SameHolders
  <2>4. CASE i \in Holders(w, p)
    <3>1. GoesUp(v, p, S) /\ S \in SUBSET Bags
      BY <2>1 DEF GoesUp
    <3>2. Holders(v, p) \subseteq S
      BY <3>1, HoldersFacts
    <3>3. ASSUME b \in Holders(w, c) PROVE FALSE
      <4>1. i \in Holders(w, b)
        BY <2>4, <3>3, HoldersShrink
      <4>2. i \in Holders(w, c)
        BY <3>3, <4>1, HoldersShrink
      <4> QED BY <4>2
    <3> QED BY <2>2, <3>2, <3>3
  <2> QED BY <2>3, <2>4
<1> QED BY <1>1, <1>2

-----------------------------------------------------------------------------
(* What the bags and the slots weigh                                         *)

Worlds == [parent : [Items -> Cylinders \cup {Nowhere}],
           content : [Bags -> Seq(Items)],
           inventory : [Slots -> Items \cup {NoItem}],
           ground : Seq(Items),
           count : [Items -> 0 .. Stack],
           total : [Bags -> Int],
           carried : Int]

\* What item i adds to the contents of bag b.
Share(w, b, i) == IF w.parent[i] = b THEN Weight(w, i) ELSE 0

\* How far the cached weight of bag b is off.
Off(w, b) == w.total[b] - ContentWeight(w, b)

LEMMA WorldTypes ==
  ASSUME NEW w \in Worlds
  PROVE  /\ \A i \in Items : w.parent[i] \in Cylinders \cup {Nowhere} /\ w.count[i] \in 0 .. Stack
         /\ \A b \in Bags : w.content[b] \in Seq(Items) /\ w.total[b] \in Int
         /\ \A s \in Slots : w.inventory[s] \in Items \cup {NoItem}
         /\ w.ground \in Seq(Items) /\ w.carried \in Int
         /\ DOMAIN w.parent = Items /\ DOMAIN w.count = Items /\ DOMAIN w.total = Bags
         /\ DOMAIN w.content = Bags /\ DOMAIN w.inventory = Slots
BY DEF Worlds

LEMMA WeightTypes ==
  ASSUME NEW w \in Worlds
  PROVE  /\ \A i \in Items : Weight(w, i) \in Int
         /\ \A i \in Items, b \in Bags : Share(w, b, i) \in Int
         /\ \A s \in Slots : SlotWeight(w, s) \in Int
         /\ \A b \in Bags : ContentWeight(w, b) \in Int
         /\ InventoryWeight(w) \in Int
<1>0. IsFiniteSet(Items) /\ IsFiniteSet(Slots) /\ Stack \in Nat
  BY ItemsAssumption
<1>1. \A i \in Items : Weight(w, i) \in Int
  <2>1. \A i \in Items : w.count[i] \in Int
    BY <1>0, WorldTypes
  <2> QED BY <2>1, WorldTypes DEF Weight
<1>2. \A i \in Items, b \in Bags : Share(w, b, i) \in Int
  BY <1>1 DEF Share
<1>3. \A s \in Slots : SlotWeight(w, s) \in Int
  BY <1>1, WorldTypes DEF SlotWeight
<1>4. ASSUME NEW b \in Bags PROVE ContentWeight(w, b) \in Int
  <2> DEFINE h == [i \in Items |-> Share(w, b, i)]
  <2>1. \A i \in Items : h[i] \in Int
    BY <1>2
  <2>2. SumFunctionOnSet(h, Items) \in Int
    <3> HIDE DEF h
    <3> QED BY <1>0, <2>1, SumType
  <2> QED BY <2>2 DEF ContentWeight, Share
<1>5. InventoryWeight(w) \in Int
  <2> DEFINE h == [s \in Slots |-> SlotWeight(w, s)]
  <2>1. \A s \in Slots : h[s] \in Int
    BY <1>3
  <2>2. SumFunctionOnSet(h, Slots) \in Int
    <3> HIDE DEF h
    <3> QED BY <1>0, <2>1, SumType
  <2> QED BY <2>2 DEF InventoryWeight
<1> QED BY <1>1, <1>2, <1>3, <1>4, <1>5

\* The contents of a bag weigh more or less by what one item does.
LEMMA ContentChanges ==
  ASSUME NEW w \in Worlds, NEW v \in Worlds, NEW b \in Bags, NEW i \in Items,
         \A x \in Items : x # i => Share(v, b, x) = Share(w, b, x)
  PROVE  ContentWeight(v, b) = ContentWeight(w, b) - Share(w, b, i) + Share(v, b, i)
<1> DEFINE h == [x \in Items |-> Share(w, b, x)]
           k == [x \in Items |-> Share(v, b, x)]
<1>1. /\ \A x \in Items : h[x] \in Int /\ k[x] \in Int
      /\ \A x \in Items : x # i => h[x] = k[x]
      /\ h[i] = Share(w, b, i) /\ k[i] = Share(v, b, i)
  BY WeightTypes
<1>2. IsFiniteSet(Items)
  BY ItemsAssumption
<1>3. SumFunctionOnSet(k, Items) = SumFunctionOnSet(h, Items) - h[i] + k[i]
  <2> HIDE DEF h, k
  <2> QED BY <1>1, <1>2, SumChanges
<1>4. ContentWeight(w, b) = SumFunctionOnSet(h, Items) /\ ContentWeight(v, b) = SumFunctionOnSet(k, Items)
  BY DEF ContentWeight, Share
<1> QED BY <1>1, <1>3, <1>4

LEMMA ContentSame ==
  ASSUME NEW w \in Worlds, NEW v \in Worlds, NEW b \in Bags,
         \A x \in Items : Share(v, b, x) = Share(w, b, x)
  PROVE  ContentWeight(v, b) = ContentWeight(w, b)
<1>1. PICK i \in Items : TRUE
  BY KindsAreApart
<1>2. ContentWeight(v, b) = ContentWeight(w, b) - Share(w, b, i) + Share(v, b, i)
  BY ContentChanges
<1> QED BY <1>1, <1>2, WeightTypes

LEMMA InventoryMore ==
  ASSUME NEW w \in Worlds, NEW v \in Worlds,
         \A s \in Slots : SlotWeight(w, s) <= SlotWeight(v, s)
  PROVE  InventoryWeight(w) <= InventoryWeight(v)
<1> DEFINE h == [s \in Slots |-> SlotWeight(w, s)]
           k == [s \in Slots |-> SlotWeight(v, s)]
<1>1. \A x \in Slots : h[x] \in Int /\ k[x] \in Int /\ h[x] <= k[x]
  BY WeightTypes
<1>2. IsFiniteSet(Slots)
  BY ItemsAssumption
<1>3. SumFunctionOnSet(h, Slots) <= SumFunctionOnSet(k, Slots)
  <2> HIDE DEF h, k
  <2> QED BY <1>1, <1>2, SumMore
<1> QED BY <1>3 DEF InventoryWeight

LEMMA WeighsFields ==
  ASSUME NEW w \in Worlds, NEW c, NEW d \in Int, NEW v, v = Weighs(w, c, d)
  PROVE  /\ v \in Worlds
         /\ v.parent = w.parent /\ v.content = w.content /\ v.inventory = w.inventory
         /\ v.ground = w.ground /\ v.count = w.count /\ v.carried = w.carried
         /\ \A b \in Bags : v.total[b] = w.total[b] + (IF b \in Holders(w, c) THEN d ELSE 0)
<1> DEFINE tot == [b \in Bags |-> w.total[b] + (IF b \in Holders(w, c) THEN d ELSE 0)]
<1>1. v = [w EXCEPT !.total = tot]
  BY DEF Weighs
<1>2. tot \in [Bags -> Int]
  BY WorldTypes
<1>3. \A b \in Bags : tot[b] = w.total[b] + (IF b \in Holders(w, c) THEN d ELSE 0)
  OBVIOUS
<1> HIDE DEF tot
<1> QED BY <1>1, <1>2, <1>3 DEF Worlds

\* Weights added in cylinder c put no bag off but c.
LEMMA WeighsOff ==
  ASSUME NEW w \in Worlds, Nested(w), NEW c, NEW d \in Int, NEW v, v = Weighs(w, c, d), NEW b \in Bags
  PROVE  Off(v, b) = Off(w, b) + (IF b = c THEN d ELSE 0)
<1> DEFINE H == Holders(w, c)
<1>1. /\ v \in Worlds /\ v.parent = w.parent /\ v.count = w.count
      /\ \A x \in Bags : v.total[x] = w.total[x] + (IF x \in H THEN d ELSE 0)
  BY WeighsFields
<1>2. H \subseteq Bags /\ GoesUp(w, c, H)
  BY HoldersFacts
<1>3. /\ \A x \in Items : x \notin H => Weight(v, x) = Weight(w, x)
      /\ \A x \in H : Weight(v, x) = Weight(w, x) + d
  <2>1. \A x \in Items \ Bags : Weight(v, x) = Weight(w, x)
    BY <1>1 DEF Weight
  <2>2. \A x \in Bags : x \notin H => Weight(v, x) = Weight(w, x)
    <3>1. \A x \in Bags : w.total[x] \in Int
      BY WorldTypes
    <3> QED BY <1>1, <3>1 DEF Weight
  <2>3. \A x \in H : Weight(v, x) = Weight(w, x) + d
    <3>1. \A x \in H : w.total[x] \in Int /\ v.total[x] = w.total[x] + d
      BY <1>1, <1>2, WorldTypes
    <3> QED BY <1>2, <3>1 DEF Weight
  <2> QED BY <2>1, <2>2, <2>3
<1>4. v.total[b] = w.total[b] + (IF b \in H THEN d ELSE 0) /\ w.total[b] \in Int /\ v.total[b] \in Int
  BY <1>1, WorldTypes
<1> HIDE DEF H
<1>5. ContentWeight(w, b) \in Int /\ ContentWeight(v, b) \in Int
  BY <1>1, WeightTypes
<1>6. CASE b \in H /\ b # c
  <2>1. PICK x \in H : w.parent[x] = b
    BY <1>6, SomeBelow DEF H
  <2>2. \A y \in H : w.parent[y] = b => y = x
    BY <2>1, OneBelow DEF H
  <2>3. x \in Items
    BY <1>2, <2>1, KindsAreApart
  <2>4. \A y \in Items : y # x => Share(v, b, y) = Share(w, b, y)
    BY <1>1, <1>3, <2>2 DEF Share
  <2>5. Share(w, b, x) = Weight(w, x) /\ Share(v, b, x) = Weight(w, x) + d
    BY <1>1, <1>3, <2>1 DEF Share
  <2>6. Weight(w, x) \in Int
    BY <2>3, WeightTypes
  <2>7. ContentWeight(v, b) = ContentWeight(w, b) - Share(w, b, x) + Share(v, b, x)
    BY <1>1, <2>3, <2>4, ContentChanges
  <2>8. ContentWeight(v, b) = ContentWeight(w, b) + d
    BY <1>5, <2>5, <2>6, <2>7
  <2> QED BY <1>4, <1>5, <1>6, <2>8 DEF Off
<1>7. CASE ~(b \in H /\ b # c)
  <2>1. \A y \in H : w.parent[y] # b
    <3>1. CASE b = c
      BY <3>1, <1>2 DEF Nested, H
    <3>2. CASE b # c
      BY <1>2, <1>7, <3>2 DEF GoesUp
    <3> QED BY <3>1, <3>2
  <2>2. \A y \in Items : Share(v, b, y) = Share(w, b, y)
    BY <1>1, <1>3, <2>1 DEF Share
  <2>3. ContentWeight(v, b) = ContentWeight(w, b)
    BY <1>1, <2>2, ContentSame
  <2>4. b = c => b \in H
    BY <1>2 DEF GoesUp
  <2> QED BY <1>4, <1>5, <1>7, <2>3, <2>4 DEF Off
<1> QED BY <1>6, <1>7

-----------------------------------------------------------------------------
(* The methods that change something                                         *)

In(w, c) == {i \in Items : w.parent[i] = c}

InSlots(w) ==
  /\ \A s, t \in Slots : w.inventory[s] = w.inventory[t] /\ w.inventory[s] \in Items => s = t
  /\ \A i \in Items : w.parent[i] = Player <=> \E s \in Slots : w.inventory[s] = i

\* Every item is in the list of its parent, once, and in no other.
Placed(w) ==
  /\ \A b \in Bags : Lists(w.content[b], In(w, b))
  /\ Lists(w.ground, In(w, Tile))
  /\ InSlots(w)

Weighed(w) == \A b \in Bags : w.total[b] = ContentWeight(w, b)

\* What every method keeps.
Sound(w) == w \in Worlds /\ Nested(w) /\ Placed(w) /\ Weighed(w)

\* What only a notification brings back.
Charged(w) == w.carried <= InventoryWeight(w)

\* The player carries the same, and is charged the same.
Untouched(w, v) == v.carried = w.carried /\ \A s \in Slots : SlotWeight(v, s) = SlotWeight(w, s)

LEMMA WeighedIsNotOff ==
  ASSUME NEW w \in Worlds
  PROVE  Weighed(w) <=> \A b \in Bags : Off(w, b) = 0
<1>1. \A b \in Bags : w.total[b] \in Int /\ ContentWeight(w, b) \in Int
  BY WorldTypes, WeightTypes
<1> QED BY <1>1 DEF Weighed, Off

LEMMA StaysCharged ==
  ASSUME NEW w \in Worlds, NEW v \in Worlds, Charged(w), v.carried = w.carried,
         \A s \in Slots : SlotWeight(w, s) <= SlotWeight(v, s)
  PROVE  Charged(v)
<1>1. InventoryWeight(w) <= InventoryWeight(v)
  BY InventoryMore
<1> QED BY <1>1, WeightTypes, WorldTypes DEF Charged

LEMMA UntouchedStaysCharged ==
  ASSUME NEW w \in Worlds, NEW v \in Worlds, Charged(w), Untouched(w, v)
  PROVE  Charged(v)
<1>1. \A s \in Slots : SlotWeight(w, s) <= SlotWeight(v, s)
  BY WeightTypes DEF Untouched
<1> QED BY <1>1, StaysCharged DEF Untouched

LEMMA NotifiedIsSound ==
  ASSUME NEW w, Sound(w), NEW c, NEW v, v = Notified(w, c)
  PROVE  /\ Sound(v)
         /\ Charged(w) => Charged(v)
         /\ IsPlayers(w, c) => Charged(v)
         /\ v.parent = w.parent /\ v.count = w.count /\ v.inventory = w.inventory
         /\ v.content = w.content /\ v.ground = w.ground /\ v.total = w.total
         /\ ~IsPlayers(w, c) => v = w
<1>1. w \in Worlds /\ InventoryWeight(w) \in Int
  BY WeightTypes DEF Sound
<1>2. CASE ~IsPlayers(w, c)
  BY <1>2 DEF Notified
<1>3. CASE IsPlayers(w, c)
  <2>1. v = [w EXCEPT !.carried = InventoryWeight(w)]
    BY <1>3 DEF Notified, Updated
  <2>2. /\ v \in Worlds /\ v.carried = InventoryWeight(w)
        /\ v.parent = w.parent /\ v.count = w.count /\ v.inventory = w.inventory
        /\ v.content = w.content /\ v.ground = w.ground /\ v.total = w.total
    BY <1>1, <2>1 DEF Worlds
  <2>3. Nested(v)
    <3>1. \A x \in Bags : Holders(v, w.parent[x]) = Holders(w, w.parent[x])
      BY <2>2, SameHolders
    <3> QED BY <2>2, <3>1 DEF Nested, Sound
  <2>4. Placed(v)
    BY <2>2 DEF Placed, Sound, In, InSlots
  <2>5. \A i \in Items : Weight(v, i) = Weight(w, i)
    BY <2>2 DEF Weight
  <2>6. \A b \in Bags : ContentWeight(v, b) = ContentWeight(w, b)
    <3>1. \A b \in Bags, x \in Items : Share(v, b, x) = Share(w, b, x)
      BY <2>2, <2>5 DEF Share
    <3> QED BY <1>1, <2>2, <3>1, ContentSame
  <2>7. Weighed(v)
    BY <2>2, <2>6 DEF Weighed, Sound
  <2>8. InventoryWeight(w) <= InventoryWeight(v)
    <3>1. \A s \in Slots : SlotWeight(v, s) = SlotWeight(w, s)
      BY <1>1, <2>2, <2>5, WorldTypes DEF SlotWeight
    <3>2. \A s \in Slots : SlotWeight(w, s) <= SlotWeight(v, s)
      BY <1>1, <3>1, WeightTypes
    <3> QED BY <1>1, <2>2, <3>2, InventoryMore
  <2> QED BY <1>3, <2>2, <2>3, <2>4, <2>7, <2>8 DEF Sound, Charged
<1> QED BY <1>2, <1>3

\* Who is on the way up from a cylinder of the player is his, and no other.
LEMMA PlayersAbove ==
  ASSUME NEW w \in Worlds, InSlots(w), NEW c, ~IsPlayers(w, c), NEW d \in Int,
         NEW v, v = Weighs(w, c, d)
  PROVE  Untouched(w, v)
<1>1. /\ v \in Worlds /\ v.carried = w.carried /\ v.inventory = w.inventory /\ v.count = w.count
      /\ \A b \in Bags : v.total[b] = w.total[b] + (IF b \in Holders(w, c) THEN d ELSE 0)
  BY WeighsFields
<1>2. ASSUME NEW s \in Slots PROVE SlotWeight(v, s) = SlotWeight(w, s)
  <2> DEFINE i == w.inventory[s]
  <2>1. CASE i = NoItem
    BY <1>1, <2>1 DEF SlotWeight
  <2>2. CASE i \in Items /\ i # NoItem
    <3>1. w.parent[i] = Player
      BY <2>2 DEF InSlots
    <3>2. i \notin Holders(w, c)
      BY <3>1 DEF IsPlayers
    <3>3. i \in Bags => v.total[i] = w.total[i]
      BY <1>1, <3>2, WorldTypes
    <3>4. Weight(v, i) = Weight(w, i)
      BY <1>1, <3>3 DEF Weight
    <3> QED BY <1>1, <2>2, <3>4 DEF SlotWeight
  <2> QED BY <2>1, <2>2, WorldTypes
<1> QED BY <1>1, <1>2 DEF Untouched

\* More weight anywhere is no less for the player.
LEMMA WeighsMore ==
  ASSUME NEW w \in Worlds, NEW c, NEW d \in Nat, NEW v, v = Weighs(w, c, d)
  PROVE  v.carried = w.carried /\ \A s \in Slots : SlotWeight(w, s) <= SlotWeight(v, s)
<1>1. /\ v \in Worlds /\ v.carried = w.carried /\ v.inventory = w.inventory /\ v.count = w.count
      /\ \A b \in Bags : v.total[b] = w.total[b] + (IF b \in Holders(w, c) THEN d ELSE 0)
  BY WeighsFields
<1>2. ASSUME NEW i \in Items PROVE Weight(w, i) <= Weight(v, i)
  <2>1. CASE i \in Bags
    <3>1. w.total[i] \in Int /\ v.total[i] = w.total[i] + (IF i \in Holders(w, c) THEN d ELSE 0)
      BY <1>1, <2>1, WorldTypes
    <3>2. w.total[i] <= v.total[i] /\ v.total[i] \in Int
      BY <3>1
    <3> QED BY <2>1, <3>1, <3>2 DEF Weight
  <2>2. CASE i \notin Bags
    <3>1. w.count[i] \in 0 .. Stack /\ Stack \in Nat
      BY WorldTypes, ItemsAssumption
    <3> QED BY <1>1, <2>2, <3>1 DEF Weight
  <2> QED BY <2>1, <2>2
<1>3. ASSUME NEW s \in Slots PROVE SlotWeight(w, s) <= SlotWeight(v, s)
  <2>1. w.inventory[s] = NoItem \/ w.inventory[s] \in Items
    BY WorldTypes
  <2> QED BY <1>1, <1>2, <2>1 DEF SlotWeight
<1> QED BY <1>1, <1>3

LEMMA SameParents ==
  ASSUME NEW w, NEW v, v.parent = w.parent
  PROVE  /\ \A c : Holders(v, c) = Holders(w, c)
         /\ \A c : IsPlayers(v, c) <=> IsPlayers(w, c)
         /\ Nested(w) => Nested(v)
<1>1. \A c : Holders(v, c) = Holders(w, c)
  BY SameHolders
<1> QED BY <1>1 DEF Nested, IsPlayers

\* The number of an object changes, and nothing is told.
LEMMA CountChanges ==
  ASSUME NEW w, Sound(w), NEW i \in Coins, NEW n \in 0 .. Stack, NEW v, v = WithCount(w, i, n)
  PROVE  /\ v \in Worlds /\ Nested(v) /\ Placed(v)
         /\ v.parent = w.parent /\ v.inventory = w.inventory /\ v.content = w.content
         /\ v.ground = w.ground /\ v.carried = w.carried /\ v.total = w.total
         /\ v.count = [w.count EXCEPT ![i] = n]
         /\ \A b \in Bags : Off(v, b) = Off(w, b) - (IF w.parent[i] = b THEN n - w.count[i] ELSE 0)
         /\ \A x \in Items : x # i => Weight(v, x) = Weight(w, x)
<1>1. w \in Worlds /\ i \in Items /\ w.count[i] \in Int /\ n \in Int
  BY KindsAreApart, WorldTypes, ItemsAssumption DEF Sound
<1>2. /\ v \in Worlds
      /\ v.parent = w.parent /\ v.inventory = w.inventory /\ v.content = w.content
      /\ v.ground = w.ground /\ v.carried = w.carried /\ v.total = w.total
      /\ v.count = [w.count EXCEPT ![i] = n]
  BY <1>1 DEF Worlds, WithCount
<1>3. Nested(v)
  BY <1>2, SameParents DEF Sound
<1>4. Placed(v)
  BY <1>2 DEF Placed, Sound, In, InSlots
<1>5. \A x \in Items : x # i => Weight(v, x) = Weight(w, x)
  BY <1>1, <1>2, WorldTypes DEF Weight
<1>6. Weight(w, i) = w.count[i] /\ Weight(v, i) = n
  BY <1>1, <1>2, KindsAreApart, WorldTypes DEF Weight
<1>7. ASSUME NEW b \in Bags
      PROVE  Off(v, b) = Off(w, b) - (IF w.parent[i] = b THEN n - w.count[i] ELSE 0)
  <2>1. \A x \in Items : x # i => Share(v, b, x) = Share(w, b, x)
    BY <1>2, <1>5 DEF Share
  <2>2. ContentWeight(v, b) = ContentWeight(w, b) - Share(w, b, i) + Share(v, b, i)
    BY <1>1, <1>2, <2>1, ContentChanges
  <2>3. /\ Share(w, b, i) = (IF w.parent[i] = b THEN w.count[i] ELSE 0)
        /\ Share(v, b, i) = (IF w.parent[i] = b THEN n ELSE 0)
    BY <1>2, <1>6 DEF Share
  <2>4. ContentWeight(w, b) \in Int /\ w.total[b] \in Int
    BY <1>1, WeightTypes, WorldTypes
  <2> QED BY <1>1, <1>2, <2>2, <2>3, <2>4 DEF Off
<1> QED BY <1>2, <1>3, <1>4, <1>5, <1>7

LEMMA UpdateIsSound ==
  ASSUME NEW w, Sound(w), NEW i \in Coins, NEW n \in 0 .. Stack, NEW v, v = UpdateThing(w, i, n)
  PROVE  /\ Sound(v)
         /\ v.parent = w.parent /\ v.inventory = w.inventory /\ v.content = w.content
         /\ v.ground = w.ground /\ v.carried = w.carried
         /\ v.count = [w.count EXCEPT ![i] = n]
         /\ ~IsPlayers(w, w.parent[i]) => Untouched(w, v)
         /\ n >= w.count[i] => \A s \in Slots : SlotWeight(w, s) <= SlotWeight(v, s)
<1> DEFINE u == WithCount(w, i, n)
           d == n - w.count[i]
           c == w.parent[i]
<1>1. w \in Worlds /\ i \in Items /\ w.count[i] \in Int /\ n \in Int /\ d \in Int
  BY KindsAreApart, WorldTypes, ItemsAssumption DEF Sound
<1>2. /\ u \in Worlds /\ Nested(u) /\ Placed(u)
      /\ u.parent = w.parent /\ u.inventory = w.inventory /\ u.content = w.content
      /\ u.ground = w.ground /\ u.carried = w.carried
      /\ u.count = [w.count EXCEPT ![i] = n]
      /\ \A b \in Bags : Off(u, b) = Off(w, b) - (IF c = b THEN d ELSE 0)
      /\ \A x \in Items : x # i => Weight(u, x) = Weight(w, x)
  BY CountChanges
<1>3. v = Weighs(u, c, d)
  BY DEF UpdateThing, WithCount
<1> HIDE DEF u, d, c
<1>4. /\ v \in Worlds
      /\ v.parent = u.parent /\ v.content = u.content /\ v.inventory = u.inventory
      /\ v.ground = u.ground /\ v.count = u.count /\ v.carried = u.carried
  BY <1>1, <1>2, <1>3, WeighsFields
<1>5. Nested(v)
  BY <1>2, <1>4, SameParents
<1>6. Placed(v)
  BY <1>2, <1>4 DEF Placed, In, InSlots
<1>7. ASSUME NEW b \in Bags PROVE Off(v, b) = 0
  <2>1. Off(v, b) = Off(u, b) + (IF b = c THEN d ELSE 0)
    BY <1>1, <1>2, <1>3, WeighsOff
  <2>2. Off(w, b) = 0
    BY <1>1, WeighedIsNotOff DEF Sound
  <2> QED BY <1>1, <1>2, <2>1, <2>2
<1>8. Sound(v)
  BY <1>4, <1>5, <1>6, <1>7, WeighedIsNotOff DEF Sound
<1>9. w.inventory[1] = w.inventory[1] /\ \A s \in Slots : w.inventory[s] = NoItem \/ w.inventory[s] \in Items
  BY <1>1, WorldTypes
<1>10. ASSUME ~IsPlayers(w, c) PROVE Untouched(w, v)
  <2>1. ~IsPlayers(u, c) /\ InSlots(u)
    BY <1>2, <1>10, SameParents DEF Placed
  <2>2. Untouched(u, v)
    BY <1>1, <1>2, <1>3, <2>1, PlayersAbove
  <2>3. \A s \in Slots : w.inventory[s] # i
    BY <1>1, <1>10 DEF Sound, Placed, InSlots, IsPlayers, c
  <2>4. \A s \in Slots : SlotWeight(u, s) = SlotWeight(w, s)
    BY <1>2, <1>9, <2>3 DEF SlotWeight
  <2> QED BY <1>2, <2>2, <2>4 DEF Untouched
<1>11. ASSUME n >= w.count[i], NEW s \in Slots PROVE SlotWeight(w, s) <= SlotWeight(v, s)
  <2>1. d \in Nat
    BY <1>1, <1>11 DEF d
  <2>2. SlotWeight(u, s) <= SlotWeight(v, s)
    BY <1>2, <1>3, <2>1, WeighsMore
  <2>3. Weight(w, i) = w.count[i] /\ Weight(u, i) = n
    BY <1>1, <1>2, KindsAreApart, WorldTypes DEF Weight
  <2>4. SlotWeight(w, s) <= SlotWeight(u, s)
    <3>1. CASE w.inventory[s] = i
      BY <1>1, <1>2, <1>11, <2>3, <3>1, KindsAreApart DEF SlotWeight
    <3>2. CASE w.inventory[s] # i
      <4>1. SlotWeight(u, s) = SlotWeight(w, s)
        BY <1>2, <1>9, <3>2 DEF SlotWeight
      <4> QED BY <1>1, <4>1, WeightTypes
    <3> QED BY <3>1, <3>2
  <2>5. SlotWeight(w, s) \in Int /\ SlotWeight(u, s) \in Int /\ SlotWeight(v, s) \in Int
    BY <1>1, <1>2, <1>4, WeightTypes
  <2> QED BY <2>2, <2>4, <2>5
<1> QED BY <1>2, <1>4, <1>8, <1>10, <1>11 DEF c

\* An object that is in no list may have any number.
LEMMA CountIsSound ==
  ASSUME NEW w, Sound(w), NEW i \in Coins, w.parent[i] = Nowhere, NEW n \in 0 .. Stack,
         NEW v, v = WithCount(w, i, n)
  PROVE  /\ Sound(v)
         /\ v.parent = w.parent /\ v.inventory = w.inventory /\ v.content = w.content
         /\ v.ground = w.ground /\ v.count = [w.count EXCEPT ![i] = n]
         /\ Untouched(w, v)
<1>1. w \in Worlds /\ i \in Items
  BY KindsAreApart DEF Sound
<1>2. /\ v \in Worlds /\ Nested(v) /\ Placed(v)
      /\ v.parent = w.parent /\ v.inventory = w.inventory /\ v.content = w.content
      /\ v.ground = w.ground /\ v.carried = w.carried
      /\ v.count = [w.count EXCEPT ![i] = n]
      /\ \A b \in Bags : Off(v, b) = Off(w, b) - (IF w.parent[i] = b THEN n - w.count[i] ELSE 0)
      /\ \A x \in Items : x # i => Weight(v, x) = Weight(w, x)
  BY CountChanges
<1>3. \A b \in Bags : Off(w, b) = 0 /\ w.parent[i] # b
  BY <1>1, WeighedIsNotOff, KindsAreApart DEF Sound
<1>4. Sound(v)
  BY <1>2, <1>3, WeighedIsNotOff DEF Sound
<1>5. \A s \in Slots : w.inventory[s] # i /\ (w.inventory[s] = NoItem \/ w.inventory[s] \in Items)
  BY <1>1, KindsAreApart, WorldTypes DEF Sound, Placed, InSlots
<1>6. Untouched(w, v)
  BY <1>2, <1>5 DEF Untouched, SlotWeight
<1> QED BY <1>2, <1>4, <1>6

LEMMA ReleasedIsSound ==
  ASSUME NEW w, Sound(w), NEW i \in Coins, NEW v, v = Released(w, i)
  PROVE  /\ Sound(v)
         /\ v.parent = w.parent /\ v.inventory = w.inventory /\ v.content = w.content
         /\ v.ground = w.ground /\ \A x \in Items : w.parent[x] # Nowhere \/ x # i => v.count[x] = w.count[x]
         /\ Untouched(w, v)
<1>1. CASE w.parent[i] = Nowhere
  <2>1. 0 \in 0 .. Stack /\ v = WithCount(w, i, 0)
    BY <1>1, ItemsAssumption DEF Released, WithCount
  <2>2. /\ Sound(v)
        /\ v.parent = w.parent /\ v.inventory = w.inventory /\ v.content = w.content
        /\ v.ground = w.ground /\ v.count = [w.count EXCEPT ![i] = 0]
        /\ Untouched(w, v)
    BY <1>1, <2>1, CountIsSound
  <2> QED BY <1>1, <2>2, WorldTypes DEF Sound
<1>2. CASE w.parent[i] # Nowhere
  BY <1>2 DEF Released, Untouched
<1> QED BY <1>1, <1>2

\* What Taken does to the fields.
LEMMA TakenFields ==
  ASSUME NEW w \in Worlds, Placed(w), NEW i \in Items, NEW v, v = Taken(w, i)
  PROVE  /\ v \in Worlds /\ Placed(v)
         /\ v.parent = [w.parent EXCEPT ![i] = Nowhere]
         /\ \A s \in Slots : v.inventory[s] = IF w.inventory[s] = i THEN NoItem ELSE w.inventory[s]
         /\ \A b \in Bags : w.parent[i] # b => v.content[b] = w.content[b]
         /\ v.count = w.count /\ v.total = w.total /\ v.carried = w.carried
<1> DEFINE con == [b \in Bags |-> IF b = w.parent[i] THEN RemoveFirst(w.content[b], i) ELSE w.content[b]]
           inv == [s \in Slots |-> IF w.inventory[s] = i THEN NoItem ELSE w.inventory[s]]
           gro == RemoveFirst(w.ground, i)
           par == [w.parent EXCEPT ![i] = Nowhere]
<1>1. v = [w EXCEPT !.parent = par, !.content = con, !.inventory = inv, !.ground = gro]
  BY DEF Taken
<1>2. ASSUME NEW b \in Bags PROVE Lists(con[b], In(w, b) \ {i})
  <2>1. Lists(w.content[b], In(w, b))
    BY DEF Placed
  <2>2. CASE b = w.parent[i]
    BY <2>1, <2>2, ListWithout
  <2>3. CASE b # w.parent[i]
    <3>1. In(w, b) \ {i} = In(w, b) /\ con[b] = w.content[b]
      BY <2>3 DEF In
    <3> QED BY <2>1, <3>1
  <2> QED BY <2>2, <2>3
<1>3. Lists(gro, In(w, Tile) \ {i})
  BY ListWithout DEF Placed
<1>4. /\ par \in [Items -> Cylinders \cup {Nowhere}] /\ gro \in Seq(Items)
      /\ con \in [Bags -> Seq(Items)] /\ inv \in [Slots -> Items \cup {NoItem}]
  <2>1. par \in [Items -> Cylinders \cup {Nowhere}]
    BY DEF Worlds
  <2>2. inv \in [Slots -> Items \cup {NoItem}]
    BY WorldTypes
  <2>3. gro \in Seq(Items)
    BY <1>3 DEF Lists
  <2>4. con \in [Bags -> Seq(Items)]
    <3>1. \A b \in Bags : con[b] \in Seq(Items)
      BY <1>2 DEF Lists
    <3>2. con = [b \in Bags |-> con[b]]
      OBVIOUS
    <3> HIDE DEF con
    <3> QED BY <3>1, <3>2
  <2> QED BY <2>1, <2>2, <2>3, <2>4
<1>5. /\ \A s \in Slots : inv[s] = IF w.inventory[s] = i THEN NoItem ELSE w.inventory[s]
      /\ \A b \in Bags : w.parent[i] # b => con[b] = w.content[b]
      /\ \A x \in Items : par[x] = IF x = i THEN Nowhere ELSE w.parent[x]
  BY WorldTypes
<1>6. par = [w.parent EXCEPT ![i] = Nowhere]
  OBVIOUS
<1> HIDE DEF par, con, inv, gro
<1>7. /\ v \in Worlds
      /\ v.parent = par /\ v.content = con /\ v.inventory = inv /\ v.ground = gro
      /\ v.count = w.count /\ v.total = w.total /\ v.carried = w.carried
  BY <1>1, <1>4 DEF Worlds
<1>8. \A c : c # Nowhere => \A x \in Items : x \in In(v, c) <=> x \in In(w, c) \ {i}
  BY <1>5, <1>7 DEF In
<1>9. Placed(v)
  <2>1. ASSUME NEW b \in Bags PROVE Lists(v.content[b], In(v, b))
    <3>1. b # Nowhere
      BY KindsAreApart
    <3>2. \A x \in Items : x \in In(w, b) \ {i} <=> x \in In(v, b)
      BY <1>8, <3>1
    <3> QED BY <1>2, <1>7, <3>2, ListSame
  <2>2. Lists(v.ground, In(v, Tile))
    <3>1. \A x \in Items : x \in In(w, Tile) \ {i} <=> x \in In(v, Tile)
      BY <1>8, KindsAreApart
    <3> QED BY <1>3, <1>7, <3>1, ListSame
  <2>3. InSlots(v)
    <3>1. InSlots(w)
      BY DEF Placed
    <3>2. \A s, t \in Slots : inv[s] = inv[t] /\ inv[s] \in Items => s = t
      BY <1>5, <3>1, KindsAreApart DEF InSlots
    <3>3. ASSUME NEW x \in Items PROVE v.parent[x] = Player <=> \E s \in Slots : inv[s] = x
      <4>1. CASE x = i
        BY <1>5, <1>7, <4>1, KindsAreApart
      <4>2. CASE x # i
        <5>1. v.parent[x] = Player <=> \E s \in Slots : w.inventory[s] = x
          BY <1>5, <1>7, <3>1, <4>2 DEF InSlots
        <5>2. \A s \in Slots : inv[s] = x <=> w.inventory[s] = x
          BY <1>5, <4>2, KindsAreApart
        <5> QED BY <5>1, <5>2
      <4> QED BY <4>1, <4>2
    <3> QED BY <1>7, <3>2, <3>3 DEF InSlots
  <2> QED BY <2>1, <2>2, <2>3 DEF Placed
<1> QED BY <1>5, <1>6, <1>7, <1>9

\* A thing is taken out of the cylinder it is in, as a whole.
LEMMA TakeIsSound ==
  ASSUME NEW w, Sound(w), NEW i \in Items,
         NEW v, v = Taken(Weighs(w, w.parent[i], - Weight(w, i)), i)
  PROVE  /\ Sound(v)
         /\ v.parent = [w.parent EXCEPT ![i] = Nowhere] /\ v.count = w.count /\ v.carried = w.carried
         /\ \A s \in Slots : v.inventory[s] = IF w.inventory[s] = i THEN NoItem ELSE w.inventory[s]
         /\ \A b \in Bags : w.parent[i] # b => v.content[b] = w.content[b]
         /\ ~IsPlayers(w, w.parent[i]) => Untouched(w, v)
<1> DEFINE c == w.parent[i]
           d == - Weight(w, i)
           u == Weighs(w, c, d)
<1>1. w \in Worlds /\ Weight(w, i) \in Int /\ d \in Int
  BY WeightTypes DEF Sound
<1>2. /\ u \in Worlds
      /\ u.parent = w.parent /\ u.content = w.content /\ u.inventory = w.inventory
      /\ u.ground = w.ground /\ u.count = w.count /\ u.carried = w.carried
      /\ \A b \in Bags : u.total[b] = w.total[b] + (IF b \in Holders(w, c) THEN d ELSE 0)
  <2> HIDE DEF d, c
  <2> QED BY <1>1, WeighsFields
<1>3. v = Taken(u, i)
  OBVIOUS
<1>4. \A b \in Bags : Off(u, b) = IF b = c THEN d ELSE 0
  <2> HIDE DEF d, c
  <2>1. \A b \in Bags : Off(w, b) = 0
    BY <1>1, WeighedIsNotOff DEF Sound
  <2>2. \A b \in Bags : Off(u, b) = Off(w, b) + (IF b = c THEN d ELSE 0)
    BY <1>1, WeighsOff DEF Sound
  <2> QED BY <1>1, <2>1, <2>2
<1>5. Weight(u, i) = Weight(w, i)
  <2>1. i \in Bags => u.total[i] = w.total[i]
    BY <1>1, <1>2, WorldTypes DEF Sound, Nested
  <2> QED BY <1>2, <2>1 DEF Weight
<1>6. ~IsPlayers(w, c) => Untouched(w, u)
  <2> HIDE DEF d, c
  <2>1. InSlots(w)
    BY DEF Sound, Placed
  <2> QED BY <1>1, <2>1, PlayersAbove
<1>7. Placed(u)
  BY <1>2 DEF Sound, Placed, InSlots, In
<1>8. d = - Weight(w, i) /\ c = w.parent[i]
  OBVIOUS
<1> HIDE DEF u, d, c
<1>9. /\ v \in Worlds /\ Placed(v)
      /\ v.parent = [u.parent EXCEPT ![i] = Nowhere]
      /\ \A s \in Slots : v.inventory[s] = IF u.inventory[s] = i THEN NoItem ELSE u.inventory[s]
      /\ \A b \in Bags : u.parent[i] # b => v.content[b] = u.content[b]
      /\ v.count = u.count /\ v.total = u.total /\ v.carried = u.carried
  BY <1>2, <1>3, <1>7, TakenFields
<1>10. \A x \in Items : v.parent[x] = IF x = i THEN Nowhere ELSE w.parent[x]
  BY <1>2, <1>9, WorldTypes
<1>11. Nested(v)
  <2>1. \A b \in Bags : v.parent[b] = IF b = i THEN Nowhere ELSE w.parent[b]
    BY <1>10, KindsAreApart
  <2>2. Nested(w)
    BY DEF Sound
  <2> QED BY <2>1, <2>2, NestedWithout
<1>12. \A x \in Items : Weight(v, x) = Weight(u, x)
  BY <1>9 DEF Weight
<1>13. ASSUME NEW b \in Bags PROVE Off(v, b) = 0
  <2>1. \A x \in Items : x # i => Share(v, b, x) = Share(u, b, x)
    BY <1>2, <1>10, <1>12 DEF Share
  <2>2. ContentWeight(v, b) = ContentWeight(u, b) - Share(u, b, i) + Share(v, b, i)
    BY <1>2, <1>9, <2>1, ContentChanges
  <2>3. Share(v, b, i) = 0 /\ Share(u, b, i) = (IF c = b THEN Weight(w, i) ELSE 0)
    BY <1>2, <1>5, <1>8, <1>10, KindsAreApart DEF Share
  <2>4. ContentWeight(u, b) \in Int /\ u.total[b] \in Int
    BY <1>2, WeightTypes, WorldTypes
  <2> QED BY <1>1, <1>4, <1>8, <1>9, <2>2, <2>3, <2>4 DEF Off
<1>14. Sound(v)
  BY <1>9, <1>11, <1>13, WeighedIsNotOff DEF Sound
<1>15. ASSUME ~IsPlayers(w, c) PROVE Untouched(w, v)
  <2>1. \A s \in Slots : w.inventory[s] # i
    BY <1>8, <1>15 DEF Sound, Placed, InSlots, IsPlayers
  <2>2. \A s \in Slots : v.inventory[s] = u.inventory[s] /\ (u.inventory[s] = NoItem \/ u.inventory[s] \in Items)
    BY <1>2, <1>9, <2>1, WorldTypes
  <2>3. \A s \in Slots : SlotWeight(v, s) = SlotWeight(u, s)
    BY <1>12, <2>2 DEF SlotWeight
  <2> QED BY <1>6, <1>9, <1>15, <2>3 DEF Untouched
<1> QED BY <1>2, <1>8, <1>9, <1>14, <1>15

\* n of the things of stack i, or the whole of it.
LEMMA RemoveIsSound ==
  ASSUME NEW w, Sound(w), NEW i \in Items, NEW n \in Int, i \in Coins => n \in 0 .. w.count[i],
         NEW v, v = RemoveThing(w, i, n)
  PROVE  /\ Sound(v) /\ v.carried = w.carried
         /\ \A x \in Items : v.parent[x] = IF x = i /\ (i \notin Coins \/ n = w.count[i]) THEN Nowhere
                                         ELSE w.parent[x]
         /\ \A x \in Items : v.count[x] = IF x = i /\ i \in Coins /\ n # w.count[i] THEN w.count[i] - n
                                        ELSE w.count[x]
         /\ \A s \in Slots : v.inventory[s] = w.inventory[s] \/ (v.inventory[s] = NoItem /\ w.inventory[s] = i)
         /\ \A b \in Bags : w.parent[i] # b => v.content[b] = w.content[b]
         /\ ~IsPlayers(w, w.parent[i]) => Untouched(w, v)
<1>0. w.parent \in [Items -> Cylinders \cup {Nowhere}] /\ w.count \in [Items -> 0 .. Stack]
  BY DEF Sound, Worlds
<1>1. CASE i \in Coins /\ n # w.count[i]
  <2>1. w.count[i] - n \in 0 .. Stack
    <3>1. w.count[i] \in 0 .. Stack /\ Stack \in Nat
      BY WorldTypes, ItemsAssumption DEF Sound
    <3> QED BY <1>1, <3>1
  <2>2. v = UpdateThing(w, i, w.count[i] - n)
    BY <1>1 DEF RemoveThing
  <2>3. /\ Sound(v)
        /\ v.parent = w.parent /\ v.inventory = w.inventory /\ v.content = w.content
        /\ v.carried = w.carried
        /\ v.count = [w.count EXCEPT ![i] = w.count[i] - n]
        /\ ~IsPlayers(w, w.parent[i]) => Untouched(w, v)
    BY <1>1, <2>1, <2>2, UpdateIsSound
  <2> QED BY <1>0, <1>1, <2>3
<1>2. CASE ~(i \in Coins /\ n # w.count[i])
  <2>1. v = Taken(Weighs(w, w.parent[i], - Weight(w, i)), i)
    BY <1>2 DEF RemoveThing
  <2>2. /\ Sound(v)
        /\ v.parent = [w.parent EXCEPT ![i] = Nowhere] /\ v.count = w.count /\ v.carried = w.carried
        /\ \A s \in Slots : v.inventory[s] = IF w.inventory[s] = i THEN NoItem ELSE w.inventory[s]
        /\ \A b \in Bags : w.parent[i] # b => v.content[b] = w.content[b]
        /\ ~IsPlayers(w, w.parent[i]) => Untouched(w, v)
    BY <2>1, TakeIsSound
  <2> QED BY <1>0, <1>2, <2>2
<1> QED BY <1>1, <1>2

\* In v, thing i lies in c, and everything else where it lies in w.
Places(w, v, i, c) == \A x \in Items : v.parent[x] = IF x = i THEN c ELSE w.parent[x]

\* A thing that is nowhere gets a parent, and nothing is told.
LEMMA ParentIsSet ==
  ASSUME NEW w, Sound(w), NEW i \in Items, w.parent[i] = Nowhere, NEW c \in Cylinders,
         i \notin Holders(w, c), NEW v \in Worlds,
         Places(w, v, i, c), v.count = w.count, v.total = w.total
  PROVE  /\ Nested(v)
         /\ \A b \in Bags : Off(v, b) = IF b = c THEN - Weight(w, i) ELSE 0
         /\ \A x \in Items : Weight(v, x) = Weight(w, x)
         /\ Holders(v, c) = Holders(w, c)
<1>1. w \in Worlds /\ Weight(w, i) \in Int
  BY WeightTypes DEF Sound
<1>2. \A x \in Items : v.parent[x] = IF x = i THEN c ELSE w.parent[x]
  BY DEF Places
<1>3. Nested(v)
  <2>1. \A b \in Bags : v.parent[b] = IF b = i THEN c ELSE w.parent[b]
    BY <1>2, KindsAreApart
  <2>2. Nested(w)
    BY DEF Sound
  <2> QED BY <2>1, <2>2, NestedWith
<1>4. \A x \in Items : Weight(v, x) = Weight(w, x)
  BY DEF Weight
<1>5. ASSUME NEW b \in Bags PROVE Off(v, b) = IF b = c THEN - Weight(w, i) ELSE 0
  <2>1. \A x \in Items : x # i => Share(v, b, x) = Share(w, b, x)
    BY <1>2, <1>4 DEF Share
  <2>2. ContentWeight(v, b) = ContentWeight(w, b) - Share(w, b, i) + Share(v, b, i)
    BY <1>1, <2>1, ContentChanges
  <2>3. Share(w, b, i) = 0 /\ Share(v, b, i) = IF b = c THEN Weight(w, i) ELSE 0
    BY <1>2, <1>4, KindsAreApart DEF Share
  <2>4. Off(w, b) = 0 /\ ContentWeight(w, b) \in Int /\ w.total[b] \in Int
    BY <1>1, WeighedIsNotOff, WeightTypes, WorldTypes DEF Sound
  <2>5. ContentWeight(v, b) = ContentWeight(w, b) + (IF b = c THEN Weight(w, i) ELSE 0)
    BY <1>1, <2>2, <2>3, <2>4
  <2> QED BY <1>1, <2>4, <2>5 DEF Off
<1>6. Holders(v, c) = Holders(w, c)
  <2>1. \A b \in Holders(w, c) : v.parent[b] = w.parent[b]
    BY <1>2, HoldersFacts, KindsAreApart
  <2> QED BY <2>1, SameHolders
<1> QED BY <1>2, <1>3, <1>4, <1>5, <1>6

\* The other lists stay as they are.
LEMMA OtherList ==
  ASSUME NEW w, NEW v, NEW i \in Items, NEW c, Places(w, v, i, c),
         w.parent[i] = Nowhere, NEW list, NEW e, e # Nowhere, e # c, Lists(list, In(w, e))
  PROVE  Lists(list, In(v, e))
<1>1. \A x \in Items : x \in In(w, e) <=> x \in In(v, e)
  BY DEF In, Places
<1> QED BY <1>1, ListSame

LEMMA ListOfParent ==
  ASSUME NEW w, NEW v, NEW i \in Items, NEW c, Places(w, v, i, c),
         w.parent[i] = Nowhere, NEW list, c # Nowhere, Lists(list, In(w, c)), NEW l, l = <<i>> \o list
  PROVE  Lists(l, In(v, c))
<1>1. i \notin In(w, c) /\ \A x \in Items : x \in In(w, c) \cup {i} <=> x \in In(v, c)
  BY DEF In, Places
<1>2. Lists(l, In(w, c) \cup {i})
  BY <1>1, ListWith
<1> QED BY <1>1, <1>2, ListSame

\* The cylinder has a place n.
Has(c, n) == c = Tile \/ (c = Player /\ n \in Slots) \/ (c \in Bags /\ n < Capacity[c])

LEMMA AddIsSound ==
  ASSUME NEW w, Sound(w), NEW i \in Items, w.parent[i] = Nowhere, NEW c \in Cylinders,
         i \notin Holders(w, c), NEW n \in Int,
         c = Player /\ n \in Slots => w.inventory[n] = NoItem,
         NEW v, v = AddThing(w, c, n, i)
  PROVE  /\ Sound(v) /\ v.count = w.count /\ v.carried = w.carried
         /\ \A x \in Items : v.parent[x] = IF x = i /\ Has(c, n) THEN c ELSE w.parent[x]
         /\ \A b \in Bags : b # c => v.content[b] = w.content[b]
         /\ \A s \in Slots : v.inventory[s] = IF c = Player /\ s = n THEN i ELSE w.inventory[s]
         /\ ~IsPlayers(w, c) => Untouched(w, v)
<1>0. /\ w \in Worlds /\ Placed(w) /\ Weight(w, i) \in Int
      /\ c \in Items \cup {Player, Tile} /\ c # Nowhere /\ \A b \in Bags : b # Nowhere
      /\ Capacity \in [Bags -> Nat] /\ Lists(w.ground, In(w, Tile))
      /\ \A b \in Bags : Lists(w.content[b], In(w, b))
  BY WeightTypes, KindsAreApart, ItemsAssumption DEF Sound, Cylinders, Placed
<1>1. CASE c = Tile
  <2> DEFINE par == [w.parent EXCEPT ![i] = c]
             gro == <<i>> \o w.ground
  <2>1. v = [w EXCEPT !.parent = par, !.ground = gro]
    BY <1>1 DEF AddThing
  <2>2. /\ v \in Worlds
        /\ v.parent = par /\ v.content = w.content /\ v.inventory = w.inventory
        /\ v.ground = gro
        /\ v.count = w.count /\ v.total = w.total /\ v.carried = w.carried
    <3>1. w.ground \in Seq(Items) /\ w.parent \in [Items -> Cylinders \cup {Nowhere}]
      BY <1>0 DEF Worlds
    <3>2. gro \in Seq(Items) /\ par \in [Items -> Cylinders \cup {Nowhere}]
      BY <3>1
    <3> HIDE DEF par, gro
    <3> QED BY <1>0, <2>1, <3>2 DEF Worlds
  <2>3. /\ Nested(v) /\ \A b \in Bags : Off(v, b) = IF b = c THEN - Weight(w, i) ELSE 0
        /\ \A x \in Items : Weight(v, x) = Weight(w, x)
        /\ Places(w, v, i, c)
    <3>1. Places(w, v, i, c)
      BY <1>0, <2>2, WorldTypes DEF Places
    <3>2. v \in Worlds /\ v.count = w.count /\ v.total = w.total
      BY <2>2
    <3> QED BY <1>0, <3>1, <3>2, ParentIsSet
  <2>4. Weighed(v)
    BY <1>1, <2>2, <2>3, KindsAreApart, WeighedIsNotOff
  <2>5. \A b \in Bags : Lists(v.content[b], In(v, b))
    BY <1>0, <1>1, <2>2, <2>3, OtherList, KindsAreApart
  <2>6. Lists(v.ground, In(v, Tile))
    <3>1. Places(w, v, i, c) /\ Lists(w.ground, In(w, c)) /\ v.ground = <<i>> \o w.ground
      BY <1>0, <1>1, <2>2, <2>3
    <3>2. Lists(v.ground, In(v, c))
      BY <1>0, <3>1, ListOfParent
    <3> QED BY <1>1, <3>2
  <2>7. InSlots(v)
    BY <1>0, <1>1, <2>2, <2>3, KindsAreApart DEF Placed, InSlots, Places
  <2>8. \A s \in Slots : SlotWeight(v, s) = SlotWeight(w, s)
    BY <1>0, <2>2, <2>3, WorldTypes DEF SlotWeight
  <2> QED BY <1>1, <2>2, <2>3, <2>4, <2>5, <2>6, <2>7, <2>8, KindsAreApart
          DEF Sound, Placed, Has, Untouched, Places
<1>2. CASE c = Player /\ n \notin Slots
  <2>1. v = w
    BY <1>2, KindsAreApart DEF AddThing
  <2> QED BY <1>2, <2>1, KindsAreApart DEF Has, Untouched
<1>3. CASE c = Player /\ n \in Slots
  <2> DEFINE par == [w.parent EXCEPT ![i] = c]
             inv == [w.inventory EXCEPT ![n] = i]
  <2>1. v = [w EXCEPT !.parent = par, !.inventory = inv]
    BY <1>3, KindsAreApart DEF AddThing
  <2>2. /\ v \in Worlds
        /\ v.parent = par /\ v.content = w.content /\ v.inventory = inv
        /\ v.ground = w.ground
        /\ v.count = w.count /\ v.total = w.total /\ v.carried = w.carried
    <3>1. /\ w.inventory \in [Slots -> Items \cup {NoItem}]
          /\ w.parent \in [Items -> Cylinders \cup {Nowhere}]
      BY <1>0 DEF Worlds
    <3>2. inv \in [Slots -> Items \cup {NoItem}] /\ par \in [Items -> Cylinders \cup {Nowhere}]
      BY <1>3, <3>1
    <3> HIDE DEF par, inv
    <3> QED BY <1>0, <2>1, <3>2 DEF Worlds
  <2>3. /\ Nested(v) /\ \A b \in Bags : Off(v, b) = IF b = c THEN - Weight(w, i) ELSE 0
        /\ Places(w, v, i, c)
    <3>1. Places(w, v, i, c)
      BY <1>0, <2>2, WorldTypes DEF Places
    <3> QED BY <1>0, <2>2, <3>1, ParentIsSet
  <2>4. Weighed(v)
    BY <1>3, <2>2, <2>3, KindsAreApart, WeighedIsNotOff
  <2>5. \A b \in Bags : Lists(v.content[b], In(v, b))
    BY <1>0, <1>3, <2>2, <2>3, OtherList, KindsAreApart
  <2>6. Lists(v.ground, In(v, Tile))
    BY <1>0, <1>3, <2>2, <2>3, OtherList, KindsAreApart
  <2>7. \A s \in Slots : v.inventory[s] = IF s = n THEN i ELSE w.inventory[s]
    BY <1>0, <2>2, WorldTypes
  <2>8. InSlots(v)
    <3>1. InSlots(w) /\ \A s \in Slots : w.inventory[s] # i
      BY <1>0, KindsAreApart DEF Placed, InSlots
    <3>2. \A s, t \in Slots : v.inventory[s] = v.inventory[t] /\ v.inventory[s] \in Items => s = t
      BY <2>7, <3>1 DEF InSlots
    <3>3. ASSUME NEW x \in Items PROVE v.parent[x] = Player <=> \E s \in Slots : v.inventory[s] = x
      <4>1. CASE x = i
        BY <1>3, <2>3, <2>7, <4>1 DEF Places
      <4>2. CASE x # i
        <5>1. v.parent[x] = Player <=> \E s \in Slots : w.inventory[s] = x
          BY <2>3, <3>1, <4>2 DEF InSlots, Places
        <5>2. \A s \in Slots : w.inventory[s] = x <=> v.inventory[s] = x
          BY <1>3, <2>7, <4>2, KindsAreApart
        <5> QED BY <5>1, <5>2
      <4> QED BY <4>1, <4>2
    <3> QED BY <3>2, <3>3 DEF InSlots
  <2>9. IsPlayers(w, c)
    BY <1>3 DEF IsPlayers
  <2> QED BY <1>3, <2>2, <2>3, <2>4, <2>5, <2>6, <2>7, <2>8, <2>9, KindsAreApart
          DEF Sound, Placed, Has, Places
<1>4. CASE c \in Bags /\ n >= Capacity[c]
  <2>1. v = w
    BY <1>4, KindsAreApart DEF AddThing
  <2>2. ~Has(c, n)
    BY <1>0, <1>4, KindsAreApart DEF Has
  <2> QED BY <1>4, <2>1, <2>2, KindsAreApart DEF Untouched
<1>5. CASE c \in Bags /\ ~(n >= Capacity[c])
  <2> DEFINE u == [w EXCEPT !.parent[i] = c, !.content[c] = <<i>> \o @]
             d == Weight(w, i)
  <2>1. v = Weighs(u, c, d)
    BY <1>5, KindsAreApart DEF AddThing
  <2>2. /\ u \in Worlds
        /\ u.parent = [w.parent EXCEPT ![i] = c] /\ u.content = [w.content EXCEPT ![c] = <<i>> \o w.content[c]]
        /\ u.inventory = w.inventory /\ u.ground = w.ground
        /\ u.count = w.count /\ u.total = w.total /\ u.carried = w.carried
    <3>1. w.content[c] \in Seq(Items)
      BY <1>0, <1>5, WorldTypes
    <3>2. <<i>> \o w.content[c] \in Seq(Items)
      BY <3>1
    <3> DEFINE l == <<i>> \o w.content[c]
    <3>3. l \in Seq(Items) /\ u = [w EXCEPT !.parent[i] = c, !.content[c] = l]
      BY <3>2
    <3> HIDE DEF l
    <3>4. /\ u \in Worlds
          /\ u.parent = [w.parent EXCEPT ![i] = c] /\ u.content = [w.content EXCEPT ![c] = l]
          /\ u.inventory = w.inventory /\ u.ground = w.ground
          /\ u.count = w.count /\ u.total = w.total /\ u.carried = w.carried
      BY <1>0, <3>3 DEF Worlds
    <3> QED BY <3>4 DEF l
  <2> HIDE DEF u
  <2>3. /\ Nested(u) /\ \A b \in Bags : Off(u, b) = IF b = c THEN - Weight(w, i) ELSE 0
        /\ \A x \in Items : Weight(u, x) = Weight(w, x)
        /\ Places(w, u, i, c)
        /\ Holders(u, c) = Holders(w, c)
    <3>1. Places(w, u, i, c)
      BY <1>0, <2>2, WorldTypes DEF Places
    <3> QED BY <1>0, <2>2, <3>1, ParentIsSet
  <2>4. /\ v \in Worlds
        /\ v.parent = u.parent /\ v.content = u.content /\ v.inventory = u.inventory
        /\ v.ground = u.ground /\ v.count = u.count /\ v.carried = u.carried
    BY <1>0, <2>1, <2>2, WeighsFields
  <2>5. Nested(v) /\ Places(w, v, i, c)
    BY <2>3, <2>4, SameParents DEF Places
  <2>6. ASSUME NEW b \in Bags PROVE Off(v, b) = 0
    <3>1. d = Weight(w, i) /\ d \in Int
      BY <1>0
    <3> HIDE DEF d
    <3>2. Off(v, b) = Off(u, b) + (IF b = c THEN d ELSE 0)
      BY <2>1, <2>2, <2>3, <3>1, WeighsOff
    <3> QED BY <1>0, <2>3, <3>1, <3>2
  <2>7. Weighed(v)
    BY <2>4, <2>6, WeighedIsNotOff
  <2>8. ASSUME NEW b \in Bags PROVE Lists(v.content[b], In(v, b))
    <3>1. Lists(w.content[b], In(w, b))
      BY <1>0 DEF Placed
    <3>2. CASE b # c
      <4>1. v.content[b] = w.content[b]
        BY <1>0, <2>2, <2>4, <3>2, WorldTypes
      <4> QED BY <1>0, <2>4, <2>5, <3>1, <3>2, <4>1, OtherList
    <3>3. CASE b = c
      <4>1. v.content[b] = <<i>> \o w.content[b]
        BY <1>0, <2>2, <2>4, <3>3, WorldTypes
      <4>2. Places(w, v, i, c) /\ Lists(w.content[c], In(w, c)) /\ v.content[c] = <<i>> \o w.content[c]
        BY <2>5, <3>1, <3>3, <4>1
      <4>3. Lists(v.content[c], In(v, c))
        BY <1>0, <4>2, ListOfParent
      <4> QED BY <3>3, <4>3
    <3> QED BY <3>2, <3>3
  <2>9. Lists(v.ground, In(v, Tile))
    BY <1>0, <1>5, <2>2, <2>4, <2>5, OtherList, KindsAreApart
  <2>10. InSlots(u) /\ InSlots(v)
    BY <1>0, <1>5, <2>2, <2>3, <2>4, KindsAreApart DEF Placed, InSlots, Places
  <2>11. \A b \in Bags : b # c => v.content[b] = w.content[b]
    BY <1>0, <2>2, <2>4, WorldTypes
  <2>12. ASSUME ~IsPlayers(w, c) PROVE Untouched(w, v)
    <3>1. ~IsPlayers(u, c)
      <4>1. \A b \in Holders(w, c) : u.parent[b] = w.parent[b]
        BY <2>3, HoldersFacts, KindsAreApart DEF Places
      <4> QED BY <2>3, <2>12, <4>1 DEF IsPlayers
    <3>2. Untouched(u, v)
      BY <1>0, <2>1, <2>2, <2>10, <3>1, PlayersAbove
    <3>3. \A s \in Slots : SlotWeight(u, s) = SlotWeight(w, s)
      BY <1>0, <2>2, <2>3, WorldTypes DEF SlotWeight
    <3> QED BY <2>2, <3>2, <3>3 DEF Untouched
  <2>13. Has(c, n) /\ c # Player
    BY <1>0, <1>5, KindsAreApart DEF Has
  <2> QED BY <2>2, <2>4, <2>5, <2>7, <2>8, <2>9, <2>10, <2>11, <2>12, <2>13 DEF Sound, Placed, Places
<1>6. c \in Bags \/ c = Player \/ c = Tile
  BY DEF Cylinders
<1> QED BY <1>1, <1>2, <1>3, <1>4, <1>5, <1>6

-----------------------------------------------------------------------------
(* Where a thing is sent                                                     *)

LEMMA GreatestNumber ==
  ASSUME NEW m \in Nat, NEW S \in SUBSET (0 .. m), S # {}
  PROVE  Max(S) \in S /\ \A y \in S : y <= Max(S)
<1> DEFINE T == {m - x : x \in S}
<1>1. T \in SUBSET Nat /\ T # {}
  <2>1. \A x \in S : m - x \in Nat
    OBVIOUS
  <2>2. T # {}
    OBVIOUS
  <2> QED BY <2>1, <2>2
<1>2. PICK t \in T : \A y \in T : t <= y
  BY <1>1, LeastNumber
<1>3. PICK x \in S : t = m - x
  BY <1>2
<1>4. \A y \in S : x >= y
  BY <1>2, <1>3
<1>5. Max(S) \in S /\ \A y \in S : Max(S) >= y
  BY <1>3, <1>4 DEF Max
<1> QED BY <1>5

\* Where the loop of internalMoveItem ends.
Reached(w, d) ==
  /\ d = To(d.cyl, d.index, d.item)
  /\ d.cyl \in Cylinders /\ d.index \in Int /\ d.item \in Items \cup {NoItem}
  /\ d.cyl = Player /\ d.index \in Slots => d.item = w.inventory[d.index]
  /\ d.item \in Coins => w.parent[d.item] = d.cyl
  /\ d.cyl \in Bags /\ d.index >= Capacity[d.cyl]
       => /\ IsFull(w, d.cyl) /\ d.item \in Coins
          /\ ThingAt(w, d.cyl, d.index - 1) = d.item

\* Where a new stack is added.
Offered(w, d) ==
  /\ d.cyl \in Cylinders /\ d.index \in Int /\ d.item \in Items \cup {NoItem}
  /\ d.item \in Coins => w.parent[d.item] = d.cyl /\ (d.cyl = Tile \/ HasRoom(w, d.item))
  /\ d.cyl = Player /\ d.index \in Slots /\ d.item \notin Coins => w.inventory[d.index] = NoItem
  /\ d.cyl \in Bags /\ d.item \notin Coins => d.index < Capacity[d.cyl]

LEMMA ToFields ==
  ASSUME NEW c, NEW n, NEW t
  PROVE  To(c, n, t).cyl = c /\ To(c, n, t).index = n /\ To(c, n, t).item = t
BY DEF To

\* What lies in a list has its owner for a parent.
LEMMA ListedIsThere ==
  ASSUME NEW w \in Worlds, Placed(w)
  PROVE  /\ \A c \in Bags : \A m \in DOMAIN w.content[c] :
              w.content[c][m] \in Items /\ w.parent[w.content[c][m]] = c
         /\ \A m \in DOMAIN w.ground : w.ground[m] \in Items /\ w.parent[w.ground[m]] = Tile
         /\ \A s \in Slots : w.inventory[s] \in Items => w.parent[w.inventory[s]] = Player
<1>1. ASSUME NEW list, NEW c, Lists(list, In(w, c)), NEW m \in DOMAIN list
      PROVE  list[m] \in Items /\ w.parent[list[m]] = c
  <2>1. list[m] \in Items
    BY <1>1, ElementOfSeq DEF Lists
  <2>2. list[m] \in In(w, c)
    BY <1>1, <2>1 DEF Lists
  <2> QED BY <2>1, <2>2 DEF In
<1> QED BY <1>1 DEF Placed, InSlots

LEMMA SentInABag ==
  ASSUME NEW w \in Worlds, Placed(w), NEW c \in Bags, NEW n \in Int, NEW i \in Items
  PROVE  /\ Reached(w, BagDestination(w, c, n, i))
         /\ n = Anywhere => Offered(w, BagDestination(w, c, n, i))
<1> DEFINE list == w.content[c]
           stacks == {m \in DOMAIN list : HasRoom(w, list[m])}
           t == ThingAt(w, c, n)
           d == BagDestination(w, c, n, i)
<1>0. /\ list \in Seq(Items) /\ Len(list) \in Nat /\ DOMAIN list = 1 .. Len(list)
      /\ Capacity[c] \in Nat \ {0} /\ Capacity \in [Bags -> Nat \ {0}]
      /\ c # Player /\ c # Tile /\ NoItem \notin Coins /\ NoItem \notin Bags
      /\ Player \notin Bags /\ Bags \subseteq Cylinders /\ Anywhere = -1 /\ Anywhere # MoveUp
      /\ Bags \cap Coins = {} /\ \A s \in Slots : s # Anywhere
  BY WorldTypes, ItemsAssumption, KindsAreApart DEF Cylinders, Anywhere, MoveUp
<1>1. \A m \in DOMAIN list : list[m] \in Items /\ w.parent[list[m]] = c
  BY ListedIsThere
<1>2. ASSUME NEW b \in Bags, d = To(b, Anywhere, NoItem) PROVE Reached(w, d) /\ Offered(w, d)
  <2>1. d.cyl = b /\ d.index = -1 /\ d.item = NoItem
    BY <1>0, <1>2, ToFields
  <2>2. ~(-1 >= Capacity[b]) /\ -1 < Capacity[b] /\ b # Player /\ b \in Cylinders
    BY <1>0
  <2> HIDE DEF d
  <2> QED BY <1>0, <1>2, <2>1, <2>2 DEF Reached, Offered
<1>3. CASE n = MoveUp
  <2>1. d = To(IF w.parent[c] \in Bags THEN w.parent[c] ELSE c, Anywhere, NoItem)
    BY <1>3 DEF BagDestination
  <2> HIDE DEF d
  <2>2. Reached(w, d)
    BY <1>2, <2>1
  <2> QED BY <1>0, <1>3, <2>2 DEF d
<1>4. CASE n # MoveUp /\ i \in Coins /\ w.parent[i] # c /\ stacks # {}
  <2> DEFINE m == Max(stacks)
  <2>1. d = To(c, m, list[m])
    BY <1>4 DEF BagDestination
  <2>2. m \in stacks
    <3>1. stacks \in SUBSET (0 .. Len(list)) /\ Len(list) \in Nat
      BY <1>0
    <3> HIDE DEF stacks
    <3> QED BY <1>4, <3>1, GreatestNumber
  <2>3. m \in 1 .. Len(list) /\ HasRoom(w, list[m]) /\ list[m] \in Coins /\ list[m] \in Items
        /\ w.parent[list[m]] = c
    BY <1>0, <1>1, <2>2 DEF HasRoom
  <2> HIDE DEF m, stacks
  <2>4. d.cyl = c /\ d.index = m /\ d.item = list[m]
    BY <2>1, ToFields
  <2>5. ThingAt(w, c, m - 1) = list[m]
    BY <1>0, <2>3 DEF ThingAt
  <2>6. m >= Capacity[c] => IsFull(w, c)
    BY <1>0, <2>3 DEF IsFull
  <2> HIDE DEF d, list
  <2> QED BY <1>0, <2>1, <2>3, <2>4, <2>5, <2>6 DEF Reached, Offered, d
<1>5. CASE n # MoveUp /\ ~(i \in Coins /\ w.parent[i] # c /\ stacks # {}) /\ (n = Anywhere \/ n >= Capacity[c])
  <2>1. d = To(c, Anywhere, NoItem)
    BY <1>5 DEF BagDestination
  <2> HIDE DEF d
  <2> QED BY <1>2, <2>1 DEF d
<1>6. CASE n # MoveUp /\ ~(i \in Coins /\ w.parent[i] # c /\ stacks # {}) /\ ~(n = Anywhere \/ n >= Capacity[c])
  <2>1. CASE t \in Bags
    <3>1. d = To(t, Anywhere, NoItem)
      BY <1>6, <2>1 DEF BagDestination
    <3> HIDE DEF d
    <3> QED BY <1>2, <2>1, <3>1 DEF d
  <2>2. CASE t \notin Bags
    <3>1. d = To(c, n, t)
      BY <1>6, <2>2 DEF BagDestination
    <3>2. t \in Items \cup {NoItem} /\ (t \in Coins => w.parent[t] = c)
      BY <1>0, <1>1 DEF ThingAt
    <3> HIDE DEF d, t
    <3>3. d.cyl = c /\ d.index = n /\ d.item = t
      BY <3>1, ToFields
    <3>4. Reached(w, d)
      BY <1>0, <1>6, <3>1, <3>2, <3>3 DEF Reached
    <3> QED BY <1>6, <3>4 DEF d
  <2> QED BY <2>1, <2>2
<1> QED BY <1>3, <1>4, <1>5, <1>6

LEMMA SentOnThePlayer ==
  ASSUME NEW w \in Worlds, Placed(w), NEW n \in Int, NEW i \in Items,
         NEW d \in PlayerDestinations(w, n, i)
  PROVE  /\ d.cyl \in Cylinders /\ d.index \in Int
         /\ d.cyl \notin Bags => Reached(w, d)
         /\ n \notin Slots => Offered(w, d)
<1>0. /\ NoItem \notin Coins /\ NoItem \notin Bags /\ Player \notin Bags /\ Player # Tile /\ Tile \notin Bags
      /\ Bags \subseteq Cylinders /\ Player \in Cylinders /\ Anywhere = -1 /\ Anywhere \notin Slots
      /\ Slots \subseteq Int /\ Capacity \in [Bags -> Nat \ {0}]
  BY ItemsAssumption, KindsAreApart DEF Cylinders, Anywhere
<1>1. \A s \in Slots : /\ w.inventory[s] \in Items \cup {NoItem}
                       /\ w.inventory[s] \in Coins => w.parent[w.inventory[s]] = Player
  BY WorldTypes, KindsAreApart, ListedIsThere
<1>2. ASSUME NEW s \in Slots, d = To(Player, s, w.inventory[s]), w.inventory[s] \in Coins => n \in Slots \/ HasRoom(w, w.inventory[s]),
             w.inventory[s] = NoItem \/ w.inventory[s] \in Coins \/ n \in Slots
      PROVE  d.cyl \in Cylinders /\ d.index \in Int /\ Reached(w, d) /\ (n \notin Slots => Offered(w, d))
  <2>1. d.cyl = Player /\ d.index = s /\ d.item = w.inventory[s]
    BY <1>2, ToFields
  <2> QED BY <1>0, <1>1, <1>2, <2>1 DEF Reached, Offered
<1>3. CASE n \in Slots /\ w.inventory[n] \in Bags
  <2>1. d.cyl = w.inventory[n] /\ d.index = Anywhere
    BY <1>3, ToFields DEF PlayerDestinations
  <2> QED BY <1>0, <1>3, <2>1
<1>4. CASE n \in Slots /\ w.inventory[n] \notin Bags
  <2>1. d = To(Player, n, w.inventory[n])
    BY <1>4 DEF PlayerDestinations
  <2> QED BY <1>2, <1>4, <2>1
<1>5. CASE n \notin Slots /\ StacksOn(w, i) # {}
  <2>1. d \in StacksOn(w, i)
    BY <1>5 DEF PlayerDestinations
  <2>2. CASE \E s \in Slots : HasRoom(w, w.inventory[s]) /\ d = To(Player, s, w.inventory[s])
    BY <1>2, <2>2 DEF HasRoom
  <2>3. ASSUME NEW c \in Bags, NEW m \in DOMAIN w.content[c], HasRoom(w, w.content[c][m]),
               d = To(c, m - 1, w.content[c][m])
        PROVE  d.cyl \in Cylinders /\ d.index \in Int /\ d.cyl \in Bags /\ Offered(w, d)
    <3>1. d.cyl = c /\ d.index = m - 1 /\ d.item = w.content[c][m]
      BY <2>3, ToFields
    <3>2. w.content[c] \in Seq(Items)
      BY WorldTypes
    <3>3. m \in Int /\ w.content[c][m] \in Items /\ w.parent[w.content[c][m]] = c
      BY <3>2, ListedIsThere
    <3> QED BY <1>0, <2>3, <3>1, <3>3 DEF Offered, HasRoom
  <2>4. \/ \E s \in Slots : HasRoom(w, w.inventory[s]) /\ d = To(Player, s, w.inventory[s])
        \/ \E c \in Bags : \E m \in DOMAIN w.content[c] :
              HasRoom(w, w.content[c][m]) /\ d = To(c, m - 1, w.content[c][m])
    BY <2>1 DEF StacksOn
  <2> QED BY <2>2, <2>3, <2>4
<1>6. CASE n \notin Slots /\ StacksOn(w, i) = {} /\ FreeOn(w, i) # {}
  <2>1. d \in FreeOn(w, i)
    BY <1>6 DEF PlayerDestinations
  <2>2. CASE \E s \in Slots : w.inventory[s] = NoItem /\ d = To(Player, s, NoItem)
    BY <1>0, <1>2, <2>2
  <2>3. ASSUME NEW c \in Bags, ~IsFull(w, c), d = To(c, Len(w.content[c]), NoItem)
        PROVE  d.cyl \in Cylinders /\ d.index \in Int /\ d.cyl \in Bags /\ Offered(w, d)
    <3>1. d.cyl = c /\ d.index = Len(w.content[c]) /\ d.item = NoItem
      BY <2>3, ToFields
    <3>2. w.content[c] \in Seq(Items)
      BY WorldTypes
    <3>3. Len(w.content[c]) \in Int /\ Len(w.content[c]) < Capacity[c]
      BY <1>0, <2>3, <3>2 DEF IsFull
    <3> QED BY <1>0, <3>1, <3>3 DEF Offered
  <2>4. \/ \E s \in Slots : w.inventory[s] = NoItem /\ d = To(Player, s, NoItem)
        \/ \E c \in Bags : ~IsFull(w, c) /\ d = To(c, Len(w.content[c]), NoItem)
    BY <2>1 DEF FreeOn
  <2> QED BY <2>2, <2>3, <2>4
<1>7. CASE n \notin Slots /\ StacksOn(w, i) = {} /\ FreeOn(w, i) = {}
  <2>1. d = To(Player, Anywhere, NoItem)
    BY <1>7 DEF PlayerDestinations
  <2>2. d.cyl = Player /\ d.index = Anywhere /\ d.item = NoItem
    BY <2>1, ToFields
  <2> QED BY <1>0, <2>1, <2>2 DEF Reached, Offered
<1> QED BY <1>3, <1>4, <1>5, <1>6, <1>7

LEMMA Sent ==
  ASSUME NEW w \in Worlds, Placed(w), NEW c \in Cylinders, NEW n \in Int, NEW i \in Items,
         NEW d \in QueryDestination(w, c, n, i)
  PROVE  /\ d.cyl \in Cylinders /\ d.index \in Int
         /\ d.cyl \notin Bags \/ c \in Bags => Reached(w, d)
         /\ n = Anywhere => Offered(w, d)
<1>1. CASE c = Tile
  <2> DEFINE t == IF w.ground = <<>> THEN NoItem ELSE Head(w.ground)
  <2>1. d = To(Tile, Anywhere, t)
    BY <1>1 DEF QueryDestination
  <2>2. t \in Items \cup {NoItem} /\ (t \in Coins => w.parent[t] = Tile)
    <3>1. w.ground \in Seq(Items)
      BY WorldTypes
    <3>2. w.ground # <<>> => 1 \in DOMAIN w.ground /\ Head(w.ground) = w.ground[1]
      BY <3>1
    <3> QED BY <3>2, ListedIsThere, KindsAreApart
  <2> HIDE DEF t
  <2>3. d.cyl = Tile /\ d.index = -1 /\ d.item = t
    BY <2>1, ToFields DEF Anywhere
  <2> QED BY <2>1, <2>2, <2>3, KindsAreApart DEF Reached, Offered, Cylinders, Anywhere
<1>2. CASE c = Player
  <2>1. d \in PlayerDestinations(w, n, i)
    BY <1>2, KindsAreApart DEF QueryDestination
  <2>2. n = Anywhere => n \notin Slots
    BY ItemsAssumption DEF Anywhere
  <2> QED BY <1>2, <2>1, <2>2, SentOnThePlayer, KindsAreApart
<1>3. CASE c \in Bags
  <2>1. d = BagDestination(w, c, n, i)
    BY <1>3, KindsAreApart DEF QueryDestination
  <2>2. Reached(w, d) /\ (n = Anywhere => Offered(w, d))
    BY <1>3, <2>1, SentInABag
  <2> QED BY <2>2 DEF Reached
<1> QED BY <1>1, <1>2, <1>3 DEF Cylinders

LEMMA SentAgain ==
  ASSUME NEW w \in Worlds, Placed(w), NEW i \in Items, NEW d, d.cyl \in Cylinders, d.index \in Int,
         d.cyl \notin Bags => Reached(w, d)
  PROVE  Reached(w, Again(w, d, i))
BY SentInABag DEF Again

LEMMA DestinationIsReached ==
  ASSUME NEW w \in Worlds, Placed(w), NEW c \in Cylinders, NEW n \in Int, NEW i \in Items,
         NEW f \in Destinations(w, c, n, i)
  PROVE  Reached(w, f)
<1>1. PICK d \in QueryDestination(w, c, n, i) :
        f = LET e == IF d.cyl = c THEN d ELSE Again(w, d, i)
            IN  IF e.cyl = d.cyl THEN e ELSE Again(w, e, i)
  BY DEF Destinations
<1> DEFINE e == IF d.cyl = c THEN d ELSE Again(w, d, i)
<1>2. d.cyl \in Cylinders /\ d.index \in Int /\ (d.cyl \notin Bags \/ c \in Bags => Reached(w, d))
  BY Sent
<1>3. Reached(w, e)
  BY <1>2, SentAgain
<1>4. f = IF e.cyl = d.cyl THEN e ELSE Again(w, e, i)
  BY <1>1
<1> HIDE DEF e
<1>5. e.cyl \in Cylinders /\ e.index \in Int
  BY <1>3 DEF Reached
<1> QED BY <1>3, <1>4, <1>5, SentAgain

-----------------------------------------------------------------------------
(* How many coins there are                                                  *)

LEMMA CoinTypes ==
  ASSUME NEW w \in Worlds
  PROVE  Total(w) \in Nat /\ \A t \in Coins : Coin(w, t) \in Nat /\ w.count[t] \in 0 .. Stack
<1> DEFINE h == [t \in Coins |-> Coin(w, t)]
<1>1. \A t \in Coins : Coin(w, t) \in Nat /\ w.count[t] \in 0 .. Stack
  BY WorldTypes, KindsAreApart, ItemsAssumption DEF Coin
<1>2. IsFiniteSet(Coins)
  BY ItemsAssumption, KindsAreApart, FS_Subset
<1>3. \A t \in Coins : h[t] \in Nat
  BY <1>1
<1>4. SumFunctionOnSet(h, Coins) \in Nat
  <2> HIDE DEF h
  <2> QED BY <1>2, <1>3, SumNat
<1> QED BY <1>1, <1>4 DEF Total

LEMMA TotalChanges ==
  ASSUME NEW w \in Worlds, NEW v \in Worlds, NEW t \in Coins,
         \A x \in Coins : x # t => Coin(v, x) = Coin(w, x)
  PROVE  Total(v) = Total(w) - Coin(w, t) + Coin(v, t)
<1> DEFINE h == [x \in Coins |-> Coin(w, x)]
           k == [x \in Coins |-> Coin(v, x)]
<1>1. /\ \A x \in Coins : h[x] \in Int /\ k[x] \in Int
      /\ \A x \in Coins : x # t => h[x] = k[x]
      /\ h[t] = Coin(w, t) /\ k[t] = Coin(v, t)
  BY CoinTypes
<1>2. IsFiniteSet(Coins)
  BY ItemsAssumption, KindsAreApart, FS_Subset
<1>3. SumFunctionOnSet(k, Coins) = SumFunctionOnSet(h, Coins) - h[t] + k[t]
  <2> HIDE DEF h, k
  <2> QED BY <1>1, <1>2, SumChanges
<1> QED BY <1>1, <1>3 DEF Total

LEMMA TotalSame ==
  ASSUME NEW w \in Worlds, NEW v \in Worlds, \A x \in Coins : Coin(v, x) = Coin(w, x)
  PROVE  Total(v) = Total(w)
<1> DEFINE h == [x \in Coins |-> Coin(w, x)]
           k == [x \in Coins |-> Coin(v, x)]
<1>1. \A x \in Coins : h[x] \in Int /\ h[x] = k[x]
  BY CoinTypes
<1>2. IsFiniteSet(Coins)
  BY ItemsAssumption, KindsAreApart, FS_Subset
<1>3. SumFunctionOnSet(k, Coins) = SumFunctionOnSet(h, Coins)
  <2> HIDE DEF h, k
  <2> QED BY <1>1, <1>2, SumSame
<1> QED BY <1>3 DEF Total

LEMMA NotifiedTotal ==
  ASSUME NEW w, Sound(w), NEW c
  PROVE  Total(Notified(w, c)) = Total(w)
<1> DEFINE v == Notified(w, c)
<1>1. Sound(v) /\ v.parent = w.parent /\ v.count = w.count
  BY NotifiedIsSound
<1> HIDE DEF v
<1>2. \A x \in Coins : Coin(v, x) = Coin(w, x)
  BY <1>1 DEF Coin
<1>3. Total(v) = Total(w)
  BY <1>1, <1>2, TotalSame DEF Sound
<1> QED BY <1>3 DEF v

\* n coins are taken from a stack, and an empty one is released.
LEMMA TakeCoins ==
  ASSUME NEW w, Sound(w), NEW i \in Coins, w.parent[i] # Nowhere, NEW n \in 0 .. w.count[i],
         NEW v, v = Released(RemoveThing(w, i, n), i)
  PROVE  /\ Sound(v) /\ v.carried = w.carried
         /\ \A x \in Items : x # i => v.parent[x] = w.parent[x] /\ v.count[x] = w.count[x]
         /\ v.parent[i] \in {w.parent[i], Nowhere}
         /\ \A s \in Slots : v.inventory[s] = w.inventory[s] \/ v.inventory[s] = NoItem
         /\ Total(v) = Total(w) - n
         /\ Unused(w) \subseteq Unused(v) /\ (n = w.count[i] => i \in Unused(v))
         /\ ~IsPlayers(w, w.parent[i]) => Untouched(w, v)
<1> DEFINE r == RemoveThing(w, i, n)
<1>1. /\ w \in Worlds /\ i \in Items /\ n \in Int /\ w.count[i] \in Nat
      /\ w.count \in [Items -> 0 .. Stack] /\ w.parent \in [Items -> Cylinders \cup {Nowhere}]
  BY KindsAreApart, ItemsAssumption, WorldTypes DEF Sound, Worlds
<1>2. /\ Sound(r) /\ r.carried = w.carried
      /\ \A x \in Items : r.parent[x] = IF x = i /\ n = w.count[i] THEN Nowhere ELSE w.parent[x]
      /\ \A x \in Items : r.count[x] = IF x = i /\ n # w.count[i] THEN w.count[i] - n ELSE w.count[x]
      /\ \A s \in Slots : r.inventory[s] = w.inventory[s] \/ r.inventory[s] = NoItem
      /\ ~IsPlayers(w, w.parent[i]) => Untouched(w, r)
  BY <1>1, RemoveIsSound
<1>3. v = Released(r, i)
  OBVIOUS
<1> HIDE DEF r
<1>4. /\ Sound(v)
      /\ v.parent = r.parent /\ v.inventory = r.inventory
      /\ \A x \in Items : r.parent[x] # Nowhere \/ x # i => v.count[x] = r.count[x]
      /\ Untouched(r, v)
  <2>1. Sound(r)
    BY <1>2
  <2> QED BY <1>3, <2>1, ReleasedIsSound
<1>5. /\ \A x \in Items : x # i => v.parent[x] = w.parent[x] /\ v.count[x] = w.count[x]
      /\ v.parent[i] = IF n # w.count[i] THEN w.parent[i] ELSE Nowhere
      /\ n # w.count[i] => v.count[i] = w.count[i] - n
  BY <1>1, <1>2, <1>4
<1>6. Total(v) = Total(w) - n
  <2>1. \A x \in Coins : x # i => Coin(v, x) = Coin(w, x)
    BY <1>5, KindsAreApart DEF Coin
  <2>2. Coin(w, i) = w.count[i] /\ Coin(v, i) = w.count[i] - n
    BY <1>1, <1>5 DEF Coin
  <2>3. Total(v) = Total(w) - Coin(w, i) + Coin(v, i)
    BY <1>1, <1>4, <2>1, TotalChanges DEF Sound
  <2> QED BY <1>1, <2>2, <2>3, CoinTypes
<1>7. Unused(w) \subseteq Unused(v) /\ (n = w.count[i] => i \in Unused(v))
  BY <1>5, KindsAreApart DEF Unused
<1>8. v.carried = w.carried /\ (~IsPlayers(w, w.parent[i]) => Untouched(w, v))
  BY <1>2, <1>4 DEF Untouched
<1> QED BY <1>2, <1>4, <1>5, <1>6, <1>7, <1>8

\* n coins are put to a stack.
LEMMA StackCoins ==
  ASSUME NEW w, Sound(w), NEW t \in Coins, w.parent[t] # Nowhere, NEW n \in Nat, w.count[t] + n <= Stack,
         NEW v, v = UpdateThing(w, t, w.count[t] + n)
  PROVE  /\ Sound(v) /\ v.carried = w.carried
         /\ v.parent = w.parent /\ v.inventory = w.inventory
         /\ \A x \in Items : x # t => v.count[x] = w.count[x]
         /\ Total(v) = Total(w) + n
         /\ \A s \in Slots : SlotWeight(w, s) <= SlotWeight(v, s)
         /\ ~IsPlayers(w, w.parent[t]) => Untouched(w, v)
<1>1. w \in Worlds /\ t \in Items /\ w.count[t] \in Nat /\ w.count[t] + n \in 0 .. Stack
      /\ w.count \in [Items -> 0 .. Stack]
  BY KindsAreApart, ItemsAssumption, WorldTypes DEF Sound, Worlds
<1> DEFINE k == w.count[t] + n
<1>2. k \in 0 .. Stack /\ k >= w.count[t] /\ k - w.count[t] = n
  BY <1>1
<1> HIDE DEF k
<1>3. /\ Sound(v)
      /\ v.parent = w.parent /\ v.inventory = w.inventory /\ v.carried = w.carried
      /\ v.count = [w.count EXCEPT ![t] = k]
      /\ ~IsPlayers(w, w.parent[t]) => Untouched(w, v)
      /\ \A s \in Slots : SlotWeight(w, s) <= SlotWeight(v, s)
  BY <1>2, UpdateIsSound DEF k
<1>4. v.count[t] = k /\ \A x \in Items : x # t => v.count[x] = w.count[x]
  BY <1>1, <1>3
<1>5. Total(v) = Total(w) + n
  <2>1. \A x \in Coins : x # t => Coin(v, x) = Coin(w, x)
    BY <1>3, <1>4, KindsAreApart DEF Coin
  <2>2. Coin(w, t) = w.count[t] /\ Coin(v, t) = k
    BY <1>3, <1>4 DEF Coin
  <2>3. Total(v) = Total(w) - Coin(w, t) + Coin(v, t)
    BY <1>1, <1>3, <2>1, TotalChanges DEF Sound
  <2>4. Total(w) \in Nat
    BY <1>1, CoinTypes
  <2> QED BY <1>1, <1>2, <2>2, <2>3, <2>4 DEF k
<1> QED BY <1>3, <1>4, <1>5

\* A new stack of n coins is put to a place of cylinder c.
LEMMA AddCoins ==
  ASSUME NEW w, Sound(w), NEW j \in Unused(w), NEW n \in 0 .. Stack,
         NEW c \in Cylinders, NEW k \in Int, Has(c, k), c = Player => w.inventory[k] = NoItem,
         NEW v, v = AddThing(WithCount(w, j, n), c, k, j)
  PROVE  /\ Sound(v) /\ v.carried = w.carried
         /\ \A x \in Items : x # j => v.parent[x] = w.parent[x] /\ v.count[x] = w.count[x]
         /\ v.parent[j] = c
         /\ Total(v) = Total(w) + n
         /\ ~IsPlayers(w, c) => Untouched(w, v)
<1> DEFINE u == WithCount(w, j, n)
<1>1. /\ w \in Worlds /\ j \in Coins /\ j \in Items /\ j \notin Bags /\ w.parent[j] = Nowhere
      /\ w.count \in [Items -> 0 .. Stack] /\ w.parent \in [Items -> Cylinders \cup {Nowhere}]
      /\ n \in Nat
  BY KindsAreApart, ItemsAssumption DEF Sound, Worlds, Unused
<1>2. /\ Sound(u)
      /\ u.parent = w.parent /\ u.inventory = w.inventory
      /\ u.count = [w.count EXCEPT ![j] = n]
      /\ Untouched(w, u)
  BY <1>1, CountIsSound
<1>3. v = AddThing(u, c, k, j)
  OBVIOUS
<1> HIDE DEF u
<1>4. j \notin Holders(u, c)
  BY <1>1, HoldersFacts
<1>5. /\ Sound(v) /\ v.count = u.count /\ v.carried = u.carried
      /\ \A x \in Items : v.parent[x] = IF x = j THEN c ELSE u.parent[x]
      /\ ~IsPlayers(u, c) => Untouched(u, v)
  BY <1>1, <1>2, <1>3, <1>4, AddIsSound
<1>6. /\ \A x \in Items : x # j => v.parent[x] = w.parent[x] /\ v.count[x] = w.count[x]
      /\ v.parent[j] = c /\ v.count[j] = n
  BY <1>1, <1>2, <1>5
<1>7. Total(v) = Total(w) + n
  <2>1. \A x \in Coins : x # j => Coin(v, x) = Coin(w, x)
    BY <1>6, KindsAreApart DEF Coin
  <2>2. Coin(w, j) = 0 /\ Coin(v, j) = n
    BY <1>1, <1>6, KindsAreApart DEF Coin
  <2>3. Total(v) = Total(w) - Coin(w, j) + Coin(v, j)
    BY <1>1, <1>5, <2>1, TotalChanges DEF Sound
  <2>4. Total(w) \in Nat
    BY <1>1, CoinTypes
  <2> QED BY <1>1, <2>2, <2>3, <2>4
<1>8. ~IsPlayers(w, c) => Untouched(w, v)
  BY <1>2, <1>5, SameParents DEF Untouched
<1> QED BY <1>2, <1>5, <1>6, <1>7, <1>8 DEF Untouched

\* Bags other than i did not move: the cylinders i does not lie above are whose they were.
LEMMA SamePlayers ==
  ASSUME NEW w, NEW v, NEW i, \A b \in Bags : b # i => v.parent[b] = w.parent[b],
         NEW c, i \notin Holders(w, c)
  PROVE  Holders(v, c) = Holders(w, c) /\ (IsPlayers(v, c) <=> IsPlayers(w, c))
<1>1. \A b \in Holders(w, c) : v.parent[b] = w.parent[b]
  BY HoldersFacts
<1> QED BY <1>1, SameHolders DEF IsPlayers

-----------------------------------------------------------------------------
(* Moves                                                                     *)

\* m things of i find room at d: on the stack there, or in the place itself.
Lies(w, d, i, m) ==
  \/ i \in Coins /\ d.item \in Coins /\ m <= Stack - w.count[d.item]
  \/ Has(d.cyl, d.index) /\ (d.cyl = Player => w.inventory[d.index] = NoItem)

LEMMA MovedWholeIsSound ==
  ASSUME NEW w, Sound(w), NEW i \in Items \ Coins,
         NEW d, d.cyl \in Cylinders, d.index \in Int, i \notin Holders(w, d.cyl),
         NEW m \in Nat, Lies(w, d, i, m), NEW v, v = MovedTo(w, d, i, m)
  PROVE  /\ Sound(v) /\ v.carried = w.carried /\ Total(v) = Total(w)
         /\ \A b \in Bags : b # i => v.parent[b] = w.parent[b]
         /\ ~IsPlayers(w, w.parent[i]) /\ ~IsPlayers(w, d.cyl) => Untouched(w, v)
<1> DEFINE u == RemoveThing(w, i, m)
<1>1. w \in Worlds /\ i \in Items /\ i \notin Coins /\ m \in Int /\ w.parent \in [Items -> Cylinders \cup {Nowhere}]
  BY DEF Sound, Worlds
<1>2. /\ Sound(u) /\ u.carried = w.carried
      /\ \A x \in Items : u.parent[x] = IF x = i THEN Nowhere ELSE w.parent[x]
      /\ \A x \in Items : u.count[x] = w.count[x]
      /\ \A s \in Slots : u.inventory[s] = w.inventory[s] \/ u.inventory[s] = NoItem
      /\ ~IsPlayers(w, w.parent[i]) => Untouched(w, u)
  BY <1>1, RemoveIsSound
<1>3. v = AddThing(u, d.cyl, d.index, i)
  BY DEF MovedTo
<1> HIDE DEF u
<1>4. u.parent[i] = Nowhere /\ \A x \in Items : x # i => u.parent[x] = w.parent[x]
  BY <1>1, <1>2
<1>5. \A b \in Bags : b # i => u.parent[b] = w.parent[b]
  BY <1>4, KindsAreApart
<1>6. Holders(u, d.cyl) = Holders(w, d.cyl) /\ (IsPlayers(u, d.cyl) <=> IsPlayers(w, d.cyl))
  BY <1>5, SamePlayers
<1>7. Has(d.cyl, d.index) /\ (d.cyl = Player => d.index \in Slots /\ w.inventory[d.index] = NoItem)
  BY KindsAreApart DEF Lies, Has
<1>8. d.cyl = Player /\ d.index \in Slots => u.inventory[d.index] = NoItem
  BY <1>2, <1>7
<1>9. /\ Sound(v) /\ v.count = u.count /\ v.carried = u.carried
      /\ \A x \in Items : v.parent[x] = IF x = i THEN d.cyl ELSE u.parent[x]
      /\ ~IsPlayers(u, d.cyl) => Untouched(u, v)
  <2>1. i \notin Holders(u, d.cyl) /\ Sound(u)
    BY <1>2, <1>6
  <2> QED BY <1>1, <1>3, <1>4, <1>7, <1>8, <2>1, AddIsSound
<1>10. \A x \in Items : x # i => v.parent[x] = w.parent[x]
  <2>1. u.parent \in [Items -> Cylinders \cup {Nowhere}]
    BY <1>2 DEF Sound, Worlds
  <2> QED BY <1>2, <1>9, <2>1
<1>11. Total(v) = Total(w)
  <2>1. \A x \in Coins : Coin(v, x) = Coin(w, x)
    BY <1>2, <1>9, <1>10, KindsAreApart DEF Coin
  <2> QED BY <1>1, <1>9, <2>1, TotalSame DEF Sound
<1> QED BY <1>2, <1>6, <1>9, <1>10, <1>11, KindsAreApart DEF Untouched

LEMMA MovedCoinsAreSound ==
  ASSUME NEW w, Sound(w), NEW i \in Coins, w.parent[i] # Nowhere, Unused(w) # {},
         NEW d, d.cyl \in Cylinders, d.index \in Int, d.item # i,
         d.item \in Coins => w.parent[d.item] = d.cyl,
         NEW m \in 1 .. w.count[i], Lies(w, d, i, m), NEW v, v = MovedTo(w, d, i, m)
  PROVE  /\ Sound(v) /\ v.carried = w.carried /\ Total(v) = Total(w)
         /\ \A b \in Bags : v.parent[b] = w.parent[b]
         /\ ~IsPlayers(w, w.parent[i]) /\ ~IsPlayers(w, d.cyl) => Untouched(w, v)
<1> DEFINE w1 == Released(RemoveThing(w, i, m), i)
           t == d.item
           n == IF t \in Coins THEN Least(Stack - w1.count[t], m) ELSE 0
           w2 == IF t \in Coins THEN UpdateThing(w1, t, w1.count[t] + n) ELSE w1
           j == Created(w2)
<1>1. /\ w \in Worlds /\ i \in Items /\ m \in 0 .. w.count[i] /\ w.count[i] \in 0 .. Stack /\ Stack \in Nat
      /\ Total(w) \in Nat
  BY KindsAreApart, ItemsAssumption, CoinTypes DEF Sound
<1>2. v = IF m = n THEN w2 ELSE AddThing(WithCount(w2, j, m - n), d.cyl, d.index, j)
  BY DEF MovedTo
<1>3. /\ Sound(w1) /\ w1.carried = w.carried
      /\ \A x \in Items : x # i => w1.parent[x] = w.parent[x] /\ w1.count[x] = w.count[x]
      /\ \A s \in Slots : w1.inventory[s] = w.inventory[s] \/ w1.inventory[s] = NoItem
      /\ Total(w1) = Total(w) - m
      /\ Unused(w) \subseteq Unused(w1)
      /\ ~IsPlayers(w, w.parent[i]) => Untouched(w, w1)
  BY <1>1, TakeCoins
<1> HIDE DEF w1
<1>4. \A b \in Bags : w1.parent[b] = w.parent[b]
  BY <1>3, KindsAreApart
<1>5. \A c : IsPlayers(w1, c) <=> IsPlayers(w, c)
  <2>1. \A c : Holders(w1, c) = Holders(w, c)
    BY <1>4, SameHolders, HoldersFacts
  <2> QED BY <1>4, <2>1, HoldersFacts DEF IsPlayers
<1>6. t \in Coins => /\ t \in Items /\ w1.count[t] = w.count[t] /\ w1.count[t] \in 0 .. Stack
                     /\ w1.parent[t] = d.cyl /\ d.cyl # Nowhere
  BY <1>1, <1>3, KindsAreApart, WorldTypes
<1>7. /\ n \in Nat /\ n <= m
      /\ t \in Coins => w1.count[t] + n <= Stack
      /\ t \in Coins /\ m <= Stack - w.count[t] => m = n
  BY <1>1, <1>6 DEF Least
<1>8. /\ Sound(w2) /\ w2.carried = w.carried
      /\ w2.parent = w1.parent /\ w2.inventory = w1.inventory
      /\ Total(w2) = Total(w1) + n
      /\ ~IsPlayers(w, w.parent[i]) /\ ~IsPlayers(w, d.cyl) => Untouched(w, w2)
  <2> HIDE DEF n, t
  <2>1. CASE t \in Coins
    <3>1. w2 = UpdateThing(w1, t, w1.count[t] + n)
      BY <2>1
    <3> HIDE DEF w2
    <3>2. /\ Sound(w2) /\ w2.carried = w1.carried
          /\ w2.parent = w1.parent /\ w2.inventory = w1.inventory
          /\ Total(w2) = Total(w1) + n
          /\ ~IsPlayers(w1, w1.parent[t]) => Untouched(w1, w2)
      BY <1>3, <1>6, <1>7, <2>1, <3>1, StackCoins
    <3> QED BY <1>3, <1>5, <1>6, <2>1, <3>2 DEF Untouched
  <2>2. CASE t \notin Coins
    <3>1. w2 = w1 /\ n = 0
      BY <2>2 DEF n
    <3> HIDE DEF w2
    <3> QED BY <1>1, <1>3, <3>1 DEF Untouched
  <2> QED BY <2>1, <2>2
<1> HIDE DEF w2
<1>9. CASE m = n
  <2>1. v = w2
    BY <1>2, <1>9
  <2> QED BY <1>1, <1>3, <1>4, <1>8, <1>9, <2>1
<1>10. CASE m # n
  <2>1. v = AddThing(WithCount(w2, j, m - n), d.cyl, d.index, j)
    BY <1>2, <1>10
  <2>2. j \in Unused(w2)
    <3>1. Unused(w2) = Unused(w1)
      BY <1>8 DEF Unused
    <3> QED BY <1>3, <3>1 DEF Created
  <2>3. Has(d.cyl, d.index) /\ (d.cyl = Player => d.index \in Slots /\ w2.inventory[d.index] = NoItem)
    <3>1. Has(d.cyl, d.index) /\ (d.cyl = Player => w.inventory[d.index] = NoItem)
      BY <1>7, <1>10 DEF Lies
    <3> QED BY <1>3, <1>8, <3>1, KindsAreApart DEF Has
  <2>4. m - n \in 0 .. Stack
    BY <1>1, <1>7
  <2> DEFINE r == m - n
  <2>5. r \in 0 .. Stack /\ r = m - n
    BY <2>4
  <2> HIDE DEF j, n, r
  <2>6. v = AddThing(WithCount(w2, j, r), d.cyl, d.index, j)
    BY <2>1, <2>5
  <2>7. /\ Sound(v) /\ v.carried = w2.carried
        /\ \A x \in Items : x # j => v.parent[x] = w2.parent[x]
        /\ Total(v) = Total(w2) + r
        /\ ~IsPlayers(w2, d.cyl) => Untouched(w2, v)
    BY <1>8, <2>2, <2>3, <2>5, <2>6, AddCoins
  <2>8. \A b \in Bags : v.parent[b] = w.parent[b]
    BY <1>4, <1>8, <2>2, <2>7, KindsAreApart DEF Unused
  <2>9. IsPlayers(w2, d.cyl) <=> IsPlayers(w, d.cyl)
    BY <1>5, <1>8, SameParents
  <2>10. Total(v) = Total(w)
    BY <1>1, <1>3, <1>7, <1>8, <2>5, <2>7
  <2> QED BY <1>3, <1>8, <2>7, <2>8, <2>9, <2>10 DEF Untouched
<1> QED BY <1>9, <1>10

LEMMA MaxTypes ==
  ASSUME NEW w \in Worlds, NEW i \in Items
  PROVE  /\ \A s \in Slots : MaxOfSlot(w, s, i) \in Nat
         /\ \A c \in Bags, n \in Int : MaxOfBag(w, c, n, i) \in Nat /\ RoomOfStacks(w, c, n, i) \in Nat
<1>0. /\ Stack \in Nat \ {0} /\ Capacity \in [Bags -> Nat \ {0}] /\ IsFiniteSet(Coins)
      /\ \A t \in Coins : w.count[t] \in 0 .. Stack
  BY ItemsAssumption, KindsAreApart, CoinTypes, FS_Subset
<1>1. ASSUME NEW s \in Slots PROVE MaxOfSlot(w, s, i) \in Nat
  BY <1>0 DEF MaxOfSlot, HasRoom
<1>2. ASSUME NEW c \in Bags, NEW n \in Int PROVE RoomOfStacks(w, c, n, i) \in Nat
  <2> DEFINE room == [t \in Coins |-> Stack - w.count[t]]
             at(t) == (CHOOSE m \in DOMAIN w.content[c] : w.content[c][m] = t) - 1
             stacks == {t \in Coins : w.parent[t] = c /\ HasRoom(w, t)
                                      /\ QueryAdd(w, c, at(t), i, room[t]) = "ok"}
             S == IF n = Anywhere THEN stacks \ {i} ELSE stacks \cap {ThingAt(w, c, n - 1)}
  <2>1. \A t \in Coins : room[t] \in Nat
    BY <1>0
  <2>2. S \subseteq Coins
    OBVIOUS
  <2>3. IsFiniteSet(S) /\ \A t \in S : room[t] \in Nat
    <3> HIDE DEF room, S
    <3>1. IsFiniteSet(Coins) /\ S \in SUBSET Coins
      BY <1>0, <2>2
    <3>2. IsFiniteSet(S)
      BY <3>1, FS_Subset
    <3> QED BY <2>1, <2>2, <3>2
  <2>4. RoomOfStacks(w, c, n, i) = SumFunctionOnSet(room, S)
    BY DEF RoomOfStacks
  <2> HIDE DEF room, S
  <2> QED BY <2>3, <2>4, SumNat
<1>3. ASSUME NEW c \in Bags, NEW n \in Int PROVE MaxOfBag(w, c, n, i) \in Nat
  <2> DEFINE free == IF IsFull(w, c) THEN 0 ELSE Capacity[c] - Len(w.content[c])
  <2>1. free \in Nat
    <3>1. w.content[c] \in Seq(Items)
      BY WorldTypes
    <3> QED BY <1>0, <3>1 DEF IsFull
  <2>2. MaxOfBag(w, c, n, i) = IF i \in Coins THEN free * Stack + RoomOfStacks(w, c, n, i) ELSE free
    BY DEF MaxOfBag
  <2> HIDE DEF free
  <2>3. free * Stack \in Nat
    BY <1>0, <2>1
  <2> QED BY <1>2, <2>1, <2>2, <2>3
<1> QED BY <1>1, <1>2, <1>3

\* A full bag only has the room of the stack in front of the index.
LEMMA RoomOfAFullBag ==
  ASSUME NEW w \in Worlds, NEW i \in Items, NEW c \in Bags, NEW n \in Int, n # Anywhere, IsFull(w, c),
         NEW t \in Coins, ThingAt(w, c, n - 1) = t
  PROVE  /\ i \in Coins => MaxOfBag(w, c, n, i) \in {0, Stack - w.count[t]}
         /\ i \notin Coins => MaxOfBag(w, c, n, i) = 0
<1>0. Stack \in Nat \ {0} /\ \A x \in Coins : w.count[x] \in 0 .. Stack
  BY ItemsAssumption, CoinTypes
<1>1. CASE i \notin Coins
  BY <1>1 DEF MaxOfBag
<1>2. CASE i \in Coins
  <2> DEFINE room == [x \in Coins |-> Stack - w.count[x]]
             at(x) == (CHOOSE m \in DOMAIN w.content[c] : w.content[c][m] = x) - 1
             stacks == {x \in Coins : w.parent[x] = c /\ HasRoom(w, x)
                                      /\ QueryAdd(w, c, at(x), i, room[x]) = "ok"}
             S == stacks \cap {t}
  <2>1. room[t] = Stack - w.count[t] /\ room[t] \in Int
    BY <1>0
  <2>2. RoomOfStacks(w, c, n, i) = SumFunctionOnSet(room, S)
    BY DEF RoomOfStacks
  <2>3. S = {} \/ S = {t}
    OBVIOUS
  <2> HIDE DEF room, S
  <2>4. RoomOfStacks(w, c, n, i) \in {0, Stack - w.count[t]}
    BY <2>1, <2>2, <2>3, SumOfOne
  <2>5. MaxOfBag(w, c, n, i) = 0 * Stack + RoomOfStacks(w, c, n, i)
    BY <1>2 DEF MaxOfBag
  <2>6. 0 * Stack = 0 /\ RoomOfStacks(w, c, n, i) \in Int
    BY <1>0, MaxTypes
  <2> QED BY <1>2, <2>4, <2>5, <2>6
<1> QED BY <1>1, <1>2

\* What __queryMaxCount allows finds room.
LEMMA AllowedLies ==
  ASSUME NEW w \in Worlds, NEW i \in Items, NEW d, Reached(w, d), NEW k \in Nat,
         QueryAdd(w, d.cyl, d.index, i, k) = "ok",
         NEW m \in Nat \ {0}, m <= QueryMaxCount(w, d.cyl, d.index, i, k)
  PROVE  Lies(w, d, i, m)
<1>0. /\ Stack \in Nat \ {0} /\ \A t \in Coins : w.count[t] \in 0 .. Stack
      /\ Player \notin Bags /\ Tile \notin Bags /\ Player # Tile /\ Anywhere = -1 /\ Anywhere \notin Slots
      /\ Capacity \in [Bags -> Nat \ {0}] /\ NoItem \notin Coins
  BY ItemsAssumption, CoinTypes, KindsAreApart DEF Anywhere
<1>1. d.cyl \in Cylinders /\ d.index \in Int
  BY DEF Reached
<1>2. CASE d.cyl = Tile
  BY <1>0, <1>2 DEF Lies, Has
<1>3. CASE d.cyl = Player
  <2>1. /\ d.index \in Slots
        /\ w.inventory[d.index] = NoItem \/ (w.inventory[d.index] \in Coins /\ i \in Coins)
    BY <1>0, <1>3 DEF QueryAdd
  <2>2. CASE w.inventory[d.index] = NoItem
    BY <1>3, <2>1, <2>2 DEF Lies, Has
  <2>3. CASE w.inventory[d.index] \in Coins /\ i \in Coins
    <3>1. d.item = w.inventory[d.index]
      BY <1>3, <2>1 DEF Reached
    <3>2. m <= MaxOfSlot(w, d.index, i)
      BY <1>0, <1>3, <2>1 DEF QueryMaxCount
    <3>3. MaxOfSlot(w, d.index, i) \in {0, Stack - w.count[d.item]}
      BY <1>0, <2>3, <3>1 DEF MaxOfSlot
    <3>4. m <= Stack - w.count[d.item]
      BY <1>0, <2>3, <3>1, <3>2, <3>3
    <3> QED BY <2>3, <3>1, <3>4 DEF Lies
  <2> QED BY <2>1, <2>2, <2>3
<1>4. CASE d.cyl \in Bags
  <2>1. CASE d.index < Capacity[d.cyl]
    BY <1>0, <1>4, <2>1 DEF Lies, Has
  <2>2. CASE d.index >= Capacity[d.cyl]
    <3>1. IsFull(w, d.cyl) /\ d.item \in Coins /\ ThingAt(w, d.cyl, d.index - 1) = d.item
      BY <1>4, <2>2 DEF Reached
    <3>2. d.index # Anywhere
      BY <1>0, <1>1, <1>4, <2>2
    <3>3. m <= MaxOfBag(w, d.cyl, d.index, i)
      BY <1>0, <1>4 DEF QueryMaxCount
    <3> DEFINE t == d.item
               max == MaxOfBag(w, d.cyl, d.index, i)
    <3>4. i \in Coins /\ max \in {0, Stack - w.count[t]}
      <4>1. /\ i \in Coins => max \in {0, Stack - w.count[t]}
            /\ i \notin Coins => max = 0
        BY <1>1, <1>4, <3>1, <3>2, RoomOfAFullBag
      <4> QED BY <3>3, <4>1
    <3>5. t \in Coins /\ w.count[t] \in 0 .. Stack
      BY <1>0, <3>1
    <3> HIDE DEF max
    <3>6. m <= Stack - w.count[t]
      BY <1>0, <3>3, <3>4, <3>5 DEF max
    <3> QED BY <3>1, <3>4, <3>6 DEF Lies
  <2>3. Capacity[d.cyl] \in Int
    BY <1>0, <1>4
  <2> QED BY <1>1, <2>1, <2>2, <2>3
<1> QED BY <1>1, <1>2, <1>3, <1>4 DEF Cylinders

\* No thing is let into what lies in it.
LEMMA AddedIsNotAbove ==
  ASSUME NEW w, NEW i, NEW c \in Cylinders, NEW n, NEW k, QueryAdd(w, c, n, i, k) = "ok"
  PROVE  i \notin Holders(w, c)
<1>1. CASE c \in Bags
  BY <1>1, KindsAreApart DEF QueryAdd
<1>2. CASE c \notin Bags
  BY <1>2, NoHolders
<1> QED BY <1>1, <1>2

\* What a move leaves.
Moved(w, v) == Sound(v) /\ Charged(v) /\ Total(v) = Total(w)

LEMMA MoveRestIsSound ==
  ASSUME NEW w, Sound(w), Charged(w), NEW i \in Items, w.parent[i] # Nowhere, Unused(w) # {},
         NEW d, Reached(w, d), d.item # i, NEW k \in 1 .. Stack,
         QueryAdd(w, d.cyl, d.index, i, k) = "ok"
  PROVE  Moved(w, MoveRest(w, d, i, k))
<1> DEFINE max == QueryMaxCount(w, d.cyl, d.index, i, k)
           m == IF i \in Coins THEN Least(k, max) ELSE max
           from == w.parent[i]
           v == MovedTo(w, d, i, m)
           u == Notified(v, from)
<1>0. /\ w \in Worlds /\ d.cyl \in Cylinders /\ d.index \in Int /\ k \in Nat \ {0} /\ Stack \in Nat
      /\ Player \notin Bags /\ Tile \notin Bags /\ Player # Tile /\ Anywhere \notin Slots
      /\ d.item \in Coins => w.parent[d.item] = d.cyl
  BY ItemsAssumption, KindsAreApart DEF Sound, Reached, Anywhere
<1>1. max \in Nat
  <2>1. d.cyl = Player => d.index \in Slots
    BY <1>0 DEF QueryAdd
  <2>2. CASE d.cyl = Tile
    BY <1>0, <2>2 DEF QueryMaxCount
  <2>3. CASE d.cyl = Player
    <3>1. max = MaxOfSlot(w, d.index, i)
      BY <1>0, <2>1, <2>3 DEF QueryMaxCount
    <3> QED BY <1>0, <2>1, <2>3, <3>1, MaxTypes
  <2>4. CASE d.cyl \in Bags
    <3>1. max = MaxOfBag(w, d.cyl, d.index, i)
      BY <1>0, <2>4 DEF QueryMaxCount
    <3> QED BY <1>0, <2>4, <3>1, MaxTypes
  <2> QED BY <1>0, <2>2, <2>3, <2>4 DEF Cylinders
<1>2. m \in Nat /\ m <= max
  <2> HIDE DEF max
  <2> QED BY <1>0, <1>1 DEF Least
<1>3. CASE m = 0 \/ (i \in Coins /\ m > w.count[i])
  <2>1. MoveRest(w, d, i, k) = w
    BY <1>3 DEF MoveRest
  <2> QED BY <2>1 DEF Moved
<1>4. CASE ~(m = 0 \/ (i \in Coins /\ m > w.count[i]))
  <2>1. MoveRest(w, d, i, k) = Notified(u, d.cyl)
    BY <1>4 DEF MoveRest
  <2>2. i \notin Holders(w, d.cyl)
    BY <1>0, AddedIsNotAbove
  <2>3. Lies(w, d, i, m)
    <3>1. m \in Nat \ {0} /\ m <= QueryMaxCount(w, d.cyl, d.index, i, k)
      BY <1>2, <1>4
    <3> HIDE DEF m
    <3> QED BY <1>0, <3>1, AllowedLies
  <2>4. m \in Nat \ {0} /\ (i \in Coins => m \in 1 .. w.count[i])
    <3>1. i \in Coins => w.count[i] \in 0 .. Stack
      BY <1>0, CoinTypes
    <3> HIDE DEF m
    <3> QED BY <1>0, <1>2, <1>4, <3>1
  <2>5. v = MovedTo(w, d, i, m)
    OBVIOUS
  <2> HIDE DEF m, v
  <2>6. /\ Sound(v) /\ v.carried = w.carried /\ Total(v) = Total(w)
        /\ \A b \in Bags : b # i => v.parent[b] = w.parent[b]
        /\ ~IsPlayers(w, from) /\ ~IsPlayers(w, d.cyl) => Untouched(w, v)
    <3>1. CASE i \in Coins
      BY <1>0, <2>3, <2>4, <2>5, <3>1, MovedCoinsAreSound
    <3>2. CASE i \notin Coins
      BY <1>0, <2>2, <2>3, <2>4, <2>5, <3>2, MovedWholeIsSound
    <3> QED BY <3>1, <3>2
  <2>7. i \notin Holders(w, from)
    <3>1. CASE i \in Bags
      BY <3>1 DEF Sound, Nested
    <3>2. CASE i \notin Bags
      BY <3>2, HoldersFacts
    <3> QED BY <3>1, <3>2
  <2>8. (IsPlayers(v, from) <=> IsPlayers(w, from)) /\ (IsPlayers(v, d.cyl) <=> IsPlayers(w, d.cyl))
    BY <2>2, <2>6, <2>7, SamePlayers
  <2>9. /\ Sound(u) /\ u.parent = v.parent
        /\ Charged(v) \/ IsPlayers(v, from) => Charged(u)
    BY <2>6, NotifiedIsSound
  <2>10. Total(u) = Total(v)
    BY <2>6, NotifiedTotal
  <2> HIDE DEF u
  <2> DEFINE x == Notified(u, d.cyl)
  <2>11. Sound(x) /\ Total(x) = Total(u) /\ (Charged(u) \/ IsPlayers(u, d.cyl) => Charged(x))
    BY <2>9, NotifiedIsSound, NotifiedTotal
  <2>12. Charged(x)
    <3>1. CASE IsPlayers(w, from) \/ IsPlayers(w, d.cyl)
      <4>1. IsPlayers(u, d.cyl) <=> IsPlayers(v, d.cyl)
        BY <2>9, SameParents
      <4> QED BY <2>8, <2>9, <2>11, <3>1, <4>1
    <3>2. CASE ~IsPlayers(w, from) /\ ~IsPlayers(w, d.cyl)
      <4>1. Charged(v)
        BY <2>6, <3>2, UntouchedStaysCharged DEF Sound
      <4> QED BY <2>9, <2>11, <4>1
    <3> QED BY <3>1, <3>2
  <2> HIDE DEF x
  <2> QED BY <2>1, <2>6, <2>10, <2>11, <2>12 DEF Moved, x
<1> QED BY <1>3, <1>4

\* The thing in the way is put where the other one is, and that one moves on.
LEMMA ExchangedIsSound ==
  ASSUME NEW w, Sound(w), Charged(w), NEW i \in Items, w.parent[i] # Nowhere, Unused(w) # {},
         NEW d, Reached(w, d), d.item # i, NEW k \in 1 .. Stack,
         QueryAdd(w, d.cyl, d.index, i, k) = "exchange"
  PROVE  Moved(w, Exchanged(w, d, i, k))
<1> DEFINE t == d.item
           from == w.parent[i]
           r == RemoveThing(w, t, w.count[t])
           a == AddThing(r, from, 0, t)
           w1 == Notified(a, d.cyl)
           e == [d EXCEPT !.item = NoItem]
           Refused == \/ QueryAdd(w, from, IndexOf(w, i), t, w.count[t]) # "ok"
                      \/ QueryMaxCount(w, from, Anywhere, t, w.count[t]) = 0
<1>0. /\ w \in Worlds /\ d.cyl \in Cylinders /\ d.index \in Int /\ Stack \in Nat
      /\ Player \notin Bags /\ Tile \notin Bags /\ Player # Tile /\ NoItem \notin Items /\ NoItem \notin Coins
      /\ Capacity \in [Bags -> Nat \ {0}] /\ InSlots(w) /\ from \in Cylinders /\ from # Nowhere
      /\ Coins \subseteq Items /\ Bags \subseteq Items /\ Player # Nowhere
  BY ItemsAssumption, KindsAreApart, WorldTypes DEF Sound, Placed, Reached
<1>1. /\ d.cyl = Player /\ d.index \in Slots /\ w.inventory[d.index] # NoItem
      /\ ~(w.inventory[d.index] \in Coins /\ i \in Coins)
  BY <1>0 DEF QueryAdd, Cylinders
<1>2. t = w.inventory[d.index] /\ t \in Items /\ t # i /\ w.parent[t] = Player
  <2>1. t = w.inventory[d.index]
    BY <1>1 DEF Reached
  <2>2. t \in Items
    BY <1>0, <1>1, <2>1, WorldTypes
  <2> QED BY <1>0, <1>1, <2>1, <2>2 DEF InSlots
<1>3. CASE Refused
  <2>1. Exchanged(w, d, i, k) = w
    BY <1>3 DEF Exchanged
  <2> QED BY <2>1 DEF Moved
<1>4. CASE ~Refused
  <2>1. Exchanged(w, d, i, k) = IF QueryAdd(w1, d.cyl, d.index, i, k) # "ok" THEN w1 ELSE MoveRest(w1, e, i, k)
    BY <1>4 DEF Exchanged
  <2>2. QueryAdd(w, from, IndexOf(w, i), t, w.count[t]) = "ok"
    BY <1>4
  <2>3. t \notin Holders(w, from)
    BY <1>0, <2>2, AddedIsNotAbove
  <2>4. from # Player
    <3>1. SUFFICES ASSUME from = Player PROVE FALSE
      OBVIOUS
    <3>2. \E s \in Slots : w.inventory[s] = i
      BY <1>0, <3>1 DEF InSlots
    <3>3. IndexOf(w, i) = CHOOSE s \in Slots : w.inventory[s] = i
      BY <3>1 DEF IndexOf
    <3>4. IndexOf(w, i) \in Slots /\ w.inventory[IndexOf(w, i)] = i
      BY <3>2, <3>3
    <3>5. ~(i \in Coins /\ t \in Coins) /\ i # NoItem
      BY <1>0, <1>1, <1>2
    <3>6. QueryAdd(w, Player, IndexOf(w, i), t, w.count[t]) # "ok"
      BY <1>0, <3>4, <3>5 DEF QueryAdd
    <3> QED BY <2>2, <3>1, <3>6
  <2>5. Has(from, 0)
    BY <1>0, <2>4 DEF Has, Cylinders
  <2>6. r = RemoveThing(w, t, w.count[t]) /\ a = AddThing(r, from, 0, t) /\ w1 = Notified(a, d.cyl)
    OBVIOUS
  <2> DEFINE n == w.count[t]
  <2>7. n \in Int /\ (t \in Coins => n \in 0 .. n) /\ r = RemoveThing(w, t, n)
    BY <1>0, <1>2, WorldTypes
  <2> HIDE DEF r, a, w1, t, from, n
  <2>8. /\ Sound(r)
        /\ \A x \in Items : r.parent[x] = IF x = t /\ (t \notin Coins \/ n = w.count[t]) THEN Nowhere ELSE w.parent[x]
        /\ \A x \in Items : r.count[x] = IF x = t /\ t \in Coins /\ n # w.count[t] THEN w.count[t] - n ELSE w.count[x]
        /\ \A s \in Slots : r.inventory[s] = w.inventory[s] \/ (r.inventory[s] = NoItem /\ w.inventory[s] = t)
    <3>1. t \in Coins => n \in 0 .. w.count[t]
      BY <2>7 DEF n
    <3> QED BY <1>2, <2>7, <3>1, RemoveIsSound
  <2>9. /\ \A x \in Items : r.parent[x] = IF x = t THEN Nowhere ELSE w.parent[x]
        /\ \A x \in Items : r.count[x] = w.count[x]
    BY <2>8 DEF n
  <2>10. r.inventory[d.index] = NoItem
    <3>1. r.parent[t] # Player
      BY <1>0, <1>2, <2>9
    <3>2. r.inventory[d.index] # t
      BY <1>1, <1>2, <2>8, <3>1 DEF Sound, Placed, InSlots
    <3> QED BY <1>1, <1>2, <2>8, <3>2
  <2>11. t \notin Holders(r, from)
    <3>1. \A b \in Bags : b # t => r.parent[b] = w.parent[b]
      BY <1>0, <2>9
    <3> QED BY <2>3, <3>1, SamePlayers
  <2>12. /\ Sound(a) /\ a.count = r.count
         /\ \A x \in Items : a.parent[x] = IF x = t THEN from ELSE r.parent[x]
         /\ \A s \in Slots : a.inventory[s] = r.inventory[s]
    <3>1. r.parent[t] = Nowhere /\ 0 \in Int
      BY <1>2, <2>9
    <3>2. from \in Cylinders /\ t \in Items /\ Sound(r) /\ a = AddThing(r, from, 0, t)
      BY <1>0, <1>2, <2>6, <2>8
    <3>3. /\ Sound(a) /\ a.count = r.count
          /\ \A x \in Items : a.parent[x] = IF x = t /\ Has(from, 0) THEN from ELSE r.parent[x]
          /\ \A s \in Slots : a.inventory[s] = IF from = Player /\ s = 0 THEN t ELSE r.inventory[s]
      BY <2>4, <2>11, <3>1, <3>2, AddIsSound
    <3> QED BY <2>4, <2>5, <3>3
  <2>13. \A x \in Items : a.parent[x] = IF x = t THEN from ELSE w.parent[x]
    <3>1. r.parent \in [Items -> Cylinders \cup {Nowhere}]
      BY <2>8 DEF Sound, Worlds
    <3> QED BY <2>9, <2>12, <3>1
  <2>14. /\ Sound(w1) /\ Charged(w1) /\ w1.parent = a.parent /\ w1.inventory = a.inventory /\ w1.count = a.count
    BY <1>1, <2>6, <2>12, NotifiedIsSound DEF IsPlayers
  <2>15. Total(w1) = Total(w)
    <3>1. \A x \in Coins : Coin(w1, x) = Coin(w, x)
      BY <1>0, <1>2, <2>9, <2>12, <2>13, <2>14 DEF Coin
    <3> QED BY <1>0, <2>14, <3>1, TotalSame DEF Sound
  <2>16. CASE QueryAdd(w1, d.cyl, d.index, i, k) # "ok"
    BY <2>1, <2>14, <2>15, <2>16 DEF Moved
  <2>17. CASE QueryAdd(w1, d.cyl, d.index, i, k) = "ok"
    <3>1. e.cyl = d.cyl /\ e.index = d.index /\ e.item = NoItem
      <4>1. d = To(d.cyl, d.index, d.item)
        BY DEF Reached
      <4> QED BY <4>1 DEF To
    <3>0. e = To(e.cyl, e.index, e.item)
      <4>1. d = To(d.cyl, d.index, d.item)
        BY DEF Reached
      <4> QED BY <4>1 DEF To
    <3>2. Reached(w1, e)
      BY <1>0, <1>1, <2>10, <2>12, <2>14, <3>0, <3>1 DEF Reached
    <3>3. w1.parent[i] # Nowhere
      BY <1>0, <1>2, <2>13, <2>14 DEF from
    <3>4. Unused(w1) # {}
      <4>1. Unused(w) \subseteq Unused(w1)
        BY <1>0, <1>2, <2>13, <2>14 DEF Unused
      <4> QED BY <4>1
    <3>5. e.item # i
      BY <1>0, <3>1
    <3> HIDE DEF e
    <3>6. Moved(w1, MoveRest(w1, e, i, k))
      BY <2>14, <2>17, <3>1, <3>2, <3>3, <3>4, <3>5, MoveRestIsSound
    <3> QED BY <2>1, <2>15, <2>17, <3>6 DEF Moved
  <2> QED BY <2>16, <2>17
<1> QED BY <1>3, <1>4


\* A move keeps everything, wherever the thing is sent.
LEMMA MoveIsSound ==
  ASSUME NEW w, Sound(w), Charged(w), NEW i \in Items, w.parent[i] # Nowhere, Unused(w) # {},
         NEW c \in Cylinders, NEW n \in Int, NEW k \in 1 .. Stack, NEW v \in MoveItem(w, c, n, i, k)
  PROVE  Moved(w, v)
<1>1. PICK d \in Destinations(w, c, n, i) : v = MoveVia(w, d, i, k)
  BY DEF MoveItem
<1>2. Reached(w, d)
  BY DestinationIsReached DEF Sound
<1>3. CASE d.item = i
  BY <1>1, <1>3 DEF MoveVia, Moved
<1>4. CASE d.item # i /\ QueryAdd(w, d.cyl, d.index, i, k) = "exchange"
  BY <1>1, <1>2, <1>4, ExchangedIsSound DEF MoveVia
<1>5. CASE d.item # i /\ QueryAdd(w, d.cyl, d.index, i, k) = "ok"
  BY <1>1, <1>2, <1>5, MoveRestIsSound DEF MoveVia
<1>6. CASE d.item # i /\ QueryAdd(w, d.cyl, d.index, i, k) \notin {"ok", "exchange"}
  BY <1>1, <1>6 DEF MoveVia, Moved
<1> QED BY <1>3, <1>4, <1>5, <1>6

-----------------------------------------------------------------------------
(* Coins that are given                                                      *)

\* After some tries to add k coins to a world of T, as stack i.
Stacking(p, i, T, k) ==
  /\ Sound(p.world) /\ Charged(p.world) /\ p.cyl \in Cylinders /\ p.rest \in 0 .. k
  /\ p.state \in {"adding", "added", "failed"}
  /\ p.state = "added" => Total(p.world) = T + k
  /\ p.state # "added" => i \in Unused(p.world) /\ (p.rest = 0 \/ Total(p.world) + p.rest >= T + k)
  /\ p.state = "failed" /\ p.rest = 0 => Total(p.world) >= T
  /\ p.state = "adding" => /\ p.world.count[i] \in 1 .. k
                           /\ Total(p.world) + p.world.count[i] = T + k
                           /\ p.rest = 0 => p.world.count[i] = k

\* On the floor there is always room.
Lands(p) == p.cyl = Tile => p.state # "failed"

LEMMA TriesFields ==
  ASSUME NEW w, NEW c, NEW rest, NEW state
  PROVE  /\ Tries(w, c, rest, state).world = w /\ Tries(w, c, rest, state).cyl = c
         /\ Tries(w, c, rest, state).rest = rest /\ Tries(w, c, rest, state).state = state
BY DEF Tries

\* An object that is not in use counts for nothing.
LEMMA CountUnused ==
  ASSUME NEW w, Sound(w), NEW i \in Unused(w), NEW n \in 0 .. Stack, NEW v, v = WithCount(w, i, n)
  PROVE  /\ Sound(v) /\ v.parent = w.parent /\ v.inventory = w.inventory
         /\ v.count[i] = n /\ Total(v) = Total(w) /\ i \in Unused(v)
         /\ Charged(w) => Charged(v)
<1>1. i \in Coins /\ i \in Items /\ w.parent[i] = Nowhere /\ w.count \in [Items -> 0 .. Stack]
  BY KindsAreApart DEF Unused, Sound, Worlds
<1>2. /\ Sound(v) /\ v.parent = w.parent /\ v.inventory = w.inventory
      /\ v.count = [w.count EXCEPT ![i] = n] /\ Untouched(w, v)
  BY <1>1, CountIsSound
<1>3. v.count[i] = n /\ \A x \in Items : x # i => v.count[x] = w.count[x]
  BY <1>1, <1>2
<1>4. Total(v) = Total(w)
  <2>1. \A x \in Coins : Coin(v, x) = Coin(w, x)
    BY <1>1, <1>2, <1>3, KindsAreApart DEF Coin
  <2> QED BY <1>2, <2>1, TotalSame DEF Sound
<1> QED BY <1>1, <1>2, <1>3, <1>4, UntouchedStaysCharged DEF Unused, Sound

LEMMA SameCount ==
  ASSUME NEW w \in Worlds, NEW i \in Coins
  PROVE  WithCount(w, i, w.count[i]) = w
<1> DEFINE cnt == [w.count EXCEPT ![i] = w.count[i]]
<1>1. WithCount(w, i, w.count[i]) = [w EXCEPT !.count = cnt]
  BY DEF WithCount
<1>2. cnt = w.count
  BY DEF Worlds
<1> HIDE DEF cnt
<1> QED BY <1>1, <1>2 DEF Worlds

LEMMA TryIsSound ==
  ASSUME NEW T \in Nat, NEW k \in 1 .. Stack, NEW i, NEW p, Stacking(p, i, T, k), p.state = "adding",
         NEW d \in QueryDestination(p.world, p.cyl, Anywhere, i), NEW q, q = TryAt(p, d, i)
  PROVE  Stacking(q, i, T, k) /\ (p.cyl = Tile => q.cyl = Tile /\ q.state # "failed")
<1> DEFINE w == p.world
           m == w.count[i]
           t == d.item
           n == Least(Stack - w.count[t], m)
           No == \/ QueryAdd(w, d.cyl, d.index, i, m) # "ok"
                 \/ QueryMaxCount(w, p.cyl, Anywhere, i, m) < m
<1>0. /\ Sound(w) /\ Charged(w) /\ w \in Worlds /\ Placed(w) /\ p.cyl \in Cylinders /\ p.rest \in 0 .. k
      /\ i \in Unused(w) /\ i \in Coins /\ i \in Items /\ i \notin Bags /\ w.parent[i] = Nowhere
      /\ m \in 1 .. k /\ m \in 0 .. Stack /\ Stack \in Nat /\ Total(w) + m = T + k
      /\ p.rest = 0 => m = k
      /\ p.rest = 0 \/ Total(w) + p.rest >= T + k
      /\ Total(w) \in Nat /\ k \in Nat
  BY KindsAreApart, ItemsAssumption, CoinTypes DEF Stacking, Sound, Unused
<1>1. Offered(w, d)
  BY <1>0, Sent DEF Anywhere
<1>2. d.cyl \in Cylinders /\ d.cyl # Nowhere /\ d.index \in Int
  BY <1>1, ItemsAssumption, KindsAreApart DEF Offered
<1>3. p.cyl = Tile => d.cyl = Tile /\ ~No
  <2>1. SUFFICES ASSUME p.cyl = Tile PROVE d.cyl = Tile /\ ~No
    OBVIOUS
  <2>2. d.cyl = Tile
    BY <2>1, ToFields DEF QueryDestination
  <2>3. QueryAdd(w, d.cyl, d.index, i, m) = "ok" /\ QueryMaxCount(w, p.cyl, Anywhere, i, m) = m
    BY <2>1, <2>2 DEF QueryAdd, QueryMaxCount
  <2> QED BY <1>0, <2>2, <2>3
<1>4. CASE No
  <2> DEFINE v == WithCount(w, i, 0)
  <2>1. q = Tries(v, p.cyl, p.rest, "failed")
    BY <1>4 DEF TryAt
  <2>2. Sound(v) /\ Charged(v) /\ Total(v) = Total(w) /\ i \in Unused(v)
    BY <1>0, CountUnused
  <2> HIDE DEF v
  <2>3. q.world = v /\ q.cyl = p.cyl /\ q.rest = p.rest /\ q.state = "failed"
    BY <2>1, TriesFields
  <2>4. p.rest = 0 => Total(w) = T
    BY <1>0
  <2> QED BY <1>0, <1>3, <1>4, <2>2, <2>3, <2>4 DEF Stacking
<1>5. CASE ~No /\ t \in Coins /\ n > 0
  <2> DEFINE u == UpdateThing(w, t, w.count[t] + n)
             v == WithCount(u, i, m - n)
             rest == IF p.rest = 0 THEN m - n ELSE p.rest
             state == IF n = m THEN "added" ELSE "adding"
  <2>1. q = Tries(v, d.cyl, rest, state)
    BY <1>5 DEF TryAt
  <2>2. w.count[t] \in 0 .. Stack /\ n \in 1 .. m /\ w.count[t] + n <= Stack
    BY <1>0, <1>5, CoinTypes DEF Least
  <2>3. w.parent[t] # Nowhere /\ t # i
    BY <1>0, <1>1, <1>2, <1>5 DEF Offered
  <2> HIDE DEF n
  <2>4. /\ Sound(u) /\ u.carried = w.carried /\ u.parent = w.parent
        /\ \A x \in Items : x # t => u.count[x] = w.count[x]
        /\ Total(u) = Total(w) + n
        /\ \A s \in Slots : SlotWeight(w, s) <= SlotWeight(u, s)
    BY <1>0, <1>5, <2>2, <2>3, StackCoins
  <2> HIDE DEF u
  <2>5. Charged(u) /\ i \in Unused(u)
    BY <1>0, <2>4, StaysCharged DEF Sound, Unused
  <2>6. m - n \in 0 .. Stack
    BY <1>0, <2>2
  <2>7. Sound(v) /\ Charged(v) /\ v.count[i] = m - n /\ Total(v) = Total(u) /\ i \in Unused(v)
    BY <2>4, <2>5, <2>6, CountUnused
  <2> HIDE DEF v
  <2>8. rest \in 0 .. k /\ state \in {"adding", "added"} /\ (state = "adding" <=> n # m)
    BY <1>0, <2>2
  <2>9. rest # 0 => Total(v) + rest >= T + k
    BY <1>0, <2>2, <2>4, <2>7
  <2>10. state = "adding" => v.count[i] \in 1 .. k /\ (rest = 0 => v.count[i] = k)
    BY <1>0, <2>2, <2>7
  <2>11. Total(v) + (m - n) = T + k
    BY <1>0, <2>2, <2>4, <2>7
  <2>15. Total(v) \in Nat
    BY <2>7, CoinTypes DEF Sound
  <2> HIDE DEF rest, state
  <2>12. q.world = v /\ q.cyl = d.cyl /\ q.rest = rest /\ q.state = state
    BY <2>1, TriesFields
  <2>13. q.state = "added" => Total(v) = T + k
    BY <1>0, <2>2, <2>8, <2>11, <2>12, <2>15
  <2>14. Stacking(q, i, T, k)
    BY <1>2, <2>7, <2>8, <2>9, <2>10, <2>11, <2>12, <2>13 DEF Stacking
  <2> QED BY <1>3, <2>8, <2>12, <2>14
<1>6. CASE ~No /\ ~(t \in Coins /\ n > 0)
  <2> DEFINE a == AddThing(w, d.cyl, d.index, i)
             v == Notified(a, d.cyl)
  <2>1. q = Tries(v, p.cyl, p.rest, "added")
    BY <1>6 DEF TryAt
  <2>2. d.cyl = Tile \/ t \notin Coins
    <3>1. SUFFICES ASSUME t \in Coins, d.cyl # Tile PROVE FALSE
      OBVIOUS
    <3>2. HasRoom(w, t)
      BY <1>1, <3>1 DEF Offered
    <3>3. w.count[t] \in 0 .. Stack /\ w.count[t] < Stack
      BY <1>0, <3>1, <3>2, CoinTypes DEF HasRoom
    <3>4. n > 0
      BY <1>0, <3>3 DEF Least
    <3> QED BY <1>6, <3>1, <3>4
  <2>3. QueryAdd(w, d.cyl, d.index, i, m) = "ok"
    BY <1>6
  <2>4. Has(d.cyl, d.index) /\ (d.cyl = Player => w.inventory[d.index] = NoItem)
    <3>1. d.cyl = Player => d.index \in Slots
      BY <2>3, KindsAreApart, ItemsAssumption DEF QueryAdd
    <3>2. Player # Tile /\ Player \notin Bags
      BY KindsAreApart, ItemsAssumption
    <3> QED BY <1>1, <1>2, <2>2, <3>1, <3>2 DEF Offered, Has, Cylinders
  <2>5. WithCount(w, i, m) = w
    BY <1>0, SameCount
  <2>6. a = AddThing(WithCount(w, i, m), d.cyl, d.index, i)
    BY <2>5
  <2> HIDE DEF a
  <2>7. /\ Sound(a) /\ a.carried = w.carried
        /\ \A x \in Items : x # i => a.parent[x] = w.parent[x]
        /\ Total(a) = Total(w) + m
        /\ ~IsPlayers(w, d.cyl) => Untouched(w, a)
    BY <1>0, <1>2, <2>4, <2>6, AddCoins
  <2>8. IsPlayers(a, d.cyl) <=> IsPlayers(w, d.cyl)
    <3>1. i \notin Holders(w, d.cyl)
      BY <1>0, HoldersFacts
    <3>2. \A b \in Bags : b # i => a.parent[b] = w.parent[b]
      BY <2>7, KindsAreApart
    <3> QED BY <3>1, <3>2, SamePlayers
  <2>9. Sound(v) /\ Charged(v) /\ Total(v) = Total(a)
    <3>1. CASE IsPlayers(w, d.cyl)
      BY <2>7, <2>8, <3>1, NotifiedIsSound, NotifiedTotal
    <3>2. CASE ~IsPlayers(w, d.cyl)
      <4>1. Charged(a)
        BY <1>0, <2>7, <3>2, UntouchedStaysCharged DEF Sound
      <4> QED BY <2>7, <4>1, NotifiedIsSound, NotifiedTotal
    <3> QED BY <3>1, <3>2
  <2> HIDE DEF v
  <2>10. q.world = v /\ q.cyl = p.cyl /\ q.rest = p.rest /\ q.state = "added"
    BY <2>1, TriesFields
  <2>11. Total(v) = T + k
    BY <1>0, <2>7, <2>9
  <2> QED BY <1>0, <2>9, <2>10, <2>11 DEF Stacking
<1> QED BY <1>4, <1>5, <1>6

\* What is left after n of the tries of AddItem.
Tried(f, w, c, i, n) ==
  f = [m \in 0 .. n |-> IF m = 0 THEN {Tries(w, c, 0, "adding")}
                        ELSE UNION {Try(p, i) : p \in f[m - 1]}]

LEMMA TriedExists ==
  ASSUME NEW w, NEW c, NEW i, NEW n \in Nat
  PROVE  \E f : Tried(f, w, c, i, n)
<1> DEFINE S == {k \in Nat : \E f : Tried(f, w, c, i, k)}
           first == {Tries(w, c, 0, "adding")}
           After(g) == UNION {Try(p, i) : p \in g}
<1>1. 0 \in S
  <2> DEFINE f == [m \in 0 .. 0 |-> first]
  <2>1. \A m \in 0 .. 0 : f[m] = IF m = 0 THEN first ELSE After(f[m - 1])
    OBVIOUS
  <2>2. f = [m \in 0 .. 0 |-> IF m = 0 THEN first ELSE After(f[m - 1])]
    <3> HIDE DEF first, After
    <3> QED BY <2>1
  <2>3. Tried(f, w, c, i, 0)
    BY <2>2 DEF Tried
  <2> QED BY <2>3
<1>2. ASSUME NEW k \in Nat, k \in S PROVE k + 1 \in S
  <2>1. PICK f : Tried(f, w, c, i, k)
    BY <1>2
  <2> DEFINE more == After(f[k])
             g == [m \in 0 .. (k + 1) |-> IF m = k + 1 THEN more ELSE f[m]]
  <2>2. f = [m \in 0 .. k |-> IF m = 0 THEN first ELSE After(f[m - 1])]
    BY <2>1 DEF Tried
  <2>3. \A m \in 0 .. (k + 1) : g[m] = IF m = 0 THEN first ELSE After(g[m - 1])
    <3> SUFFICES ASSUME NEW m \in 0 .. (k + 1)
                 PROVE  g[m] = IF m = 0 THEN first ELSE After(g[m - 1])
      OBVIOUS
    <3>1. CASE m = k + 1
      <4>1. m # 0 /\ m - 1 = k /\ g[m] = After(f[k])
        BY <3>1
      <4>2. g[m - 1] = f[k]
        BY <4>1
      <4> HIDE DEF g, first, After
      <4> QED BY <4>1, <4>2
    <3>2. CASE m # k + 1
      <4>1. m \in 0 .. k /\ g[m] = f[m]
        BY <3>2
      <4>2. m # 0 => m - 1 \in 0 .. (k + 1) /\ m - 1 # k + 1 /\ g[m - 1] = f[m - 1]
        BY <4>1
      <4>3. f[m] = IF m = 0 THEN first ELSE After(f[m - 1])
        <5> HIDE DEF first, After
        <5> QED BY <2>2, <4>1
      <4> HIDE DEF g, first, After
      <4> QED BY <4>1, <4>2, <4>3
    <3> QED BY <3>1, <3>2
  <2>4. g = [m \in 0 .. (k + 1) |-> IF m = 0 THEN first ELSE After(g[m - 1])]
    <3>1. g = [m \in 0 .. (k + 1) |-> g[m]]
      OBVIOUS
    <3> HIDE DEF g, first, After
    <3> QED BY <2>3, <3>1
  <2>5. Tried(g, w, c, i, k + 1)
    <3> HIDE DEF g
    <3> QED BY <2>4 DEF Tried
  <2> QED BY <2>5
<1>3. Nat \subseteq S
  <2> HIDE DEF S
  <2> QED BY <1>1, <1>2, NatBySuccessor
<1> QED BY <1>3

\* Every try is sound, so all of them are, and a stack dropped to the floor lands.
LEMMA AddItemIsSound ==
  ASSUME NEW w, Sound(w), Charged(w), NEW c \in Cylinders, NEW k \in 1 .. Stack,
         NEW i \in Unused(w), w.count[i] = k, NEW q \in AddItem(w, c, i)
  PROVE  /\ Stacking(q, i, Total(w), k) /\ q.state # "adding"
         /\ c = Tile => q.state = "added"
<1> DEFINE T == Total(w)
           Good(p) == Stacking(p, i, T, k) /\ (c = Tile => p.cyl = Tile /\ p.state # "failed")
<1>0. MaxTries \in Nat
  <2>1. IsFiniteSet(Coins)
    BY ItemsAssumption, KindsAreApart, FS_Subset
  <2> QED BY <2>1, FS_CardinalityType DEF MaxTries
<1>1. T \in Nat /\ k \in 0 .. k /\ 0 \in 0 .. k
  BY ItemsAssumption, CoinTypes DEF Sound
<1> DEFINE f == CHOOSE f : Tried(f, w, c, i, MaxTries)
<1>2. Tried(f, w, c, i, MaxTries)
  BY <1>0, TriedExists
<1>3. q \in f[MaxTries] /\ q.state # "adding"
  BY DEF AddItem, Tried
<1> HIDE DEF f, T
<1>4. f[0] = {Tries(w, c, 0, "adding")} /\ \A m \in 1 .. MaxTries : f[m] = UNION {Try(p, i) : p \in f[m - 1]}
  BY <1>0, <1>2 DEF Tried
<1>5. ASSUME NEW p, Good(p), NEW x \in Try(p, i) PROVE Good(x)
  <2>1. CASE p.state # "adding"
    BY <1>5, <2>1 DEF Try
  <2>2. CASE p.state = "adding"
    <3>1. PICK d \in QueryDestination(p.world, p.cyl, Anywhere, i) : x = TryAt(p, d, i)
      BY <2>2 DEF Try
    <3> QED BY <1>1, <1>5, <2>2, <3>1, TryIsSound
  <2> QED BY <2>1, <2>2
<1>6. \A p \in f[0] : Good(p)
  <2> DEFINE p == Tries(w, c, 0, "adding")
  <2>1. p.world = w /\ p.cyl = c /\ p.rest = 0 /\ p.state = "adding"
    BY TriesFields
  <2> HIDE DEF p
  <2>2. Good(p)
    BY <1>1, <2>1 DEF Stacking, T
  <2> HIDE DEF Good
  <2> QED BY <1>4, <2>2 DEF p
<1> HIDE DEF Good
<1> DEFINE G == {m \in Nat : m <= MaxTries => \A p \in f[m] : Good(p)}
<1>7. ASSUME NEW m \in Nat, m \in G PROVE m + 1 \in G
  <2>1. SUFFICES ASSUME m + 1 <= MaxTries, NEW x \in f[m + 1] PROVE Good(x)
    OBVIOUS
  <2>2. m + 1 \in 1 .. MaxTries /\ (m + 1) - 1 = m /\ \A p \in f[m] : Good(p)
    BY <1>0, <1>7, <2>1
  <2>3. PICK p \in f[m] : x \in Try(p, i)
    BY <1>4, <2>1, <2>2
  <2> QED BY <1>5, <2>2, <2>3
<1>8. Nat \subseteq G
  <2>1. 0 \in G
    BY <1>6
  <2> HIDE DEF G
  <2> QED BY <1>7, <2>1, NatBySuccessor
<1>9. Good(q)
  BY <1>0, <1>3, <1>8
<1> QED BY <1>3, <1>9 DEF Good, T, Stacking

\* What is given is there, on the player or on the floor.
LEMMA GiveIsSound ==
  ASSUME NEW w, Sound(w), Charged(w), Unused(w) # {}, NEW k \in 1 .. Stack, NEW v \in GiveCoins(w, k)
  PROVE  Sound(v) /\ Charged(v) /\ Total(v) >= Total(w) + k
<1> DEFINE i == Created(w)
           rest(p) == IF p.rest > 0 THEN p.rest ELSE k
           u == WithCount(w, i, k)
<1>0. i \in Unused(w) /\ Player \in Cylinders /\ Tile \in Cylinders /\ Stack \in Nat /\ k \in 0 .. Stack
  BY ItemsAssumption DEF Created, Cylinders
<1>1. PICK p \in AddItem(u, Player, i) :
        v \in IF p.state = "added" THEN {p.world}
              ELSE {q.world : q \in AddItem(WithCount(p.world, i, rest(p)), Tile, i)}
  BY DEF GiveCoins
<1> HIDE DEF i
<1>2. Sound(u) /\ Charged(u) /\ Total(u) = Total(w) /\ i \in Unused(u) /\ u.count[i] = k
  BY <1>0, CountUnused
<1> HIDE DEF u
<1>3. Stacking(p, i, Total(u), k) /\ p.state # "adding"
  BY <1>0, <1>1, <1>2, AddItemIsSound
<1>4. Total(w) \in Nat /\ Total(p.world) \in Nat
  BY <1>3, CoinTypes DEF Stacking, Sound
<1>5. CASE p.state = "added"
  BY <1>1, <1>2, <1>3, <1>4, <1>5 DEF Stacking
<1>6. CASE p.state = "failed"
  <2> DEFINE r == rest(p)
             x == WithCount(p.world, i, r)
  <2>1. PICK q \in AddItem(x, Tile, i) : v = q.world
    BY <1>1, <1>6
  <2>2. r \in 1 .. Stack /\ r \in 0 .. Stack /\ Total(p.world) + r >= Total(w) + k
    BY <1>0, <1>2, <1>3, <1>4, <1>6 DEF Stacking
  <2>3. Sound(p.world) /\ Charged(p.world) /\ i \in Unused(p.world)
    BY <1>3, <1>6 DEF Stacking
  <2> HIDE DEF r
  <2>4. Sound(x) /\ Charged(x) /\ Total(x) = Total(p.world) /\ i \in Unused(x) /\ x.count[i] = r
    BY <2>2, <2>3, CountUnused
  <2> HIDE DEF x
  <2>5. Stacking(q, i, Total(x), r) /\ q.state = "added"
    BY <1>0, <2>1, <2>2, <2>4, AddItemIsSound
  <2> QED BY <2>1, <2>2, <2>4, <2>5 DEF Stacking
<1> QED BY <1>3, <1>5, <1>6 DEF Stacking

\* Coins that are taken from a stack, and who carried it weighs again.
LEMMA TakenAndToldIsSound ==
  ASSUME NEW w, Sound(w), Charged(w), NEW i \in Coins, w.parent[i] # Nowhere, NEW n \in 0 .. w.count[i],
         NEW v, v = Notified(Released(RemoveThing(w, i, n), i), w.parent[i])
  PROVE  /\ Sound(v) /\ Charged(v) /\ Total(v) = Total(w) - n
         /\ n = w.count[i] => Unused(v) # {}
<1> DEFINE from == w.parent[i]
           u == Released(RemoveThing(w, i, n), i)
<1>0. i \in Items /\ i \notin Bags /\ w \in Worlds
  BY KindsAreApart DEF Sound
<1>1. /\ Sound(u) /\ u.carried = w.carried
      /\ \A x \in Items : x # i => u.parent[x] = w.parent[x]
      /\ Total(u) = Total(w) - n
      /\ (n = w.count[i] => i \in Unused(u))
      /\ ~IsPlayers(w, from) => Untouched(w, u)
  BY TakeCoins
<1>2. v = Notified(u, from)
  OBVIOUS
<1> HIDE DEF u
<1>3. IsPlayers(u, from) <=> IsPlayers(w, from)
  <2>1. i \notin Holders(w, from)
    BY <1>0, HoldersFacts
  <2>2. \A b \in Bags : b # i => u.parent[b] = w.parent[b]
    BY <1>1, KindsAreApart
  <2> QED BY <2>1, <2>2, SamePlayers
<1> HIDE DEF from
<1>4. Sound(v) /\ v.parent = u.parent /\ Total(v) = Total(u)
  BY <1>1, <1>2, NotifiedIsSound, NotifiedTotal
<1>5. Charged(v)
  <2>1. CASE IsPlayers(w, from)
    BY <1>1, <1>2, <1>3, <2>1, NotifiedIsSound
  <2>2. CASE ~IsPlayers(w, from)
    <3>1. Charged(u)
      BY <1>0, <1>1, <2>2, UntouchedStaysCharged DEF Sound
    <3> QED BY <1>1, <1>2, <3>1, NotifiedIsSound
  <2> QED BY <2>1, <2>2
<1>6. Unused(v) = Unused(u)
  BY <1>4 DEF Unused
<1> QED BY <1>1, <1>4, <1>5, <1>6

\* The player owes p.left of k coins that were taken from a world of T.
Paying(p, T, k) ==
  /\ Sound(p.world) /\ Charged(p.world) /\ p.left \in Nat
  /\ Total(p.world) + k >= T + p.left

LEMMA OwesFields ==
  ASSUME NEW w, NEW k
  PROVE  Owes(w, k).world = w /\ Owes(w, k).left = k
BY DEF Owes

LEMMA PaysIsSound ==
  ASSUME NEW T \in Nat, NEW k \in Nat, NEW p, Paying(p, T, k), NEW q \in Pays(p)
  PROVE  Paying(q, T, k)
<1>1. CASE p.left = 0
  BY <1>1 DEF Pays
<1>2. CASE p.left # 0
  <2>1. PICK t \in Smallest(p.world) : q \in PayWith(p, t)
    BY <1>2 DEF Pays
  <2> DEFINE w == p.world
             n == w.count[t]
             w1 == Notified(Released(RemoveThing(w, t, n), t), w.parent[t])
  <2>2. /\ Sound(w) /\ Charged(w) /\ w \in Worlds /\ p.left \in Nat /\ Total(w) + k >= T + p.left
        /\ Stack \in Nat
    BY ItemsAssumption DEF Paying, Sound
  <2>3. t \in Coins /\ IsPlayers(w, w.parent[t])
    BY <2>1 DEF Smallest, Money
  <2>4. w.parent[t] # Nowhere
    <3>1. Nowhere # Player /\ Nowhere \notin Bags
      BY ItemsAssumption, KindsAreApart
    <3>2. Holders(w, Nowhere) = {}
      BY <3>1, NoHolders
    <3> QED BY <2>3, <3>1, <3>2 DEF IsPlayers
  <2>5. n \in 0 .. Stack /\ n \in 0 .. n /\ n = w.count[t] /\ w1 = Notified(Released(RemoveThing(w, t, n), t), w.parent[t])
    BY <2>2, <2>3, CoinTypes
  <2>6. Sound(w1) /\ Charged(w1) /\ Total(w1) = Total(w) - n /\ Unused(w1) # {}
    <3> HIDE DEF n, w1
    <3>1. n \in 0 .. w.count[t]
      BY <2>5
    <3> QED BY <2>2, <2>3, <2>4, <2>5, <3>1, TakenAndToldIsSound
  <2>7. q \in IF n > p.left THEN {Owes(v, 0) : v \in GiveCoins(w1, n - p.left)} ELSE {Owes(w1, p.left - n)}
    BY <2>1 DEF PayWith
  <2> HIDE DEF n, w1
  <2>8. Total(w) \in Nat /\ Total(w1) \in Nat
    BY <2>2, <2>6, CoinTypes DEF Sound
  <2>9. CASE ~(n > p.left)
    <3>1. q.world = w1 /\ q.left = p.left - n
      BY <2>7, <2>9, OwesFields
    <3>2. p.left - n \in Nat /\ Total(w1) + k >= T + (p.left - n)
      BY <2>2, <2>5, <2>6, <2>8, <2>9
    <3> QED BY <2>6, <3>1, <3>2 DEF Paying
  <2>10. CASE n > p.left
    <3>1. PICK v \in GiveCoins(w1, n - p.left) : q = Owes(v, 0)
      BY <2>7, <2>10
    <3>2. n - p.left \in 1 .. Stack
      BY <1>2, <2>2, <2>5, <2>10
    <3>3. Sound(v) /\ Charged(v) /\ Total(v) >= Total(w1) + (n - p.left)
      BY <2>6, <3>1, <3>2, GiveIsSound
    <3>4. q.world = v /\ q.left = 0
      BY <3>1, OwesFields
    <3>5. Total(v) \in Nat
      BY <3>3, CoinTypes DEF Sound
    <3> QED BY <2>2, <2>5, <2>6, <2>8, <3>3, <3>4, <3>5 DEF Paying
  <2> QED BY <1>2, <2>2, <2>5, <2>9, <2>10
<1> QED BY <1>1, <1>2

\* What is left after n stacks.
Paid(f, w, k, n) ==
  f = [m \in 0 .. n |-> IF m = 0 THEN {Owes(w, k)} ELSE UNION {Pays(p) : p \in f[m - 1]}]

LEMMA PaidExists ==
  ASSUME NEW w, NEW k, NEW n \in Nat
  PROVE  \E f : Paid(f, w, k, n)
<1> DEFINE S == {j \in Nat : \E f : Paid(f, w, k, j)}
           first == {Owes(w, k)}
           After(g) == UNION {Pays(p) : p \in g}
<1>1. 0 \in S
  <2> DEFINE f == [m \in 0 .. 0 |-> first]
  <2>1. \A m \in 0 .. 0 : f[m] = IF m = 0 THEN first ELSE After(f[m - 1])
    OBVIOUS
  <2>2. f = [m \in 0 .. 0 |-> IF m = 0 THEN first ELSE After(f[m - 1])]
    <3> HIDE DEF first, After
    <3> QED BY <2>1
  <2>3. Paid(f, w, k, 0)
    BY <2>2 DEF Paid
  <2> QED BY <2>3
<1>2. ASSUME NEW j \in Nat, j \in S PROVE j + 1 \in S
  <2>1. PICK f : Paid(f, w, k, j)
    BY <1>2
  <2> DEFINE more == After(f[j])
             g == [m \in 0 .. (j + 1) |-> IF m = j + 1 THEN more ELSE f[m]]
  <2>2. f = [m \in 0 .. j |-> IF m = 0 THEN first ELSE After(f[m - 1])]
    BY <2>1 DEF Paid
  <2>3. \A m \in 0 .. (j + 1) : g[m] = IF m = 0 THEN first ELSE After(g[m - 1])
    <3> SUFFICES ASSUME NEW m \in 0 .. (j + 1)
                 PROVE  g[m] = IF m = 0 THEN first ELSE After(g[m - 1])
      OBVIOUS
    <3>1. CASE m = j + 1
      <4>1. m # 0 /\ m - 1 = j /\ g[m] = After(f[j])
        BY <3>1
      <4>2. g[m - 1] = f[j]
        BY <4>1
      <4> HIDE DEF g, first, After
      <4> QED BY <4>1, <4>2
    <3>2. CASE m # j + 1
      <4>1. m \in 0 .. j /\ g[m] = f[m]
        BY <3>2
      <4>2. m # 0 => m - 1 \in 0 .. (j + 1) /\ m - 1 # j + 1 /\ g[m - 1] = f[m - 1]
        BY <4>1
      <4>3. f[m] = IF m = 0 THEN first ELSE After(f[m - 1])
        <5> HIDE DEF first, After
        <5> QED BY <2>2, <4>1
      <4> HIDE DEF g, first, After
      <4> QED BY <4>1, <4>2, <4>3
    <3> QED BY <3>1, <3>2
  <2>4. g = [m \in 0 .. (j + 1) |-> IF m = 0 THEN first ELSE After(g[m - 1])]
    <3>1. g = [m \in 0 .. (j + 1) |-> g[m]]
      OBVIOUS
    <3> HIDE DEF g, first, After
    <3> QED BY <2>3, <3>1
  <2>5. Paid(g, w, k, j + 1)
    <3> HIDE DEF g
    <3> QED BY <2>4 DEF Paid
  <2> QED BY <2>5
<1>3. Nat \subseteq S
  <2> HIDE DEF S
  <2> QED BY <1>1, <1>2, NatBySuccessor
<1> QED BY <1>3

\* No more than k coins are gone when k were paid.
LEMMA RemoveMoneyIsSound ==
  ASSUME NEW w, Sound(w), Charged(w), NEW k \in Nat, NEW v \in RemoveMoney(w, k)
  PROVE  Sound(v) /\ Charged(v) /\ Total(v) + k >= Total(w)
<1> DEFINE T == Total(w)
           N == Cardinality(Coins)
           Good(p) == Paying(p, T, k)
           f == CHOOSE f : Paid(f, w, k, N)
<1>0. N \in Nat /\ T \in Nat
  <2>1. IsFiniteSet(Coins)
    BY ItemsAssumption, KindsAreApart, FS_Subset
  <2> QED BY <2>1, FS_CardinalityType, CoinTypes DEF Sound
<1>1. Paid(f, w, k, N)
  BY <1>0, PaidExists
<1>2. PICK q \in f[N] : q.left = 0 /\ v = q.world
  BY DEF RemoveMoney, Paid
<1> HIDE DEF f, T, N
<1>3. f[0] = {Owes(w, k)} /\ \A m \in 1 .. N : f[m] = UNION {Pays(p) : p \in f[m - 1]}
  BY <1>0, <1>1 DEF Paid
<1>4. ASSUME NEW p, Good(p), NEW x \in Pays(p) PROVE Good(x)
  BY <1>0, <1>4, PaysIsSound
<1>5. \A p \in f[0] : Good(p)
  <2> DEFINE p == Owes(w, k)
  <2>1. p.world = w /\ p.left = k
    BY OwesFields
  <2> HIDE DEF p
  <2>2. Good(p)
    BY <1>0, <2>1 DEF Paying, T
  <2> HIDE DEF Good
  <2> QED BY <1>3, <2>2 DEF p
<1> HIDE DEF Good
<1> DEFINE G == {m \in Nat : m <= N => \A p \in f[m] : Good(p)}
<1>6. ASSUME NEW m \in Nat, m \in G PROVE m + 1 \in G
  <2>1. SUFFICES ASSUME m + 1 <= N, NEW x \in f[m + 1] PROVE Good(x)
    OBVIOUS
  <2>2. m + 1 \in 1 .. N /\ (m + 1) - 1 = m /\ \A p \in f[m] : Good(p)
    BY <1>0, <1>6, <2>1
  <2>3. PICK p \in f[m] : x \in Pays(p)
    BY <1>3, <2>1, <2>2
  <2> QED BY <1>4, <2>2, <2>3
<1>7. Nat \subseteq G
  <2>1. 0 \in G
    BY <1>5
  <2> HIDE DEF G
  <2> QED BY <1>6, <2>1, NatBySuccessor
<1>8. Good(q)
  BY <1>0, <1>2, <1>7
<1>9. Total(v) \in Nat
  BY <1>2, <1>8, CoinTypes DEF Good, Paying, Sound
<1> QED BY <1>0, <1>2, <1>8, <1>9 DEF Good, T, Paying
-----------------------------------------------------------------------------
(* The invariant                                                             *)

LEMMA AtMostOne ==
  ASSUME NEW S, \A x, y \in S : x = y
  PROVE  Cardinality(S) = IF S = {} THEN 0 ELSE 1
<1>1. CASE S = {}
  BY <1>1, FS_EmptySet
<1>2. CASE S # {}
  <2>1. PICK x \in S : TRUE
    BY <1>2
  <2>2. S = {x}
    BY <2>1
  <2> QED BY <1>2, <2>2, FS_Singleton
<1> QED BY <1>1, <1>2

LEMMA ListedOnce ==
  ASSUME NEW list, NEW T, Lists(list, T), NEW i \in Items
  PROVE  Cardinality({n \in DOMAIN list : list[n] = i}) = IF i \in T THEN 1 ELSE 0
<1> DEFINE S == {n \in DOMAIN list : list[n] = i}
<1>1. \A m, n \in S : m = n
  BY DEF Lists
<1>2. i \in T <=> S # {}
  BY DEF Lists
<1> HIDE DEF S
<1>3. Cardinality(S) = IF i \in T THEN 1 ELSE 0
  BY <1>1, <1>2, AtMostOne
<1> QED BY <1>3 DEF S

LEMMA SoundAgrees ==
  ASSUME Sound(World), Charged(World)
  PROVE  ContentsAgree
<1>1. /\ World.parent = parent /\ World.content = content /\ World.inventory = inventory
      /\ World.ground = ground /\ World.total = totalWeight /\ World.carried = carried
  BY DEF World
<1>2. Nested(World) /\ Placed(World) /\ Weighed(World)
  BY DEF Sound
<1>3. \A b \in Bags : b \notin Holders(World, parent[b])
  BY <1>1, <1>2 DEF Nested
<1>4. ASSUME NEW i \in Items
      PROVE  /\ Cardinality({n \in DOMAIN ground : ground[n] = i}) = IF parent[i] = Tile THEN 1 ELSE 0
             /\ parent[i] = Player <=> Cardinality({s \in Slots : inventory[s] = i}) = 1
             /\ \A b \in Bags :
                  Cardinality({n \in DOMAIN content[b] : content[b][n] = i})
                    = IF parent[i] = b THEN 1 ELSE 0
  <2>1. \A c : i \in In(World, c) <=> parent[i] = c
    BY <1>1 DEF In
  <2>2. Cardinality({n \in DOMAIN ground : ground[n] = i}) = IF parent[i] = Tile THEN 1 ELSE 0
    <3>1. Lists(ground, In(World, Tile))
      BY <1>1, <1>2 DEF Placed
    <3>2. Cardinality({n \in DOMAIN ground : ground[n] = i}) = IF i \in In(World, Tile) THEN 1 ELSE 0
      BY <3>1, ListedOnce
    <3> QED BY <2>1, <3>2
  <2>3. parent[i] = Player <=> Cardinality({s \in Slots : inventory[s] = i}) = 1
    <3> DEFINE S == {s \in Slots : inventory[s] = i}
    <3>1. \A s, t \in S : s = t
      BY <1>1, <1>2 DEF Placed, InSlots
    <3>2. parent[i] = Player <=> S # {}
      BY <1>1, <1>2 DEF Placed, InSlots
    <3> HIDE DEF S
    <3>3. Cardinality(S) = IF S = {} THEN 0 ELSE 1
      BY <3>1, AtMostOne
    <3>4. parent[i] = Player <=> Cardinality(S) = 1
      BY <3>2, <3>3
    <3> QED BY <3>4 DEF S
  <2>4. ASSUME NEW b \in Bags
        PROVE  Cardinality({n \in DOMAIN content[b] : content[b][n] = i})
                 = IF parent[i] = b THEN 1 ELSE 0
    <3>1. Lists(content[b], In(World, b))
      BY <1>1, <1>2 DEF Placed
    <3>2. Cardinality({n \in DOMAIN content[b] : content[b][n] = i}) = IF i \in In(World, b) THEN 1 ELSE 0
      BY <3>1, ListedOnce
    <3> QED BY <2>1, <3>2
  <2> QED BY <2>2, <2>3, <2>4
<1>5. PlacesAgree
  BY <1>3, <1>4 DEF PlacesAgree
<1>6. WeightsAreSums
  BY <1>1, <1>2 DEF WeightsAreSums, Weighed, Charged
<1> QED BY <1>5, <1>6 DEF ContentsAgree

LEMMA SetToSeqLists ==
  ASSUME NEW S \in SUBSET Items, IsFiniteSet(S)
  PROVE  Lists(SetToSeq(S), S)
<1> DEFINE n == Cardinality(S)
           f == SetToSeq(S)
<1>1. n \in Nat /\ ExistsBijection(1 .. n, S)
  BY FS_CardinalityType
<1>2. \E g \in [1 .. n -> S] : IsInjective(g)
  BY <1>1 DEF ExistsBijection, Bijection, Injection
<1>3. f \in [1 .. n -> S] /\ IsInjective(f)
  BY <1>2 DEF SetToSeq
<1> HIDE DEF f
<1>4. \A x \in S : \E m \in 1 .. n : f[m] = x
  <2>1. f \in Injection(1 .. n, S)
    BY <1>3 DEF Injection
  <2>2. Cardinality(1 .. n) = n
    BY <1>1, FS_Interval
  <2>3. f \in Surjection(1 .. n, S)
    BY <2>1, <2>2, FS_Injection
  <2> QED BY <2>3 DEF Surjection
<1> HIDE DEF n
<1>5. f \in Seq(Items) /\ DOMAIN f = 1 .. n
  BY <1>1, <1>3 DEF n
<1>6. \A m, k \in DOMAIN f : f[m] = f[k] => m = k
  BY <1>3 DEF IsInjective
<1>7. \A i \in Items : (\E m \in DOMAIN f : f[m] = i) <=> i \in S
  BY <1>3, <1>4, <1>5
<1>8. Lists(f, S)
  BY <1>5, <1>6, <1>7 DEF Lists
<1> QED BY <1>8 DEF f

LEMMA SumZero ==
  ASSUME NEW S, IsFiniteSet(S), NEW h, \A x \in S : h[x] = 0
  PROVE  SumFunctionOnSet(h, S) = 0
<1> DEFINE g == [s \in SUBSET S |-> 0]
<1>1. PICK f : Adds(f, S, h) /\ SumFunctionOnSet(h, S) = f[S]
  BY SumAdds
<1>2. Adds(g, S, h)
  BY DEF Adds
<1>3. f[S] <= g[S] /\ g[S] <= f[S]
  <2>1. \A x \in S : h[x] \in Int /\ h[x] <= h[x]
    OBVIOUS
  <2> HIDE DEF g
  <2> QED BY <1>1, <1>2, <2>1, AddsMore
<1>4. f[S] \in Int
  BY <1>1 DEF Adds
<1> QED BY <1>1, <1>3, <1>4

\* The world is sound, no one is charged for what he does not carry, and no
\* given coin is lost.
Kept == Sound(World) /\ Charged(World) /\ given \in Int /\ Total(World) >= given

LEMMA InitIsKept ==
  ASSUME Init
  PROVE  Kept
<1> DEFINE w == World
           S == Items \ (Coins \cup {InitialBag})
<1>0. /\ InitialBag \in Bags /\ InitialSlot \in Slots /\ InitialBag \in Items
      /\ Bags \subseteq Items /\ Coins \subseteq Items /\ Bags \cap Coins = {}
      /\ Player \notin Bags /\ Tile \notin Bags /\ Player # Tile /\ Nowhere \notin Items
      /\ Nowhere # Player /\ Nowhere # Tile /\ NoItem \notin Items /\ Stack \in Nat \ {0}
      /\ Player \in Cylinders /\ Tile \in Cylinders /\ IsFiniteSet(Items) /\ IsFiniteSet(Slots)
  BY ItemsAssumption, KindsAreApart DEF InitialBag, InitialSlot, Cylinders
<1>1. /\ w.parent = [i \in Items |-> IF i = InitialBag THEN Player
                                     ELSE IF i \in Coins THEN Nowhere ELSE Tile]
      /\ w.content = [b \in Bags |-> <<>>]
      /\ w.inventory = [s \in Slots |-> IF s = InitialSlot THEN InitialBag ELSE NoItem]
      /\ w.ground = SetToSeq(S)
      /\ w.count = [i \in Items |-> IF i \in Coins THEN 0 ELSE 1]
      /\ w.total = [b \in Bags |-> 0]
      /\ w.carried = 1
      /\ w = [parent |-> w.parent, content |-> w.content, inventory |-> w.inventory,
              ground |-> w.ground, count |-> w.count, total |-> w.total, carried |-> w.carried]
  BY DEF Init, World
<1> HIDE DEF w
<1>2. Lists(w.ground, S)
  <2>1. S \in SUBSET Items /\ IsFiniteSet(S)
    BY <1>0, FS_Subset
  <2> HIDE DEF S
  <2> QED BY <1>1, <2>1, SetToSeqLists
<1>3. w \in Worlds
  <2>1. /\ w.parent \in [Items -> Cylinders \cup {Nowhere}]
        /\ w.content \in [Bags -> Seq(Items)]
        /\ w.inventory \in [Slots -> Items \cup {NoItem}]
        /\ w.count \in [Items -> 0 .. Stack]
        /\ w.total \in [Bags -> Int]
        /\ w.carried \in Int
    BY <1>0, <1>1
  <2>2. w.ground \in Seq(Items)
    BY <1>2 DEF Lists
  <2> QED BY <1>1, <2>1, <2>2 DEF Worlds
<1>4. /\ \A b \in Bags : w.parent[b] \in {Player, Tile} /\ w.content[b] = <<>> /\ w.total[b] = 0
      /\ \A i \in Items : w.parent[i] \in {Player, Tile, Nowhere}
      /\ \A i \in Items : w.parent[i] = Player <=> i = InitialBag
      /\ \A i \in Items : w.parent[i] = Tile <=> i \in S
      /\ \A s \in Slots : w.inventory[s] = IF s = InitialSlot THEN InitialBag ELSE NoItem
      /\ \A i \in Coins : w.parent[i] = Nowhere
  BY <1>0, <1>1
<1>5. Nested(w)
  BY <1>0, <1>4, NoHolders DEF Nested
<1>6. Placed(w)
  <2>1. ASSUME NEW b \in Bags PROVE Lists(w.content[b], In(w, b))
    <3>1. In(w, b) = {}
      BY <1>0, <1>4 DEF In
    <3>2. w.content[b] = <<>> /\ <<>> \in Seq(Items) /\ DOMAIN w.content[b] = {}
      BY <1>4
    <3> QED BY <3>1, <3>2 DEF Lists
  <2>2. Lists(w.ground, In(w, Tile))
    <3>1. \A i \in Items : i \in S <=> i \in In(w, Tile)
      BY <1>4 DEF In
    <3> QED BY <1>2, <3>1, ListSame
  <2>3. InSlots(w)
    BY <1>0, <1>4 DEF InSlots
  <2> QED BY <2>1, <2>2, <2>3 DEF Placed
<1>7. Weighed(w)
  <2>1. ASSUME NEW b \in Bags PROVE ContentWeight(w, b) = 0
    <3> DEFINE h == [i \in Items |-> Share(w, b, i)]
    <3>1. \A i \in Items : h[i] = 0
      BY <1>0, <1>4 DEF Share
    <3>2. SumFunctionOnSet(h, Items) = 0
      <4> HIDE DEF h
      <4> QED BY <1>0, <3>1, SumZero
    <3> QED BY <3>2 DEF ContentWeight, Share
  <2> QED BY <1>4, <2>1 DEF Weighed
<1>8. Charged(w)
  <2> DEFINE h == [s \in Slots |-> SlotWeight(w, s)]
             z == [s \in Slots |-> 0]
  <2>1. h[InitialSlot] = 1 /\ \A s \in Slots : s # InitialSlot => h[s] = 0
    BY <1>0, <1>4 DEF SlotWeight, Weight
  <2>2. (\A s \in Slots : z[s] = 0) /\ InitialSlot \in Slots /\ IsFiniteSet(Slots)
    BY <1>0
  <2>3. InventoryWeight(w) = SumFunctionOnSet(h, Slots)
    BY DEF InventoryWeight
  <2> HIDE DEF h, z
  <2>4. SumFunctionOnSet(h, Slots) = SumFunctionOnSet(z, Slots) - z[InitialSlot] + h[InitialSlot]
    <3>1. \A s \in Slots : z[s] \in Int /\ h[s] \in Int
      BY <2>1, <2>2
    <3>2. \A s \in Slots : s # InitialSlot => z[s] = h[s]
      BY <2>1, <2>2
    <3> QED BY <2>2, <3>1, <3>2, SumChanges
  <2>5. SumFunctionOnSet(z, Slots) = 0
    BY <2>2, SumZero
  <2>6. InventoryWeight(w) = 1
    BY <2>1, <2>2, <2>3, <2>4, <2>5
  <2> QED BY <1>1, <2>6 DEF Charged
<1>9. given = 0 /\ Total(w) \in Nat
  BY <1>3, CoinTypes DEF Init
<1> QED BY <1>3, <1>5, <1>6, <1>7, <1>8, <1>9 DEF Kept, Sound, w

LEMMA WorldBecomes ==
  ASSUME NEW w \in Worlds, Becomes(w)
  PROVE  World' = w
BY DEF Becomes, World, Worlds

\* A move keeps all of it, and the number of coins.
LEMMA MoveIsKept ==
  ASSUME Kept, NEW i \in Items, NEW c \in Cylinders, NEW n \in Indices(c), NEW k \in 1 .. Stack,
         Move(i, c, n, k)
  PROVE  Kept' /\ Total(World') = Total(World)
<1>1. n \in Int
  BY ItemsAssumption DEF Indices, MoveUp
<1>2. PICK w \in MoveItem(World, c, n, i, k) : Becomes(w)
  BY DEF Move
<1>3. World.parent[i] # Nowhere
  BY DEF Move, World
<1>4. Moved(World, w)
  BY <1>1, <1>3, MoveIsSound DEF Kept, Move
<1>5. World' = w
  BY <1>2, <1>4, WorldBecomes DEF Moved, Sound
<1>6. given' = given
  BY DEF Move
<1> QED BY <1>4, <1>5, <1>6 DEF Kept, Moved

LEMMA GiveIsKept ==
  ASSUME Kept, NEW k \in 1 .. Stack, Give(k)
  PROVE  Kept' /\ given' # given
<1>1. PICK w \in GiveCoins(World, k) : Becomes(w)
  BY DEF Give
<1>2. Sound(w) /\ Charged(w) /\ Total(w) >= Total(World) + k
  BY GiveIsSound DEF Kept, Give
<1>3. World' = w
  BY <1>1, <1>2, WorldBecomes DEF Sound
<1>4. given' = given + k /\ given \in Int /\ k \in Nat \ {0}
  BY ItemsAssumption DEF Give, Kept
<1>5. Total(World) \in Nat /\ Total(w) \in Nat
  BY <1>2, CoinTypes DEF Kept, Sound
<1>6. Total(w) >= given'
  BY <1>2, <1>4, <1>5 DEF Kept
<1> QED BY <1>2, <1>3, <1>4, <1>6 DEF Kept

LEMMA RemoveIsKept ==
  ASSUME Kept, NEW i \in Coins, NEW k \in 1 .. Stack, RemoveItem(i, k)
  PROVE  Kept' /\ given' # given
<1> DEFINE w == Notified(Released(RemoveThing(World, i, k), i), World.parent[i])
<1>1. World.parent = parent /\ World.count = count
  BY DEF World
<1>2. World.count[i] \in 0 .. Stack /\ Total(World) \in Nat
  BY CoinTypes DEF Kept, Sound
<1>3. k \in 0 .. World.count[i]
  BY <1>1, <1>2, ItemsAssumption DEF RemoveItem
<1>4. World.parent[i] # Nowhere /\ Becomes(w)
  BY <1>1 DEF RemoveItem
<1>5. Sound(w) /\ Charged(w) /\ Total(w) = Total(World) - k
  BY <1>3, <1>4, TakenAndToldIsSound DEF Kept
<1> HIDE DEF w
<1>6. World' = w
  BY <1>4, <1>5, WorldBecomes DEF Sound
<1>7. given' = given - k /\ given \in Int /\ k \in Nat \ {0}
  BY ItemsAssumption DEF RemoveItem, Kept
<1>8. Total(w) >= given'
  BY <1>2, <1>5, <1>7 DEF Kept
<1> QED BY <1>5, <1>6, <1>7, <1>8 DEF Kept

LEMMA PayIsKept ==
  ASSUME Kept, NEW k \in 1 .. Stack, Pay(k)
  PROVE  Kept' /\ given' # given
<1>1. PICK w \in RemoveMoney(World, k) : Becomes(w)
  BY DEF Pay
<1>2. k \in Nat \ {0}
  BY ItemsAssumption
<1>3. Sound(w) /\ Charged(w) /\ Total(w) + k >= Total(World)
  BY <1>2, RemoveMoneyIsSound DEF Kept
<1>4. World' = w
  BY <1>1, <1>3, WorldBecomes DEF Sound
<1>5. given' = given - k /\ given \in Int
  BY DEF Pay, Kept
<1>6. Total(World) \in Nat /\ Total(w) \in Nat
  BY <1>3, CoinTypes DEF Kept, Sound
<1>7. Total(w) >= given'
  BY <1>2, <1>3, <1>5, <1>6 DEF Kept
<1> QED BY <1>2, <1>3, <1>4, <1>5, <1>7 DEF Kept

LEMMA StepIsKept ==
  ASSUME Kept, [Next]_vars
  PROVE  Kept' /\ (given' = given => Total(World') = Total(World))
<1>1. CASE \E i \in Items, c \in Cylinders : \E n \in Indices(c), k \in 1 .. Stack : Move(i, c, n, k)
  BY <1>1, MoveIsKept
<1>2. CASE \E k \in 1 .. Stack : Give(k)
  BY <1>2, GiveIsKept
<1>3. CASE \E i \in Coins, k \in 1 .. Stack : RemoveItem(i, k)
  BY <1>3, RemoveIsKept
<1>4. CASE \E k \in 1 .. Stack : Pay(k)
  BY <1>4, PayIsKept
<1>5. CASE UNCHANGED vars
  <2>1. World' = World /\ given' = given
    BY <1>5 DEF vars, World
  <2> QED BY <2>1 DEF Kept
<1> QED BY <1>1, <1>2, <1>3, <1>4, <1>5 DEF Next

LEMMA AlwaysKept == Spec => []Kept
<1>1. Init => Kept
  BY InitIsKept
<1>2. Kept /\ [Next]_vars => Kept'
  BY StepIsKept
<1> QED BY <1>1, <1>2, PTL DEF Spec

\* In every state each item lies in the list of its parent, once, no bag lies
\* in itself, every cached weight is a sum and the player is not charged for
\* what he does not carry.
THEOREM ContentsAlwaysAgree == Spec => []ContentsAgree
<1>1. Kept => ContentsAgree
  BY SoundAgrees DEF Kept
<1> QED BY <1>1, AlwaysKept, PTL

\* The coins that were given and not taken are there.
THEOREM NothingIsEverLost == Spec => []NothingIsLost
<1>1. Kept => NothingIsLost
  BY DEF Kept, NothingIsLost
<1> QED BY <1>1, AlwaysKept, PTL

\* No move makes a coin or loses one.
THEOREM EveryMoveConserves == Spec => MovesConserve
<1>1. Kept /\ [Next]_vars => [given' = given => Total(World)' = Total(World)]_vars
  <2>1. ASSUME Kept, [Next]_vars, given' = given PROVE Total(World)' = Total(World)
    <3>1. Total(World') = Total(World)
      BY <2>1, StepIsKept
    <3> QED BY <3>1
  <2> QED BY <2>1
<1> QED BY <1>1, AlwaysKept, PTL DEF Spec, MovesConserve

=============================================================================
