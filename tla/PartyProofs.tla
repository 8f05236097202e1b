---------------------------- MODULE PartyProofs ----------------------------
(***************************************************************************)
(* Theorems about Party, for any number of players and parties.            *)
(*                                                                         *)
(* The methods of Party are operators on the state g of all parties, and   *)
(* so is the invariant: Good(g, present) says of a g what MembershipAgrees,*)
(* InvitationsAgree, PartyIsUsed and ListenersAreOnline say of the         *)
(* variables.  One lemma per method shows that it keeps Good; the tasks    *)
(* then follow from the methods they call.                                 *)
(***************************************************************************)
EXTENDS Party, FiniteSetTheorems, TLAPS

----------------------------------------------------------------------------
(* Lists                                                                   *)

\* Erasing a player from a list without repetitions removes him and no other.
LEMMA WithoutErases ==
  ASSUME NEW s \in Seq(Players), Distinct(s), NEW p
  PROVE  /\ Without(s, p) \in Seq(Players)
         /\ Distinct(Without(s, p))
         /\ ToSet(Without(s, p)) = ToSet(s) \ {p}
<1>1. CASE p \notin ToSet(s)
  BY <1>1 DEF Without
<1>2. CASE p \in ToSet(s)
  <2> DEFINE i == CHOOSE i \in DOMAIN s : s[i] = p
             t == [j \in 1..Len(s) - 1 |-> IF j < i THEN s[j] ELSE s[j + 1]]
  <2>1. i \in DOMAIN s /\ s[i] = p
    BY <1>2 DEF ToSet
  <2>2. Without(s, p) = t
    BY <1>2 DEF Without
  <2>3. /\ Len(s) \in Nat
        /\ DOMAIN s = 1..Len(s)
        /\ \A j \in 1..Len(s) : s[j] \in Players
    OBVIOUS
  <2> HIDE DEF i
  <2>4. Len(s) - 1 \in Nat
    BY <2>1, <2>3
  <2>5. \A j \in 1..Len(s) - 1 : t[j] \in Players
    BY <2>1, <2>3
  <2>6. t \in Seq(Players)
    BY <2>4, <2>5
  <2>7. DOMAIN t = 1..Len(s) - 1
    OBVIOUS
  <2>8. \A j, k \in 1..Len(s) : s[j] = s[k] => j = k
    BY <2>3 DEF Distinct
  <2>9. Distinct(t)
    <3> SUFFICES ASSUME NEW j \in 1..Len(s) - 1, NEW k \in 1..Len(s) - 1, t[j] = t[k]
                 PROVE  j = k
      BY <2>7 DEF Distinct
    <3> QED BY <2>1, <2>3, <2>4, <2>8
  <2>10. ToSet(t) = ToSet(s) \ {p}
    <3>1. ASSUME NEW j \in 1..Len(s) - 1 PROVE t[j] \in ToSet(s) \ {p}
      <4>1. CASE j < i
        BY <4>1, <2>1, <2>3, <2>4, <2>8 DEF ToSet
      <4>2. CASE ~(j < i)
        BY <4>2, <2>1, <2>3, <2>4, <2>8 DEF ToSet
      <4> QED BY <4>1, <4>2
    <3>2. ASSUME NEW k \in 1..Len(s), s[k] # p PROVE \E j \in 1..Len(s) - 1 : t[j] = s[k]
      <4>1. CASE k < i
        BY <4>1, <2>1, <2>3, <2>4
      <4>2. CASE k > i
        <5>1. k - 1 \in 1..Len(s) - 1 /\ t[k - 1] = s[k]
          BY <4>2, <2>1, <2>3, <2>4
        <5> QED BY <5>1
      <4> QED BY <4>1, <4>2, <3>2, <2>1, <2>3
    <3> HIDE DEF t
    <3>3. ToSet(t) \subseteq ToSet(s) \ {p}
      BY <3>1, <2>7 DEF ToSet
    <3>4. ASSUME NEW q \in ToSet(s) \ {p} PROVE q \in ToSet(t)
      <4>1. PICK k \in 1..Len(s) : s[k] = q
        BY <3>4, <2>3 DEF ToSet
      <4>2. PICK j \in 1..Len(s) - 1 : t[j] = s[k]
        BY <4>1, <3>2
      <4> QED BY <4>1, <4>2, <2>7 DEF ToSet
    <3> QED BY <3>3, <3>4
  <2> QED BY <2>2, <2>6, <2>9, <2>10
<1> QED BY <1>1, <1>2

\* A player in front of a list he is not in.
LEMMA FrontAdds ==
  ASSUME NEW s \in Seq(Players), Distinct(s), NEW p \in Players, p \notin ToSet(s)
  PROVE  /\ <<p>> \o s \in Seq(Players)
         /\ Distinct(<<p>> \o s)
         /\ ToSet(<<p>> \o s) = {p} \cup ToSet(s)
<1> DEFINE t == <<p>> \o s
<1>1. t \in Seq(Players) /\ Len(t) = Len(s) + 1 /\ Len(s) \in Nat
  OBVIOUS
<1>2. DOMAIN s = 1..Len(s) /\ DOMAIN t = 1..Len(s) + 1
  BY <1>1
<1>3. t[1] = p /\ \A j \in 1..Len(s) : t[j + 1] = s[j]
  OBVIOUS
<1> HIDE DEF t
<1>4. \A k \in 2..Len(s) + 1 : k - 1 \in 1..Len(s) /\ t[k] = s[k - 1]
  BY <1>1, <1>3
<1>5. \A k \in 1..Len(s) + 1 : k = 1 \/ k \in 2..Len(s) + 1
  BY <1>1
<1>6. Distinct(t)
  <2> SUFFICES ASSUME NEW j \in 1..Len(s) + 1, NEW k \in 1..Len(s) + 1, t[j] = t[k]
               PROVE  j = k
    BY <1>2 DEF Distinct
  <2>1. CASE j = 1 /\ k = 1
    BY <2>1
  <2>2. CASE j = 1 /\ k # 1
    BY <2>2, <1>2, <1>3, <1>4, <1>5 DEF ToSet
  <2>3. CASE j # 1 /\ k = 1
    BY <2>3, <1>2, <1>3, <1>4, <1>5 DEF ToSet
  <2>4. CASE j # 1 /\ k # 1
    <3>1. j - 1 = k - 1
      BY <2>4, <1>2, <1>4, <1>5 DEF Distinct
    <3> QED BY <3>1, <1>1
  <2> QED BY <2>1, <2>2, <2>3, <2>4
<1>7. ToSet(t) = {p} \cup ToSet(s)
  <2>1. ASSUME NEW k \in 1..Len(s) + 1 PROVE t[k] \in {p} \cup ToSet(s)
    BY <1>2, <1>3, <1>4, <1>5 DEF ToSet
  <2>2. p \in ToSet(t)
    BY <1>1, <1>2, <1>3 DEF ToSet
  <2>3. ASSUME NEW j \in 1..Len(s) PROVE s[j] \in ToSet(t)
    <3>1. j + 1 \in 1..Len(s) + 1
      BY <1>1
    <3> QED BY <3>1, <1>2, <1>3 DEF ToSet
  <2> QED BY <2>1, <2>2, <2>3, <1>2 DEF ToSet
<1> QED BY <1>1, <1>6, <1>7 DEF t

\* A player at the end of a list he is not in.
LEMMA AppendAdds ==
  ASSUME NEW s \in Seq(Players), Distinct(s), NEW p \in Players, p \notin ToSet(s)
  PROVE  /\ Append(s, p) \in Seq(Players)
         /\ Distinct(Append(s, p))
         /\ ToSet(Append(s, p)) = ToSet(s) \cup {p}
<1> DEFINE t == Append(s, p)
<1>1. t \in Seq(Players) /\ Len(t) = Len(s) + 1 /\ Len(s) \in Nat
  OBVIOUS
<1>2. DOMAIN s = 1..Len(s) /\ DOMAIN t = 1..Len(s) + 1
  BY <1>1
<1>3. t[Len(s) + 1] = p /\ \A j \in 1..Len(s) : t[j] = s[j]
  OBVIOUS
<1> HIDE DEF t
<1>4. \A k \in 1..Len(s) + 1 : k = Len(s) + 1 \/ k \in 1..Len(s)
  BY <1>1
<1>5. Distinct(t)
  <2> SUFFICES ASSUME NEW j \in 1..Len(s) + 1, NEW k \in 1..Len(s) + 1, t[j] = t[k]
               PROVE  j = k
    BY <1>2 DEF Distinct
  <2>1. \A i \in 1..Len(s) : s[i] # p
    BY <1>2 DEF ToSet
  <2> QED BY <2>1, <1>2, <1>3, <1>4 DEF Distinct
<1>6. ToSet(t) = ToSet(s) \cup {p}
  <2>1. \A k \in 1..Len(s) + 1 : t[k] \in ToSet(s) \cup {p}
    BY <1>2, <1>3, <1>4 DEF ToSet
  <2>2. p \in ToSet(t)
    BY <1>1, <1>2, <1>3 DEF ToSet
  <2>3. ASSUME NEW j \in 1..Len(s) PROVE s[j] \in ToSet(t)
    <3>1. j \in 1..Len(s) + 1
      BY <1>1
    <3> QED BY <3>1, <1>2, <1>3 DEF ToSet
  <2> QED BY <2>1, <2>2, <2>3, <1>2 DEF ToSet
<1> QED BY <1>1, <1>5, <1>6 DEF t

\* The first member of a list.
LEMMA HeadIsMember ==
  ASSUME NEW s \in Seq(Players), s # <<>>
  PROVE  Head(s) \in ToSet(s)
<1>1. 1 \in DOMAIN s /\ Head(s) = s[1]
  OBVIOUS
<1> QED BY <1>1 DEF ToSet

\* A list is empty exactly if nobody is in it.
LEMMA EmptyList ==
  ASSUME NEW s \in Seq(Players)
  PROVE  s = <<>> <=> ToSet(s) = {}
<1>1. CASE s = <<>>
  BY <1>1 DEF ToSet
<1>2. CASE s # <<>>
  BY <1>2, HeadIsMember
<1> QED BY <1>1, <1>2

----------------------------------------------------------------------------
(* One party                                                               *)

Sound(x) ==
  /\ Distinct(x.members)
  /\ x.leader \notin ToSet(x.members)
  /\ x.invites \cap Crew(x) = {}

\* Whether x and y have the same people.
SamePeople(x, y) == Crew(x) = Crew(y) /\ x.invites = y.invites

Tallies ==
  /\ vocation \in [Players -> VocationIds]
  /\ stale \subseteq Addresses

\* Both counts of the vocations of a party are a bonus.
LEMMA BonusIsOne ==
  ASSUME Tallies, NEW x \in Objects
  PROVE  BonusOnJoin(x) \in Bonuses /\ BonusOnLeave(x) \in Bonuses
<1> DEFINE V == {vocation[p] : p \in Crew(x)}
<1>1. x.leader \in Players /\ x.leader \in Crew(x) /\ Crew(x) \subseteq Players
  <2>1. ToSet(x.members) \subseteq Players
    BY DEF Objects, ToSet
  <2> QED BY <2>1 DEF Objects, Crew
<1>2. V \in SUBSET (0..3)
  BY <1>1, PartyAssumption DEF PartyAssumption, Tallies
<1>3. V # {}
  BY <1>1
<1>4. V \in SUBSET Nat /\ \A n \in V : n <= 3
  BY <1>2
<1> HIDE DEF V
<1>5. IsFiniteSet(V) /\ Cardinality(V) <= 3 + 1
  BY <1>4, FS_BoundedSetOfNaturals
<1>6. Cardinality(V) # 0 /\ Cardinality(V) \in Nat
  BY <1>3, <1>5, FS_EmptySet, FS_CardinalityType
<1>7. Vocations(x) \in 1..4
  BY <1>5, <1>6 DEF V, Vocations
<1> QED BY <1>7 DEF BonusOnJoin, BonusOnLeave, Bonuses

\* An update changes only whether the shared experience is enabled.
LEMMA UpdateKeeps ==
  ASSUME NEW x \in Objects, NEW able \in BOOLEAN
  PROVE  /\ Update(x, able) \in Objects
         /\ Update(x, able).leader = x.leader
         /\ Update(x, able).members = x.members
         /\ Update(x, able).invites = x.invites
BY DEF Update, CanEnable, Objects

\* A recount changes only the bonus.
LEMMA RecountKeeps ==
  ASSUME Tallies, NEW x \in Objects
  PROVE  /\ Recount(x) \in Objects
         /\ Recount(x).leader = x.leader
         /\ Recount(x).members = x.members
         /\ Recount(x).invites = x.invites
BY BonusIsOne DEF Recount, Objects

\* Passing the leadership to a member exchanges two places.
LEMMA PassKeeps ==
  ASSUME NEW x \in Objects, Sound(x), NEW q \in ToSet(x.members)
  PROVE  LET y == PassLeadership(x, q)
         IN  /\ y \in Objects
             /\ Sound(y)
             /\ SamePeople(x, y)
             /\ y.leader = q
             /\ y.members # <<>>
             /\ ToSet(y.members) = Crew(x) \ {q}
<1> DEFINE w == Without(x.members, q)
           m == <<x.leader>> \o w
           y == PassLeadership(x, q)
<1>1. /\ x.members \in Seq(Players)
      /\ x.leader \in Players
      /\ Distinct(x.members)
      /\ x.leader \notin ToSet(x.members)
  BY DEF Sound, Objects
<1>2. q \in Players
  BY <1>1 DEF ToSet
<1>3. w \in Seq(Players) /\ Distinct(w) /\ ToSet(w) = ToSet(x.members) \ {q}
  BY <1>1, WithoutErases
<1>4. m \in Seq(Players) /\ Distinct(m) /\ ToSet(m) = {x.leader} \cup ToSet(w)
  BY <1>1, <1>3, FrontAdds
<1>5. m # <<>>
  BY <1>4, EmptyList
<1>6. /\ y \in Objects
      /\ y.leader = q
      /\ y.members = m
      /\ y.invites = x.invites
  BY <1>2, <1>4 DEF PassLeadership, Objects
<1> HIDE DEF m, w, y
<1> QED BY <1>1, <1>3, <1>4, <1>5, <1>6 DEF Sound, SamePeople, Crew, y

\* Without p the party has everybody else; if p cannot be replaced as the
\* leader it is unchanged.
LEMMA LeftKeeps ==
  ASSUME NEW x \in Objects, Sound(x), NEW p \in Crew(x)
  PROVE  LET y == Left(x, p)
         IN  /\ y \in Objects
             /\ Distinct(y.members)
             /\ y.leader \notin ToSet(y.members)
             /\ y.invites = x.invites
             /\ Crew(y) \cup {p} = Crew(x)
             /\ ~MissingLeader(x, p) => p \notin Crew(y)
<1> DEFINE passes == p = x.leader /\ ~MissingLeader(x, p)
           z == IF passes THEN PassLeadership(x, Head(x.members)) ELSE x
           y == [z EXCEPT !.members = Without(@, p), !.invites = @ \ {p}]
<1>1. /\ x.members \in Seq(Players)
      /\ x.leader \in Players
      /\ p \notin x.invites
  BY DEF Sound, Objects
<1>2. /\ z \in Objects
      /\ Sound(z)
      /\ SamePeople(x, z)
  <2>1. CASE passes
    <3>1. Head(x.members) \in ToSet(x.members)
      BY <1>1, <2>1, HeadIsMember DEF MissingLeader
    <3> QED BY <2>1, <3>1, PassKeeps
  <2>2. CASE ~passes
    BY <2>2 DEF SamePeople
  <2> QED BY <2>1, <2>2
<1>3. passes => p # z.leader
  <2> SUFFICES ASSUME passes PROVE p # z.leader
    OBVIOUS
  <2>1. Head(x.members) \in ToSet(x.members)
    BY <1>1, HeadIsMember DEF MissingLeader
  <2>2. z.leader = Head(x.members)
    BY <2>1, PassKeeps
  <2> QED BY <2>1, <2>2 DEF Sound
<1>4. ~passes => z = x
  OBVIOUS
<1>5. z.members \in Seq(Players) /\ Distinct(z.members) /\ z.leader \notin ToSet(z.members)
  BY <1>2 DEF Sound, Objects
<1> DEFINE w == Without(z.members, p)
<1>6. w \in Seq(Players) /\ Distinct(w) /\ ToSet(w) = ToSet(z.members) \ {p}
  BY <1>5, WithoutErases
<1>7. Left(x, p) = y
  BY DEF Left
<1>8. /\ y \in Objects
      /\ y.leader = z.leader
      /\ y.members = w
      /\ y.invites = x.invites
  <2> HIDE DEF z
  <2>1. z.invites \ {p} = x.invites
    BY <1>1, <1>2 DEF SamePeople
  <2> HIDE DEF w
  <2>2. z.invites \ {p} \subseteq Players /\ y = [z EXCEPT !.members = w, !.invites = x.invites]
    BY <1>2, <2>1 DEF Objects, w
  <2> QED BY <1>2, <1>6, <2>1, <2>2 DEF Objects
<1> HIDE DEF y, w, z
<1>9. Crew(y) \cup {p} = Crew(x)
  BY <1>2, <1>6, <1>8 DEF Crew, SamePeople
<1>10. ~MissingLeader(x, p) => p \notin Crew(y)
  BY <1>3, <1>4, <1>6, <1>8 DEF Crew
<1> QED BY <1>5, <1>6, <1>7, <1>8, <1>9, <1>10

----------------------------------------------------------------------------
(* All parties                                                             *)

Groups ==
  [party   : [Addresses -> Objects \cup {NULL}],
   partyOf : [Players -> Addresses \cup {NULL}],
   invited : [Players -> SUBSET Addresses],
   channel : [Addresses -> SUBSET Players]]

Used(x) == x.members # <<>> \/ x.invites # {}

\* Every party is sound and in use, and whom it lists, and no one else, points
\* to it; whoever is in a party, invited or listening is present.
Good(g, present) ==
  /\ g \in Groups
  /\ \A a \in Addresses : g.party[a] # NULL => Sound(g.party[a]) /\ Used(g.party[a])
  /\ \A a \in Addresses, p \in Players :
       g.partyOf[p] = a <=> g.party[a] # NULL /\ p \in Crew(g.party[a])
  /\ \A a \in Addresses, p \in Players :
       a \in g.invited[p] <=> g.party[a] # NULL /\ p \in g.party[a].invites
  /\ \A p \in Players : g.partyOf[p] # NULL \/ g.invited[p] # {} => p \in present
  /\ \A a \in Addresses : g.channel[a] \subseteq present

\* A party may be replaced by one of the same people.
LEMMA ReplaceKeeps ==
  ASSUME NEW g, NEW present, Good(g, present),
         NEW a \in Addresses, g.party[a] # NULL,
         NEW z \in Objects, Sound(z), Used(z), SamePeople(g.party[a], z),
         NEW h \in Groups,
         \A b \in Addresses : h.party[b] = IF b = a THEN z ELSE g.party[b],
         h.partyOf = g.partyOf,
         h.invited = g.invited,
         h.channel = g.channel
  PROVE  Good(h, present)
<1>1. z # NULL
  BY ObjectsAssumption DEF ObjectsAssumption
<1>2. \A b \in Addresses : h.party[b] # NULL => Sound(h.party[b]) /\ Used(h.party[b])
  BY DEF Good
<1>3. \A b \in Addresses :
        /\ h.party[b] = NULL <=> g.party[b] = NULL
        /\ g.party[b] # NULL => SamePeople(g.party[b], h.party[b])
  BY <1>1 DEF SamePeople
<1>4. /\ \A b \in Addresses, q \in Players :
           h.partyOf[q] = b <=> h.party[b] # NULL /\ q \in Crew(h.party[b])
      /\ \A b \in Addresses, q \in Players :
           b \in h.invited[q] <=> h.party[b] # NULL /\ q \in h.party[b].invites
  BY <1>3 DEF Good, SamePeople
<1>5. /\ \A q \in Players : h.partyOf[q] # NULL \/ h.invited[q] # {} => q \in present
      /\ \A b \in Addresses : h.channel[b] \subseteq present
  BY DEF Good
<1> QED BY <1>2, <1>4, <1>5 DEF Good

\* Disbanding the party at a, after p, one of it, has lost the pointer to it.
LEMMA DisbandKeeps ==
  ASSUME NEW g, NEW present, Good(g, present),
         NEW a \in Addresses, g.party[a] # NULL,
         NEW p \in Players, p \in Crew(g.party[a]),
         NEW y, Crew(y) \cup {p} = Crew(g.party[a]), y.invites = g.party[a].invites
  PROVE  LET h == Disband([g EXCEPT !.partyOf[p] = NULL], a, y)
         IN  /\ Good(h, present)
             /\ h.partyOf[p] = NULL
             /\ h.invited[p] = g.invited[p]
<1> DEFINE x == g.party[a]
           f == [g EXCEPT !.partyOf[p] = NULL]
           h == Disband(f, a, y)
<1>1. /\ f \in Groups
      /\ f.party = g.party
      /\ f.invited = g.invited
      /\ f.channel = g.channel
      /\ \A q \in Players : f.partyOf[q] = IF q = p THEN NULL ELSE g.partyOf[q]
  BY DEF Good, Groups
<1> HIDE DEF f
<1>2. h = [party   |-> [f.party EXCEPT ![a] = NULL],
           partyOf |-> [q \in Players |-> IF q \in Crew(y) THEN NULL ELSE f.partyOf[q]],
           invited |-> Uninvited(f, a, y),
           channel |-> [f.channel EXCEPT ![a] = {q \in f.channel[a] : q \notin Crew(y) \/ f.partyOf[q] # a}]]
  BY DEF Disband
<1>3. /\ \A b \in Addresses : h.party[b] = IF b = a THEN NULL ELSE g.party[b]
      /\ \A q \in Players : h.partyOf[q] = IF q \in Crew(x) THEN NULL ELSE g.partyOf[q]
      /\ \A q \in Players : h.invited[q] = IF q \in x.invites THEN g.invited[q] \ {a}
                                           ELSE g.invited[q]
      /\ \A b \in Addresses : h.channel[b] \subseteq g.channel[b]
  BY <1>1, <1>2 DEF Groups, Uninvited
<1>4. h \in Groups
  <2>1. h.party \in [Addresses -> Objects \cup {NULL}]
    BY <1>1, <1>2 DEF Groups
  <2>2. h.partyOf \in [Players -> Addresses \cup {NULL}]
    BY <1>1, <1>2 DEF Groups
  <2>3. h.invited \in [Players -> SUBSET Addresses]
    BY <1>1, <1>2 DEF Groups, Uninvited
  <2>4. h.channel \in [Addresses -> SUBSET Players]
    BY <1>1, <1>2 DEF Groups
  <2> HIDE DEF h
  <2> QED BY <1>2, <2>1, <2>2, <2>3, <2>4 DEF Groups
<1> HIDE DEF h
<1>5. Good(h, present)
  <2>1. \A b \in Addresses : h.party[b] # NULL => b # a /\ h.party[b] = g.party[b]
    BY <1>3
  <2>2. \A b \in Addresses, q \in Players :
          h.partyOf[q] = b <=> h.party[b] # NULL /\ q \in Crew(h.party[b])
    BY <1>3, PartyAssumption DEF Good, PartyAssumption
  <2>3. \A b \in Addresses, q \in Players :
          b \in h.invited[q] <=> h.party[b] # NULL /\ q \in h.party[b].invites
    <3> SUFFICES ASSUME NEW b \in Addresses, NEW q \in Players
                 PROVE  b \in h.invited[q] <=> h.party[b] # NULL /\ q \in h.party[b].invites
      OBVIOUS
    <3>1. b \in g.invited[q] <=> g.party[b] # NULL /\ q \in g.party[b].invites
      BY DEF Good
    <3>2. CASE b = a
      BY <3>1, <3>2, <1>3
    <3>3. CASE b # a
      <4>1. b \in h.invited[q] <=> b \in g.invited[q]
        BY <3>3, <1>3
      <4> QED BY <3>1, <3>3, <4>1, <1>3
    <3> QED BY <3>2, <3>3
  <2>4. \A q \in Players : h.partyOf[q] # NULL \/ h.invited[q] # {} => q \in present
    <3>1. \A q \in Players : h.invited[q] \subseteq g.invited[q]
      BY <1>3
    <3>2. \A q \in Players : h.invited[q] # {} => g.invited[q] # {}
      BY <3>1
    <3>3. \A q \in Players : h.partyOf[q] # NULL => g.partyOf[q] # NULL
      BY <1>3
    <3> HIDE DEF x
    <3> QED BY <3>2, <3>3 DEF Good
  <2>5. \A b \in Addresses : h.channel[b] \subseteq present
    BY <1>3 DEF Good
  <2> QED BY <1>4, <2>1, <2>2, <2>3, <2>4, <2>5 DEF Good
<1>6. p \notin x.invites
  BY DEF Good, Sound
<1> QED BY <1>3, <1>5, <1>6 DEF h, f

\* Taking p out of the party at a, which then consists of everybody else.
LEMMA TakeOutKeeps ==
  ASSUME NEW g, NEW present, Good(g, present),
         NEW a \in Addresses, g.party[a] # NULL,
         NEW p \in Players, p \in Crew(g.party[a]),
         NEW z \in Objects, Sound(z), Used(z),
         Crew(z) = Crew(g.party[a]) \ {p}, z.invites = g.party[a].invites,
         NEW h \in Groups,
         \A b \in Addresses : h.party[b] = IF b = a THEN z ELSE g.party[b],
         \A q \in Players : h.partyOf[q] = IF q = p THEN NULL ELSE g.partyOf[q],
         h.invited = g.invited,
         h.channel = g.channel
  PROVE  Good(h, present)
<1>1. z # NULL
  BY ObjectsAssumption DEF ObjectsAssumption
<1>2. \A b \in Addresses : h.party[b] # NULL => Sound(h.party[b]) /\ Used(h.party[b])
  BY DEF Good
<1>3. \A b \in Addresses, q \in Players :
        h.partyOf[q] = b <=> h.party[b] # NULL /\ q \in Crew(h.party[b])
  <2> SUFFICES ASSUME NEW b \in Addresses, NEW q \in Players
               PROVE  h.partyOf[q] = b <=> h.party[b] # NULL /\ q \in Crew(h.party[b])
    OBVIOUS
  <2>1. g.partyOf[q] = b <=> g.party[b] # NULL /\ q \in Crew(g.party[b])
    BY DEF Good
  <2>2. g.partyOf[p] = a /\ b # NULL
    BY PartyAssumption DEF Good, PartyAssumption
  <2>3. CASE q = p
    BY <2>1, <2>2, <2>3
  <2>4. CASE q # p
    BY <2>1, <2>4, <1>1
  <2> QED BY <2>3, <2>4
<1>4. \A b \in Addresses, q \in Players :
        b \in h.invited[q] <=> h.party[b] # NULL /\ q \in h.party[b].invites
  BY <1>1 DEF Good
<1>5. \A q \in Players : h.partyOf[q] # NULL \/ h.invited[q] # {} => q \in present
  <2>1. \A q \in Players : h.partyOf[q] # NULL => g.partyOf[q] # NULL
    OBVIOUS
  <2> QED BY <2>1 DEF Good
<1>6. \A b \in Addresses : h.channel[b] \subseteq present
  BY DEF Good
<1> QED BY <1>2, <1>3, <1>4, <1>5, <1>6 DEF Good

\* leave keeps the parties well formed, and p is in none after it.
LEMMA LeaveKeeps ==
  ASSUME Tallies, NEW g, NEW present, Good(g, present),
         NEW p \in Players, g.partyOf[p] # NULL, NEW able \in BOOLEAN
  PROVE  LET h == Leave(g, p, able)
         IN  /\ Good(h, present)
             /\ h.partyOf[p] = NULL
             /\ h.invited[p] = g.invited[p]
<1> DEFINE a == g.partyOf[p]
           x == g.party[a]
           y == Update(Left(x, p), able)
           f == [g EXCEPT !.partyOf[p] = NULL]
<1>1. a \in Addresses /\ x \in Objects /\ x # NULL /\ Sound(x) /\ p \in Crew(x)
  BY DEF Good, Groups
<1> HIDE DEF a
<1>2. /\ Left(x, p) \in Objects
      /\ Distinct(Left(x, p).members)
      /\ Left(x, p).leader \notin ToSet(Left(x, p).members)
      /\ Left(x, p).invites = x.invites
      /\ Crew(Left(x, p)) \cup {p} = Crew(x)
      /\ ~MissingLeader(x, p) => p \notin Crew(Left(x, p))
  BY <1>1, LeftKeeps
<1>3. /\ y \in Objects
      /\ y.leader = Left(x, p).leader
      /\ y.members = Left(x, p).members
      /\ y.invites = Left(x, p).invites
  BY <1>2, UpdateKeeps
<1> HIDE DEF y
<1>4. Crew(y) = Crew(Left(x, p))
  BY <1>3 DEF Crew
<1>5. Leave(g, p, able) = IF MissingLeader(x, p) \/ CanDisband(y)
                          THEN Disband(f, a, y)
                          ELSE [f EXCEPT !.party[a] = Recount(y)]
  BY DEF Leave, a, y
<1>6. CASE MissingLeader(x, p) \/ CanDisband(y)
  <2>1. y.invites = x.invites /\ Crew(y) \cup {p} = Crew(x)
    BY <1>2, <1>3, <1>4
  <2> HIDE DEF f
  <2>2. Leave(g, p, able) = Disband(f, a, y)
    BY <1>5, <1>6
  <2> USE DEF f
  <2> QED BY <1>1, <2>1, <2>2, DisbandKeeps
<1>7. CASE ~(MissingLeader(x, p) \/ CanDisband(y))
  <2> DEFINE z == Recount(y)
  <2>1. /\ z \in Objects
        /\ z.leader = y.leader
        /\ z.members = y.members
        /\ z.invites = y.invites
    BY <1>3, RecountKeeps
  <2> HIDE DEF z
  <2>2. Crew(z) = Crew(x) \ {p} /\ z.invites = x.invites
    BY <2>1, <1>2, <1>4, <1>3, <1>7 DEF Crew
  <2>3. Sound(z)
    BY <2>1, <2>2, <1>1, <1>2, <1>3 DEF Sound
  <2>4. Used(z)
    BY <2>1, <1>7 DEF Used, CanDisband
  <2>5. Leave(g, p, able) = [f EXCEPT !.party[a] = z]
    BY <1>5, <1>7 DEF z
  <2> DEFINE h == [f EXCEPT !.party[a] = z]
  <2>6. /\ f \in Groups
        /\ f.party = g.party
        /\ f.invited = g.invited
        /\ f.channel = g.channel
        /\ \A q \in Players : f.partyOf[q] = IF q = p THEN NULL ELSE g.partyOf[q]
    BY DEF Good, Groups
  <2> HIDE DEF f
  <2>7. /\ h \in Groups
        /\ h.invited = g.invited
        /\ h.channel = g.channel
        /\ h.partyOf = f.partyOf
        /\ \A b \in Addresses : h.party[b] = IF b = a THEN z ELSE g.party[b]
    BY <1>1, <2>1, <2>6 DEF Groups
  <2>8. Leave(g, p, able) = h
    BY <2>5
  <2> HIDE DEF h
  <2>9. Good(h, present)
    BY <1>1, <2>1, <2>2, <2>3, <2>4, <2>6, <2>7, TakeOutKeeps
  <2> QED BY <2>6, <2>7, <2>8, <2>9
<1> QED BY <1>6, <1>7

\* Removing p from the lists of invitations of the parties A keeps the parties
\* well formed, though it disbands those that are left with a leader only.
LEMMA RemoveInvitesKeeps ==
  ASSUME NEW g, NEW present, Good(g, present),
         NEW p \in Players, NEW A \in SUBSET g.invited[p]
  PROVE  LET h == RemoveInvites(g, p, A)
         IN  /\ Good(h, present)
             /\ h.invited[p] = g.invited[p] \ A
<1> DEFINE without(a) == [g.party[a] EXCEPT !.invites = @ \ {p}]
           dead       == {a \in A : CanDisband(without(a))}
           leaders    == {g.party[a].leader : a \in dead}
           h          == RemoveInvites(g, p, A)
<1>1. /\ g \in Groups
      /\ A \subseteq Addresses
  BY DEF Good, Groups
<1>2. \A a \in A : /\ g.party[a] # NULL
                   /\ g.party[a] \in Objects
                   /\ p \in g.party[a].invites
                   /\ Sound(g.party[a])
  BY <1>1 DEF Good, Groups
<1>3. \A a \in A : /\ without(a) \in Objects
                   /\ without(a).leader = g.party[a].leader
                   /\ without(a).members = g.party[a].members
                   /\ without(a).invites = g.party[a].invites \ {p}
  BY <1>2 DEF Objects
<1>4. h = [party   |-> [a \in Addresses |-> IF a \in dead THEN NULL
                                           ELSE IF a \in A THEN without(a) ELSE g.party[a]],
           partyOf |-> [q \in Players |-> IF q \in leaders THEN NULL ELSE g.partyOf[q]],
           invited |-> [g.invited EXCEPT ![p] = @ \ A],
           channel |-> [a \in Addresses |-> IF a \in dead
                                           THEN g.channel[a] \ {g.party[a].leader}
                                           ELSE g.channel[a]]]
  BY DEF RemoveInvites
<1> HIDE DEF without, h
<1>5. \A a \in dead : /\ a \in A
                      /\ Crew(g.party[a]) = {g.party[a].leader}
                      /\ g.party[a].invites = {p}
  <2> SUFFICES ASSUME NEW a \in dead
               PROVE  /\ Crew(g.party[a]) = {g.party[a].leader}
                      /\ g.party[a].invites = {p}
    OBVIOUS
  <2>1. g.party[a].members = <<>> /\ g.party[a].invites \ {p} = {}
    BY <1>3 DEF CanDisband
  <2>2. ToSet(g.party[a].members) = {}
    BY <2>1, <1>2, EmptyList DEF Objects
  <2> QED BY <2>1, <2>2, <1>2 DEF Crew
<1>6. \A q \in Players, b \in Addresses :
        (IF q \in leaders THEN NULL ELSE g.partyOf[q]) = b <=> g.partyOf[q] = b /\ b \notin dead
  <2> SUFFICES ASSUME NEW q \in Players, NEW b \in Addresses
               PROVE  (IF q \in leaders THEN NULL ELSE g.partyOf[q]) = b
                        <=> g.partyOf[q] = b /\ b \notin dead
    OBVIOUS
  <2>1. b # NULL
    BY PartyAssumption DEF PartyAssumption
  <2>2. \A a \in dead : a \in Addresses /\ (g.partyOf[q] = a <=> q = g.party[a].leader)
    BY <1>1, <1>2, <1>5 DEF Good
  <2>3. CASE q \in leaders
    <3>1. g.partyOf[q] \in dead
      BY <2>2, <2>3
    <3> QED BY <2>1, <2>3, <3>1
  <2>4. CASE q \notin leaders
    <3>1. g.partyOf[q] \notin dead
      BY <2>2, <2>4
    <3> QED BY <2>4, <3>1
  <2> QED BY <2>3, <2>4
<1>7. \A a \in dead : a \in A
  OBVIOUS
<1> HIDE DEF leaders, dead
<1>8. /\ \A b \in Addresses : h.party[b] = IF b \in dead THEN NULL
                                           ELSE IF b \in A THEN without(b) ELSE g.party[b]
      /\ \A q \in Players : h.partyOf[q] = IF q \in leaders THEN NULL ELSE g.partyOf[q]
      /\ \A q \in Players : h.invited[q] = IF q = p THEN g.invited[q] \ A ELSE g.invited[q]
      /\ \A b \in Addresses : h.channel[b] \subseteq g.channel[b]
  <2>1. \A b \in Addresses : h.party[b] = IF b \in dead THEN NULL
                                          ELSE IF b \in A THEN without(b) ELSE g.party[b]
    BY <1>4, Zenon
  <2>2. \A q \in Players : h.partyOf[q] = IF q \in leaders THEN NULL ELSE g.partyOf[q]
    BY <1>4
  <2>3. \A q \in Players : h.invited[q] = IF q = p THEN g.invited[q] \ A ELSE g.invited[q]
    BY <1>1, <1>4 DEF Groups
  <2>4. \A b \in Addresses : h.channel[b] \subseteq g.channel[b]
    BY <1>4
  <2> QED BY <2>1, <2>2, <2>3, <2>4
<1>9. h \in Groups
  BY <1>1, <1>3, <1>4 DEF Groups
<1>10. \A b \in Addresses :
         /\ h.party[b] # NULL <=> g.party[b] # NULL /\ b \notin dead
         /\ h.party[b] # NULL => /\ h.party[b].leader = g.party[b].leader
                                 /\ h.party[b].members = g.party[b].members
                                 /\ h.party[b].invites = IF b \in A THEN g.party[b].invites \ {p}
                                                         ELSE g.party[b].invites
  BY <1>2, <1>3, <1>8, ObjectsAssumption, ZenonT(60) DEF ObjectsAssumption
<1>11. \A b \in Addresses : h.party[b] # NULL => Crew(h.party[b]) = Crew(g.party[b])
  BY <1>10 DEF Crew
<1>12. \A b \in Addresses : h.party[b] # NULL => Sound(h.party[b]) /\ Used(h.party[b])
  <2> SUFFICES ASSUME NEW b \in Addresses, h.party[b] # NULL
               PROVE  Sound(h.party[b]) /\ Used(h.party[b])
    OBVIOUS
  <2>1. Sound(g.party[b]) /\ Used(g.party[b])
    BY <1>10 DEF Good
  <2>2. Sound(h.party[b])
    BY <2>1, <1>10, <1>11 DEF Sound
  <2>3. CASE b \in A
    <3>1. b \notin dead /\ h.party[b] = without(b)
      BY <2>3, <1>8
    <3>2. ~CanDisband(without(b))
      BY <2>3, <3>1 DEF dead
    <3>3. Used(without(b))
      BY <3>2 DEF Used, CanDisband
    <3> QED BY <2>2, <3>1, <3>3
  <2>4. CASE b \notin A
    <3>1. h.party[b] = g.party[b]
      BY <2>4, <1>7, <1>8
    <3> QED BY <2>1, <3>1
  <2> QED BY <2>2, <2>3, <2>4
<1>13. \A b \in Addresses, q \in Players :
         h.partyOf[q] = b <=> h.party[b] # NULL /\ q \in Crew(h.party[b])
  <2> SUFFICES ASSUME NEW b \in Addresses, NEW q \in Players
               PROVE  h.partyOf[q] = b <=> h.party[b] # NULL /\ q \in Crew(h.party[b])
    OBVIOUS
  <2>1. g.partyOf[q] = b <=> g.party[b] # NULL /\ q \in Crew(g.party[b])
    BY DEF Good
  <2>2. h.partyOf[q] = b <=> g.partyOf[q] = b /\ b \notin dead
    BY <1>6, <1>8
  <2> QED BY <2>1, <2>2, <1>10, <1>11
<1>14. \A b \in Addresses, q \in Players :
         b \in h.invited[q] <=> h.party[b] # NULL /\ q \in h.party[b].invites
  <2> SUFFICES ASSUME NEW b \in Addresses, NEW q \in Players
               PROVE  b \in h.invited[q] <=> h.party[b] # NULL /\ q \in h.party[b].invites
    OBVIOUS
  <2>1. b \in g.invited[q] <=> g.party[b] # NULL /\ q \in g.party[b].invites
    BY DEF Good
  <2>2. CASE b \in dead
    BY <2>1, <2>2, <1>5, <1>8, ZenonT(60)
  <2>3. CASE b \notin dead /\ b \in A
    <3>1. h.party[b] # NULL /\ h.party[b].invites = g.party[b].invites \ {p}
      BY <2>3, <1>2, <1>10
    <3>2. b \in h.invited[q] <=> b \in g.invited[q] /\ q # p
      BY <2>3, <1>8
    <3> QED BY <2>1, <2>3, <3>1, <3>2, <1>2
  <2>4. CASE b \notin dead /\ b \notin A
    BY <2>1, <2>4, <1>8, <1>10
  <2> QED BY <2>2, <2>3, <2>4
<1>15. \A q \in Players : h.partyOf[q] # NULL \/ h.invited[q] # {} => q \in present
  <2>1. \A q \in Players : h.partyOf[q] # NULL => g.partyOf[q] # NULL
    BY <1>8
  <2>2. \A q \in Players : h.invited[q] # {} => g.invited[q] # {}
    BY <1>8
  <2> QED BY <2>1, <2>2 DEF Good
<1>16. \A b \in Addresses : h.channel[b] \subseteq present
  BY <1>8 DEF Good
<1> QED BY <1>8, <1>9, <1>12, <1>13, <1>14, <1>15, <1>16 DEF Good, h

----------------------------------------------------------------------------
(* The tasks                                                               *)

Listed == online \subseteq Players /\ Good(Current, online)

IInv == Tallies /\ Listed

\* What Good says of the parties, said of the variables.
LEMMA CurrentGroups ==
  /\ Current.party = party
  /\ Current.partyOf = partyOf
  /\ Current.invited = invited
  /\ Current.channel = channel
  /\ Current \in Groups <=> /\ party \in [Addresses -> Objects \cup {NULL}]
                            /\ partyOf \in [Players -> Addresses \cup {NULL}]
                            /\ invited \in [Players -> SUBSET Addresses]
                            /\ channel \in [Addresses -> SUBSET Players]
BY DEF Current, Groups

\* A task that makes the parties those of a well-formed g.
LEMMA BecomeKeeps ==
  ASSUME NEW g, NEW present, Good(g, present), Become(g)
  PROVE  Good(Current, present)'
<1>1. g = [party |-> g.party, partyOf |-> g.partyOf,
           invited |-> g.invited, channel |-> g.channel]
  BY DEF Good, Groups
<1>2. Current' = g
  BY <1>1 DEF Become, Current
<1> QED BY <1>2

\* At the start there are no parties.
LEMMA InvInit == Init => IInv
<1> SUFFICES ASSUME Init PROVE IInv
  OBVIOUS
<1>1. Current \in Groups
  BY CurrentGroups DEF Init
<1>2. \A a \in Addresses : a # NULL
  BY PartyAssumption DEF PartyAssumption
<1> QED BY <1>1, <1>2, CurrentGroups DEF Init, IInv, Tallies, Listed, Good

\* The invariant implies the properties the runs check.
LEMMA InvImplies ==
  IInv => TypeOK /\ MembershipAgrees /\ InvitationsAgree /\ PartyIsUsed /\ ListenersAreOnline
<1> SUFFICES ASSUME IInv
             PROVE  TypeOK /\ MembershipAgrees /\ InvitationsAgree /\ PartyIsUsed /\ ListenersAreOnline
  OBVIOUS
<1>1. TypeOK
  BY CurrentGroups DEF IInv, Tallies, Listed, Good, TypeOK
<1>2. \A a \in Addresses, p \in Players :
        partyOf[p] = a <=> party[a] # NULL /\ p \in Crew(party[a])
  BY CurrentGroups DEF IInv, Listed, Good
<1>3. \A a \in Addresses, p \in Players :
        a \in invited[p] <=> party[a] # NULL /\ p \in party[a].invites
  BY CurrentGroups DEF IInv, Listed, Good
<1>4. \A a \in Addresses : party[a] # NULL =>
        /\ Sound(party[a])
        /\ Used(party[a])
        /\ party[a] \in Objects
        /\ Crew(party[a]) \subseteq Players
        /\ party[a].invites \subseteq Players
  <2>1. \A a \in Addresses : party[a] # NULL =>
          Sound(party[a]) /\ Used(party[a]) /\ party[a] \in Objects
    BY <1>1, CurrentGroups DEF IInv, Listed, Good, TypeOK
  <2>2. \A x \in Objects : ToSet(x.members) \subseteq Players
    BY DEF Objects, ToSet
  <2> QED BY <2>1, <2>2 DEF Objects, Crew
<1>5. /\ \A p \in Players : partyOf[p] # NULL \/ invited[p] # {} => p \in online
      /\ \A a \in Addresses : channel[a] \subseteq online
  BY CurrentGroups DEF IInv, Listed, Good
<1>6. MembershipAgrees
  BY <1>1, <1>2, <1>4, <1>5 DEF MembershipAgrees, Sound, TypeOK
<1>7. InvitationsAgree
  <2>1. ASSUME NEW a \in Addresses, party[a] # NULL, NEW p \in party[a].invites
        PROVE  p \in online \ Crew(party[a])
    <3>1. p \in Players /\ invited[p] # {}
      BY <2>1, <1>3, <1>4
    <3> QED BY <2>1, <3>1, <1>4, <1>5 DEF Sound
  <2> QED BY <2>1, <1>3 DEF InvitationsAgree
<1>8. PartyIsUsed /\ ListenersAreOnline
  BY <1>4, <1>5 DEF PartyIsUsed, ListenersAreOnline, Used
<1> QED BY <1>1, <1>6, <1>7, <1>8

\* A task that changes one party to one of the same people.
LEMMA UpdatedPartyKeeps ==
  ASSUME IInv, NEW a \in Addresses, party[a] # NULL,
         NEW z \in Objects, Sound(z), Used(z), SamePeople(party[a], z),
         party' = [party EXCEPT ![a] = z],
         UNCHANGED <<online, partyOf, invited, channel>>
  PROVE  Listed'
<1>1. Current \in Groups /\ Good(Current, online)
  BY DEF IInv, Listed, Good
<1>2. /\ Current'.party = party'
      /\ Current'.partyOf = partyOf'
      /\ Current'.invited = invited'
      /\ Current'.channel = channel'
  BY DEF Current
<1>3. Current' \in Groups
  BY <1>1, CurrentGroups DEF Groups, Current
<1>4. \A b \in Addresses : Current'.party[b] = IF b = a THEN z ELSE Current.party[b]
  BY <1>1, <1>2, CurrentGroups
<1>5. /\ Current'.partyOf = Current.partyOf
      /\ Current'.invited = Current.invited
      /\ Current'.channel = Current.channel
      /\ Current.party = party
  BY DEF Current
<1> HIDE DEF Current
<1>6. Good(Current', online)
  BY <1>1, <1>3, <1>4, <1>5, ReplaceKeeps
<1> QED BY <1>6 DEF IInv, Listed

\* A task that changes the party at a, and the pointers to it.
LEMMA ChangedPartyKeeps ==
  ASSUME IInv, NEW a \in Addresses,
         NEW z \in Objects, Sound(z), Used(z),
         party' = [party EXCEPT ![a] = z],
         partyOf' \in [Players -> Addresses \cup {NULL}],
         invited' \in [Players -> SUBSET Addresses],
         \A q \in Players : partyOf'[q] = a <=> q \in Crew(z),
         \A q \in Players : a \in invited'[q] <=> q \in z.invites,
         \A q \in Players, b \in Addresses \ {a} :
           /\ partyOf'[q] = b <=> partyOf[q] = b
           /\ b \in invited'[q] <=> b \in invited[q],
         \A q \in Players : partyOf'[q] # NULL \/ invited'[q] # {} => q \in online,
         UNCHANGED <<online, channel>>
  PROVE  Listed'
<1>1. TypeOK
  BY InvImplies
<1>2. /\ Current'.party = party'
      /\ Current'.partyOf = partyOf'
      /\ Current'.invited = invited'
      /\ Current'.channel = channel
  BY DEF Current
<1>3. Current' \in Groups
  BY <1>1 DEF Groups, Current, TypeOK
<1>4. \A b \in Addresses : Current'.party[b] = IF b = a THEN z ELSE party[b]
  BY <1>1, <1>2 DEF TypeOK
<1>5. z # NULL
  BY ObjectsAssumption DEF ObjectsAssumption
<1>6. /\ \A b \in Addresses : party[b] # NULL => Sound(party[b]) /\ Used(party[b])
      /\ \A b \in Addresses, q \in Players :
           partyOf[q] = b <=> party[b] # NULL /\ q \in Crew(party[b])
      /\ \A b \in Addresses, q \in Players :
           b \in invited[q] <=> party[b] # NULL /\ q \in party[b].invites
      /\ \A b \in Addresses : channel[b] \subseteq online
  BY CurrentGroups DEF IInv, Listed, Good
<1> DEFINE h == Current'
<1> HIDE DEF h
<1>7. \A b \in Addresses : h.party[b] # NULL => Sound(h.party[b]) /\ Used(h.party[b])
  BY <1>4, <1>6 DEF h
<1>8. \A b \in Addresses, q \in Players :
        h.partyOf[q] = b <=> h.party[b] # NULL /\ q \in Crew(h.party[b])
  BY <1>2, <1>4, <1>5, <1>6 DEF h
<1>9. \A b \in Addresses, q \in Players :
        b \in h.invited[q] <=> h.party[b] # NULL /\ q \in h.party[b].invites
  BY <1>2, <1>4, <1>5, <1>6 DEF h
<1>10. Good(h, online)
  BY <1>2, <1>3, <1>6, <1>7, <1>8, <1>9 DEF Good, h
<1> QED BY <1>10 DEF IInv, Listed, h

\* An invitation, to a party that exists or to one that is created for it.
LEMMA InviteKeeps ==
  ASSUME IInv, NEW p \in Players, NEW q \in Players, Invite(p, q)
  PROVE  Listed'
<1>1. TypeOK /\ MembershipAgrees /\ InvitationsAgree
  BY InvImplies
<1>2. /\ p # q /\ p \in online /\ q \in online
      /\ partyOf[q] = NULL
      /\ online' = online /\ channel' = channel
  BY DEF Invite
<1>3. CASE Leads(p)
  <2> DEFINE a == partyOf[p]
             x == party[a]
             z == [x EXCEPT !.invites = @ \cup {q}]
  <2>1. a \in Addresses /\ x # NULL /\ x \in Objects /\ Sound(x) /\ Used(x)
    BY <1>1, <1>3, CurrentGroups DEF TypeOK, MembershipAgrees, Leads, IInv, Listed, Good
  <2>2. /\ party' = [party EXCEPT ![a] = z]
        /\ partyOf' = partyOf
        /\ invited' = [invited EXCEPT ![q] = @ \cup {a}]
    BY <1>3 DEF Invite, Leads
  <2> HIDE DEF a
  <2>3. /\ z \in Objects
        /\ z.leader = x.leader
        /\ z.members = x.members
        /\ z.invites = x.invites \cup {q}
    BY <2>1 DEF Objects
  <2> HIDE DEF z
  <2>4. Crew(z) = Crew(x)
    BY <2>3 DEF Crew
  <2>5. q \notin Crew(x)
    BY <1>2, <2>1, PartyAssumption DEF PartyAssumption, IInv, Listed, Good, Current
  <2>6. Sound(z) /\ Used(z)
    BY <2>1, <2>3, <2>4, <2>5 DEF Sound, Used
  <2>7. /\ partyOf' \in [Players -> Addresses \cup {NULL}]
        /\ invited' \in [Players -> SUBSET Addresses]
        /\ \A r \in Players : invited'[r] = IF r = q THEN invited[r] \cup {a} ELSE invited[r]
    BY <1>1, <2>1, <2>2 DEF TypeOK
  <2>8. /\ \A r \in Players : partyOf[r] = a <=> r \in Crew(x)
        /\ \A r \in Players : a \in invited[r] <=> r \in x.invites
        /\ \A r \in Players : partyOf[r] # NULL \/ invited[r] # {} => r \in online
    BY <2>1, CurrentGroups DEF IInv, Listed, Good
  <2>9. /\ \A r \in Players : partyOf'[r] = a <=> r \in Crew(z)
        /\ \A r \in Players : a \in invited'[r] <=> r \in z.invites
        /\ \A r \in Players, b \in Addresses \ {a} :
             /\ partyOf'[r] = b <=> partyOf[r] = b
             /\ b \in invited'[r] <=> b \in invited[r]
    BY <2>2, <2>3, <2>4, <2>7, <2>8
  <2>10. \A r \in Players : partyOf'[r] # NULL \/ invited'[r] # {} => r \in online
    BY <1>2, <2>2, <2>7, <2>8
  <2> QED BY <1>2, <2>1, <2>2, <2>3, <2>6, <2>7, <2>9, <2>10, ChangedPartyKeeps
<1>4. CASE ~Leads(p)
  <2>1. partyOf[p] = NULL
    BY <1>4 DEF Invite
  <2>2. PICK a \in Addresses :
          /\ party[a] = NULL
          /\ party' = [party EXCEPT ![a] = [NewParty(p) EXCEPT !.invites = {q}]]
          /\ partyOf' = [partyOf EXCEPT ![p] = a]
          /\ invited' = [invited EXCEPT ![q] = @ \cup {a}]
    BY <1>4 DEF Invite
  <2> DEFINE z == [NewParty(p) EXCEPT !.invites = {q}]
  <2>3. /\ z \in Objects
        /\ z.leader = p
        /\ z.members = <<>>
        /\ z.invites = {q}
    <3> DEFINE n == NewParty(p)
    <3>1. /\ n \in Objects
          /\ n.leader = p
          /\ n.members = <<>>
      <4>1. <<>> \in Seq(Players) /\ {} \subseteq Players /\ 100 \in Bonuses
        BY DEF Bonuses
      <4> QED BY <4>1 DEF NewParty, Objects
    <3> HIDE DEF n
    <3>2. z = [n EXCEPT !.invites = {q}]
      BY DEF n
    <3> HIDE DEF z
    <3> QED BY <3>1, <3>2 DEF Objects
  <2>4. party' = [party EXCEPT ![a] = z]
    BY <2>2
  <2> HIDE DEF z
  <2>5. ToSet(z.members) = {} /\ Distinct(z.members) /\ Crew(z) = {p}
    BY <2>3 DEF ToSet, Distinct, Crew
  <2>6. Sound(z) /\ Used(z)
    BY <1>2, <2>3, <2>5 DEF Sound, Used
  <2>7. /\ partyOf' \in [Players -> Addresses \cup {NULL}]
        /\ invited' \in [Players -> SUBSET Addresses]
        /\ \A r \in Players : invited'[r] = IF r = q THEN invited[r] \cup {a} ELSE invited[r]
        /\ \A r \in Players : partyOf'[r] = IF r = p THEN a ELSE partyOf[r]
    BY <1>1, <2>2 DEF TypeOK
  <2>8. /\ \A r \in Players : partyOf[r] # a
        /\ \A r \in Players : a \notin invited[r]
        /\ \A r \in Players : partyOf[r] # NULL \/ invited[r] # {} => r \in online
    BY <2>2, CurrentGroups DEF IInv, Listed, Good
  <2>9. /\ \A r \in Players : partyOf'[r] = a <=> r \in Crew(z)
        /\ \A r \in Players : a \in invited'[r] <=> r \in z.invites
        /\ \A r \in Players, b \in Addresses \ {a} :
             /\ partyOf'[r] = b <=> partyOf[r] = b
             /\ b \in invited'[r] <=> b \in invited[r]
    BY <2>1, <2>3, <2>5, <2>7, <2>8, PartyAssumption DEF PartyAssumption
  <2>10. \A r \in Players : partyOf'[r] # NULL \/ invited'[r] # {} => r \in online
    BY <1>2, <2>7, <2>8
  <2> QED BY <1>2, <2>3, <2>4, <2>6, <2>7, <2>9, <2>10, ChangedPartyKeeps, ZenonT(60)
<1> QED BY <1>3, <1>4

\* An invited player becomes a member.
LEMMA JoinKeeps ==
  ASSUME IInv, NEW p \in Players, NEW a \in Addresses, NEW able \in BOOLEAN, Join(p, a, able)
  PROVE  Listed'
<1> DEFINE x == party[a]
           y == [x EXCEPT !.members = Append(@, p), !.invites = @ \ {p}]
           w == [y EXCEPT !.bonus = BonusOnJoin(y)]
           z == Update(w, able)
<1>1. TypeOK
  BY InvImplies
<1>2. /\ p \in online /\ x # NULL /\ p \in x.invites /\ partyOf[p] = NULL
      /\ partyOf' = [partyOf EXCEPT ![p] = a]
      /\ invited' = [invited EXCEPT ![p] = @ \ {a}]
      /\ online' = online /\ channel' = channel
  BY DEF Join
<1>3. party' = [party EXCEPT ![a] = z]
  BY DEF Join
<1>4. x \in Objects /\ Sound(x)
  BY <1>1, <1>2, CurrentGroups DEF TypeOK, IInv, Listed, Good
<1> DEFINE m == Append(x.members, p)
<1>5. m \in Seq(Players) /\ Distinct(m) /\ ToSet(m) = ToSet(x.members) \cup {p}
  <2>1. x.members \in Seq(Players) /\ Distinct(x.members) /\ p \notin ToSet(x.members)
    BY <1>2, <1>4 DEF Objects, Sound, Crew
  <2> QED BY <2>1, AppendAdds
<1>6. m # <<>>
  BY <1>5, EmptyList
<1>7. /\ y \in Objects
      /\ y.leader = x.leader
      /\ y.members = m
      /\ y.invites = x.invites \ {p}
  BY <1>4, <1>5 DEF Objects
<1> HIDE DEF m, y
<1>8. /\ w \in Objects
      /\ w.leader = y.leader
      /\ w.members = y.members
      /\ w.invites = y.invites
  BY <1>7, BonusIsOne DEF Objects, IInv
<1> HIDE DEF w
<1>9. /\ z \in Objects
      /\ z.leader = x.leader
      /\ z.members = m
      /\ z.invites = x.invites \ {p}
  BY <1>7, <1>8, UpdateKeeps
<1> HIDE DEF z
<1>10. Crew(z) = Crew(x) \cup {p}
  BY <1>5, <1>9 DEF Crew
<1>11. Sound(z) /\ Used(z)
  <2>1. p # x.leader /\ p \notin ToSet(x.members)
    BY <1>2, <1>4 DEF Sound, Crew
  <2> QED BY <2>1, <1>4, <1>5, <1>6, <1>9, <1>10 DEF Sound, Used
<1>12. /\ partyOf' \in [Players -> Addresses \cup {NULL}]
       /\ invited' \in [Players -> SUBSET Addresses]
       /\ \A r \in Players : invited'[r] = IF r = p THEN invited[r] \ {a} ELSE invited[r]
       /\ \A r \in Players : partyOf'[r] = IF r = p THEN a ELSE partyOf[r]
  BY <1>1, <1>2 DEF TypeOK
<1>13. /\ \A r \in Players : partyOf[r] = a <=> r \in Crew(x)
       /\ \A r \in Players : a \in invited[r] <=> r \in x.invites
       /\ \A r \in Players : partyOf[r] # NULL \/ invited[r] # {} => r \in online
  BY <1>2, CurrentGroups DEF IInv, Listed, Good
<1>14. /\ \A r \in Players : partyOf'[r] = a <=> r \in Crew(z)
       /\ \A r \in Players : a \in invited'[r] <=> r \in z.invites
       /\ \A r \in Players, b \in Addresses \ {a} :
            /\ partyOf'[r] = b <=> partyOf[r] = b
            /\ b \in invited'[r] <=> b \in invited[r]
  BY <1>2, <1>9, <1>10, <1>12, <1>13, PartyAssumption DEF PartyAssumption
<1>15. \A r \in Players : partyOf'[r] # NULL \/ invited'[r] # {} => r \in online
  BY <1>2, <1>12, <1>13
<1> QED BY <1>2, <1>3, <1>9, <1>11, <1>12, <1>14, <1>15, ChangedPartyKeeps

\* The tasks that do not change who is in a party.
LEMMA SharingKeeps ==
  ASSUME IInv, NEW p \in Players, NEW q \in Players, NEW active \in BOOLEAN, NEW able \in BOOLEAN,
         Pass(p, q, able) \/ Share(p, active, able) \/ GainPoints(p, able)
  PROVE  Listed'
<1> DEFINE a == partyOf[p]
           x == party[a]
<1>1. TypeOK
  BY InvImplies
<1>2. /\ partyOf[p] # NULL
      /\ online' = online /\ partyOf' = partyOf /\ invited' = invited /\ channel' = channel
  BY DEF Pass, Share, GainPoints, Leads
<1>3. a \in Addresses /\ x \in Objects /\ x # NULL /\ Sound(x) /\ Used(x) /\ p \in Crew(x)
  BY <1>1, <1>2, CurrentGroups DEF TypeOK, IInv, Listed, Good
<1>4. CASE Pass(p, q, able)
  <2> DEFINE y == PassLeadership(x, q)
             z == Update(y, able)
  <2>1. q \in ToSet(x.members)
    <3>1. q \in Crew(x)
      BY <1>2, <1>3, <1>4, CurrentGroups DEF Pass, IInv, Listed, Good
    <3> QED BY <3>1, <1>4 DEF Pass, Leads, Crew
  <2>2. /\ y \in Objects
        /\ Sound(y)
        /\ SamePeople(x, y)
        /\ y.members # <<>>
    BY <1>3, <2>1, PassKeeps
  <2> HIDE DEF y
  <2>3. /\ z \in Objects
        /\ z.leader = y.leader
        /\ z.members = y.members
        /\ z.invites = y.invites
    BY <2>2, UpdateKeeps
  <2>4. party' = [party EXCEPT ![a] = z]
    BY <1>4 DEF Pass, y
  <2> HIDE DEF z
  <2>5. Sound(z) /\ Used(z) /\ SamePeople(x, z)
    BY <2>2, <2>3 DEF Sound, Used, SamePeople, Crew
  <2> QED BY <1>2, <1>3, <2>3, <2>4, <2>5, UpdatedPartyKeeps
<1>5. CASE Share(p, active, able)
  <2> DEFINE z == [x EXCEPT !.active = active,
                            !.enabled = IF active THEN CanEnable(x, able) ELSE @]
  <2>1. /\ z \in Objects
        /\ z.leader = x.leader
        /\ z.members = x.members
        /\ z.invites = x.invites
    BY <1>3 DEF Objects, CanEnable
  <2>2. party' = [party EXCEPT ![a] = z]
    BY <1>5 DEF Share
  <2> HIDE DEF z
  <2>3. Sound(z) /\ Used(z) /\ SamePeople(x, z)
    BY <1>3, <2>1 DEF Sound, Used, SamePeople, Crew
  <2> QED BY <1>2, <1>3, <2>1, <2>2, <2>3, UpdatedPartyKeeps
<1>6. CASE GainPoints(p, able)
  <2> DEFINE z == Update(x, able)
  <2>1. /\ z \in Objects
        /\ z.leader = x.leader
        /\ z.members = x.members
        /\ z.invites = x.invites
    BY <1>3, UpdateKeeps
  <2>2. party' = [party EXCEPT ![a] = z]
    BY <1>6 DEF GainPoints
  <2> HIDE DEF z
  <2>3. Sound(z) /\ Used(z) /\ SamePeople(x, z)
    BY <1>3, <2>1 DEF Sound, Used, SamePeople, Crew
  <2> QED BY <1>2, <1>3, <2>1, <2>2, <2>3, UpdatedPartyKeeps
<1> QED BY <1>4, <1>5, <1>6

\* clearPartyInvitations and leave keep the parties well formed and leave p with
\* neither a party nor an invitation.
LEMMA WithdrawnKeeps ==
  ASSUME IInv, NEW p \in Players, NEW able \in BOOLEAN
  PROVE  LET h == Withdrawn(p, able)
         IN  /\ Good(h, online)
             /\ h.partyOf[p] = NULL
             /\ h.invited[p] = {}
<1> DEFINE g == RemoveInvites(Current, p, invited[p])
<1>1. Good(g, online) /\ g.invited[p] = {}
  <2>1. invited[p] \in SUBSET Current.invited[p] /\ Good(Current, online)
    BY CurrentGroups DEF IInv, Listed
  <2>2. Good(g, online) /\ g.invited[p] = Current.invited[p] \ invited[p]
    BY <2>1, RemoveInvitesKeeps
  <2> QED BY <2>2, CurrentGroups
<1>2. Withdrawn(p, able) = IF g.partyOf[p] # NULL THEN Leave(g, p, able) ELSE g
  BY DEF Withdrawn
<1> HIDE DEF g
<1>3. CASE g.partyOf[p] # NULL
  <2>1. /\ Good(Leave(g, p, able), online)
        /\ Leave(g, p, able).partyOf[p] = NULL
        /\ Leave(g, p, able).invited[p] = g.invited[p]
    BY <1>1, <1>3, LeaveKeeps DEF IInv
  <2> QED BY <1>1, <1>2, <1>3, <2>1
<1>4. CASE g.partyOf[p] = NULL
  BY <1>1, <1>2, <1>4
<1> QED BY <1>3, <1>4

\* Who leaves the game leaves parties, invitations and channels behind.
LEMMA LogoutKeeps ==
  ASSUME IInv, NEW p \in Players, NEW able \in BOOLEAN, Logout(p, able)
  PROVE  Listed'
<1> DEFINE g == Withdrawn(p, able)
           h == [g EXCEPT !.channel = RemovedFrom(p, @)]
<1>1. Good(g, online) /\ g.partyOf[p] = NULL /\ g.invited[p] = {}
  BY WithdrawnKeeps
<1>2. online' = online \ {p} /\ Become(h)
  BY DEF Logout
<1> HIDE DEF g
<1>3. /\ h \in Groups
      /\ h.party = g.party
      /\ h.partyOf = g.partyOf
      /\ h.invited = g.invited
      /\ \A a \in Addresses : h.channel[a] = g.channel[a] \ {p}
  BY <1>1 DEF Good, Groups, RemovedFrom
<1> HIDE DEF h
<1>4. Good(h, online \ {p})
  BY <1>1, <1>3 DEF Good
<1>5. Good(Current, online \ {p})'
  BY <1>2, <1>4, BecomeKeeps
<1> QED BY <1>2, <1>5 DEF IInv, Listed

\* Every task leaves players and parties well formed.
LEMMA ListedStep == IInv /\ [Next]_vars => Listed'
<1> SUFFICES ASSUME IInv, [Next]_vars PROVE Listed'
  OBVIOUS
<1>1. ASSUME NEW p \in Players, NEW q \in Players, Invite(p, q) PROVE Listed'
  BY <1>1, InviteKeeps
<1>2. ASSUME NEW p \in Players, NEW q \in Players, Revoke(p, q) PROVE Listed'
  <2> DEFINE g == RemoveInvites(Current, q, {partyOf[p]})
  <2>1. {partyOf[p]} \in SUBSET Current.invited[q]
    <3>1. /\ partyOf[p] # NULL
          /\ q \in party[partyOf[p]].invites
      BY <1>2 DEF Revoke, Leads
    <3>2. TypeOK /\ MembershipAgrees /\ InvitationsAgree
      BY InvImplies
    <3>3. partyOf[p] \in invited[q]
      BY <3>1, <3>2 DEF TypeOK, MembershipAgrees, InvitationsAgree
    <3> QED BY <3>3, CurrentGroups
  <2>2. Good(g, online)
    BY <2>1, RemoveInvitesKeeps DEF IInv, Listed
  <2>3. Become(g) /\ online' = online
    BY <1>2 DEF Revoke
  <2> HIDE DEF g
  <2>4. Good(Current, online)'
    BY <2>2, <2>3, BecomeKeeps
  <2> QED BY <2>3, <2>4 DEF IInv, Listed
<1>3. ASSUME NEW p \in Players, NEW a \in Addresses, NEW able \in BOOLEAN, Join(p, a, able)
      PROVE  Listed'
  BY <1>3, JoinKeeps
<1>4. ASSUME NEW p \in Players, NEW q \in Players, NEW able \in BOOLEAN, Pass(p, q, able)
      PROVE  Listed'
  BY <1>4, SharingKeeps
<1>5. ASSUME NEW p \in Players, NEW able \in BOOLEAN, LeaveParty(p, able) PROVE Listed'
  <2> DEFINE g == Leave(Current, p, able)
  <2>1. Good(g, online)
    <3>1. Current.partyOf[p] # NULL /\ Good(Current, online)
      BY <1>5, CurrentGroups DEF LeaveParty, IInv, Listed
    <3> QED BY <3>1, LeaveKeeps DEF IInv
  <2>2. Become(g) /\ online' = online
    BY <1>5 DEF LeaveParty
  <2> HIDE DEF g
  <2>3. Good(Current, online)'
    BY <2>1, <2>2, BecomeKeeps
  <2> QED BY <2>2, <2>3 DEF IInv, Listed
<1>6. ASSUME NEW p \in Players, NEW active \in BOOLEAN, NEW able \in BOOLEAN,
             Share(p, active, able)
      PROVE  Listed'
  BY <1>6, SharingKeeps
<1>7. ASSUME NEW p \in Players, NEW able \in BOOLEAN, GainPoints(p, able) PROVE Listed'
  BY <1>7, SharingKeeps
<1>8. ASSUME NEW p \in Players, NEW able \in BOOLEAN, BecomeGhost(p, able) PROVE Listed'
  <2> DEFINE g == Withdrawn(p, able)
  <2>1. Good(g, online)
    BY WithdrawnKeeps
  <2>2. Become(g) /\ online' = online
    BY <1>8 DEF BecomeGhost
  <2> HIDE DEF g
  <2>3. Good(Current, online)'
    BY <2>1, <2>2, BecomeKeeps
  <2> QED BY <2>2, <2>3 DEF IInv, Listed
<1>9. ASSUME NEW p \in Players, NEW able \in BOOLEAN, Logout(p, able) PROVE Listed'
  BY <1>9, LogoutKeeps
<1>10. ASSUME NEW p \in Players, Login(p) \/ OpenChannel(p) \/ CloseChannel(p) PROVE Listed'
  <2>1. /\ party' = party /\ partyOf' = partyOf /\ invited' = invited
        /\ online \subseteq online' /\ online' \subseteq Players
        /\ channel' \in [Addresses -> SUBSET Players]
        /\ \A a \in Addresses : channel'[a] \subseteq online'
    <3>1. /\ TypeOK
          /\ \A a \in Addresses : channel[a] \subseteq online
      BY InvImplies DEF ListenersAreOnline
    <3>2. CASE Login(p)
      BY <3>1, <3>2 DEF Login, TypeOK
    <3>3. CASE OpenChannel(p)
      BY <3>1, <3>3 DEF OpenChannel, TypeOK
    <3>4. CASE CloseChannel(p)
      BY <3>1, <3>4 DEF CloseChannel, TypeOK
    <3> QED BY <1>10, <3>2, <3>3, <3>4
  <2> QED BY <2>1 DEF IInv, Listed, Good, Current, Groups
<1>11. ASSUME NEW p \in Players, NEW v \in VocationIds, SetVocation(p, v) PROVE Listed'
  BY <1>11 DEF SetVocation, IInv, Listed, Current
<1>12. CASE UNCHANGED vars
  BY <1>12 DEF vars, IInv, Listed, Current
<1> QED BY <1>1, <1>2, <1>3, <1>4, <1>5, <1>6, <1>7, <1>8, <1>9, <1>10, <1>11, <1>12 DEF Next

\* Only a change of a vocation makes a count stale.
LEMMA TalliesStep == IInv /\ [Next]_vars => Tallies'
<1> SUFFICES ASSUME IInv, [Next]_vars PROVE Tallies'
  OBVIOUS
<1>1. Tallies /\ partyOf \in [Players -> Addresses \cup {NULL}]
  BY InvImplies DEF IInv, TypeOK
<1>2. CASE vocation' = vocation /\ stale' \subseteq stale
  BY <1>1, <1>2 DEF Tallies
<1>3. ASSUME NEW p \in Players, NEW v \in VocationIds, SetVocation(p, v) PROVE Tallies'
  BY <1>1, <1>3 DEF SetVocation, Tallies
<1>4. ASSUME NEW p \in Players, NEW q \in Players, Invite(p, q) \/ Revoke(p, q)
      PROVE  vocation' = vocation /\ stale' \subseteq stale
  BY <1>4 DEF Invite, Revoke, Counted
<1>5. ASSUME NEW p \in Players, NEW a \in Addresses, NEW able \in BOOLEAN, Join(p, a, able)
      PROVE  vocation' = vocation /\ stale' \subseteq stale
  BY <1>5 DEF Join, Counted
<1>6. ASSUME NEW p \in Players, NEW q \in Players, NEW able \in BOOLEAN, Pass(p, q, able)
      PROVE  vocation' = vocation /\ stale' \subseteq stale
  BY <1>6 DEF Pass
<1>7. ASSUME NEW p \in Players, NEW able \in BOOLEAN, NEW active \in BOOLEAN,
             \/ LeaveParty(p, able)
             \/ Share(p, active, able)
             \/ GainPoints(p, able)
             \/ BecomeGhost(p, able)
             \/ Logout(p, able)
      PROVE  vocation' = vocation /\ stale' \subseteq stale
  BY <1>7 DEF LeaveParty, Share, GainPoints, BecomeGhost, Logout, Counted
<1>8. ASSUME NEW p \in Players, Login(p) \/ OpenChannel(p) \/ CloseChannel(p)
      PROVE  vocation' = vocation /\ stale' \subseteq stale
  BY <1>8 DEF Login, OpenChannel, CloseChannel
<1>9. CASE UNCHANGED vars
  BY <1>2, <1>9 DEF vars
<1> QED BY <1>2, <1>3, <1>4, <1>5, <1>6, <1>7, <1>8, <1>9 DEF Next

\* Every task keeps the invariant.
LEMMA InvStep == IInv /\ [Next]_vars => IInv'
BY ListedStep, TalliesStep DEF IInv

\* In every reachable state players and parties agree on who is in which party
\* and who is invited to which, every party is in use, and whoever is in one or
\* listens to its channel is in the game: disband, leave and removeInvite of
\* party.cpp leave no pointer behind, whichever of them calls the others.
THEOREM PartiesAgree ==
  Spec => [](TypeOK /\ MembershipAgrees /\ InvitationsAgree /\ PartyIsUsed /\ ListenersAreOnline)
<1>1. Init => IInv
  BY InvInit
<1>2. IInv /\ [Next]_vars => IInv'
  BY InvStep
<1>3. IInv => TypeOK /\ MembershipAgrees /\ InvitationsAgree /\ PartyIsUsed /\ ListenersAreOnline
  BY InvImplies
<1> QED BY <1>1, <1>2, <1>3, PTL DEF Spec

\* Who holds an invitation is on the list of that party and the other way round,
\* so neither disband nor clearPartyInvitations leaves an invitation to a party
\* that is gone, or on its list a player who is.
THEOREM InvitationsHold == Spec => []InvitationsAgree
<1>1. TypeOK /\ MembershipAgrees /\ InvitationsAgree /\ PartyIsUsed /\ ListenersAreOnline
        => InvitationsAgree
  OBVIOUS
<1> QED BY <1>1, PartiesAgree, PTL

----------------------------------------------------------------------------
(* What the members are paid                                               *)

SharesInCompany(x) == x.active /\ x.enabled => x.members # <<>>

PaidRight(x) == x.bonus \in {BonusOnJoin(x), BonusOnLeave(x)}

\* Nobody shares alone, and outside S the bonus is that of the vocations.
Rightful(g, S) ==
  \A a \in Addresses : g.party[a] # NULL =>
    /\ SharesInCompany(g.party[a])
    /\ a \notin S => PaidRight(g.party[a])

\* The bonus depends on who is in the party only.
LEMMA SameCrewPaidRight ==
  ASSUME NEW x, NEW y, PaidRight(x), Crew(y) = Crew(x), y.bonus = x.bonus
  PROVE  PaidRight(y)
<1>1. Vocations(y) = Vocations(x)
  BY DEF Vocations
<1> QED BY <1>1 DEF PaidRight, BonusOnJoin, BonusOnLeave

\* After an update nobody shares alone.
LEMMA UpdateRightful ==
  ASSUME NEW x \in Objects, NEW able \in BOOLEAN
  PROVE  /\ SharesInCompany(Update(x, able))
         /\ PaidRight(x) => PaidRight(Update(x, able))
<1> DEFINE y == Update(x, able)
<1>1. /\ y.leader = x.leader
      /\ y.members = x.members
      /\ y.bonus = x.bonus
      /\ y.active = x.active
      /\ y.enabled = IF x.active THEN able /\ x.members # <<>> ELSE x.enabled
  BY DEF Update, CanEnable, Objects
<1> HIDE DEF y
<1>2. SharesInCompany(y)
  BY <1>1 DEF SharesInCompany
<1>3. ASSUME PaidRight(x) PROVE PaidRight(y)
  <2>1. Crew(y) = Crew(x)
    BY <1>1 DEF Crew
  <2> QED BY <1>1, <1>3, <2>1, SameCrewPaidRight
<1> QED BY <1>2, <1>3 DEF y

\* After a recount the bonus is that of the vocations.
LEMMA RecountRightful ==
  ASSUME Tallies, NEW x \in Objects, SharesInCompany(x)
  PROVE  SharesInCompany(Recount(x)) /\ PaidRight(Recount(x))
<1> DEFINE y == Recount(x)
<1>1. /\ y.leader = x.leader
      /\ y.members = x.members
      /\ y.bonus = BonusOnLeave(x)
      /\ y.active = x.active
      /\ y.enabled = x.enabled
  BY DEF Recount, Objects
<1> HIDE DEF y
<1>2. Vocations(y) = Vocations(x)
  BY <1>1 DEF Vocations, Crew
<1>3. BonusOnLeave(y) = BonusOnLeave(x)
  BY <1>2 DEF BonusOnLeave
<1>4. SharesInCompany(y)
  BY <1>1 DEF SharesInCompany
<1>5. PaidRight(y)
  BY <1>1, <1>3 DEF PaidRight
<1> QED BY <1>4, <1>5 DEF y

\* leave counts the vocations of those who stay.
LEMMA LeaveRightful ==
  ASSUME Tallies, NEW g, NEW present, NEW S, Good(g, present), Rightful(g, S),
         NEW p \in Players, g.partyOf[p] # NULL, NEW able \in BOOLEAN
  PROVE  Rightful(Leave(g, p, able), S \ {g.partyOf[p]})
<1> DEFINE a == g.partyOf[p]
           x == g.party[a]
           y == Update(Left(x, p), able)
           h == Leave(g, p, able)
<1>1. a \in Addresses /\ x \in Objects /\ Sound(x) /\ p \in Crew(x)
  BY DEF Good, Groups
<1> HIDE DEF a
<1>2. Left(x, p) \in Objects
  BY <1>1, LeftKeeps
<1>3. y \in Objects /\ SharesInCompany(y)
  BY <1>2, UpdateKeeps, UpdateRightful
<1> HIDE DEF y
<1>4. SharesInCompany(Recount(y)) /\ PaidRight(Recount(y))
  BY <1>3, RecountRightful
<1>5. \/ h.party = [g.party EXCEPT ![a] = NULL]
      \/ h.party = [g.party EXCEPT ![a] = Recount(y)]
  <2>1. g.party \in [Addresses -> Objects \cup {NULL}] /\ g \in Groups
    BY DEF Good, Groups
  <2> QED BY <2>1 DEF Leave, Disband, a, y, Groups
<1> HIDE DEF h
<1>6. g.party \in [Addresses -> Objects \cup {NULL}]
  BY DEF Good, Groups
<1>7. Rightful(h, S \ {a})
  BY <1>1, <1>4, <1>5, <1>6 DEF Rightful
<1> QED BY <1>7 DEF h, a

\* A revoked invitation leaves the bonus of the parties as it is.
LEMMA RemoveInvitesRightful ==
  ASSUME NEW g, NEW present, NEW S, Good(g, present), Rightful(g, S),
         NEW p \in Players, NEW A \in SUBSET g.invited[p]
  PROVE  Rightful(RemoveInvites(g, p, A), S)
<1> DEFINE without(a) == [g.party[a] EXCEPT !.invites = @ \ {p}]
           h == RemoveInvites(g, p, A)
<1>1. \A a \in Addresses : \/ h.party[a] \in {NULL, g.party[a]}
                           \/ a \in A /\ h.party[a] = without(a)
  BY DEF RemoveInvites
<1>2. \A a \in A : g.party[a] # NULL /\ g.party[a] \in Objects
  BY DEF Good, Groups
<1>3. ASSUME NEW a \in A
      PROVE  SharesInCompany(without(a)) /\ (a \notin S => PaidRight(without(a)))
  <2>1. /\ SharesInCompany(g.party[a])
        /\ a \notin S => PaidRight(g.party[a])
        /\ g.party[a] \in Objects
    BY <1>2 DEF Rightful, Good, Groups
  <2>2. /\ without(a).leader = g.party[a].leader
        /\ without(a).members = g.party[a].members
        /\ without(a).bonus = g.party[a].bonus
        /\ without(a).active = g.party[a].active
        /\ without(a).enabled = g.party[a].enabled
    BY <2>1 DEF Objects
  <2> HIDE DEF without
  <2>3. Crew(without(a)) = Crew(g.party[a])
    BY <2>2 DEF Crew
  <2> QED BY <2>1, <2>2, <2>3, SameCrewPaidRight DEF SharesInCompany
<1> HIDE DEF without, h
<1>4. Rightful(h, S)
  BY <1>1, <1>3 DEF Rightful
<1> QED BY <1>4 DEF h

\* Who withdraws leaves a party that is counted again, or that is gone.
LEMMA WithdrawnRightful ==
  ASSUME IInv, Rightful(Current, stale), NEW p \in Players, NEW able \in BOOLEAN
  PROVE  Rightful(Withdrawn(p, able), stale \ {partyOf[p]})
<1> DEFINE g == RemoveInvites(Current, p, invited[p])
           a == partyOf[p]
<1>0. Tallies /\ Good(Current, online) /\ TypeOK
  BY InvImplies DEF IInv, Listed
<1>1. invited[p] \in SUBSET Current.invited[p]
  BY <1>0, CurrentGroups
<1>2. Good(g, online) /\ Rightful(g, stale)
  BY <1>0, <1>1, RemoveInvitesKeeps, RemoveInvitesRightful
<1>3. Withdrawn(p, able) = IF g.partyOf[p] # NULL THEN Leave(g, p, able) ELSE g
  BY DEF Withdrawn
<1>4. g.partyOf[p] \in {NULL, a}
  BY DEF RemoveInvites, Current
<1>5. \A b \in Addresses : \/ g.party[b] \in {NULL, party[b]}
                           \/ /\ b \in invited[p]
                              /\ g.party[b] = [party[b] EXCEPT !.invites = @ \ {p}]
  BY DEF RemoveInvites, Current
<1>6. \A b \in Addresses : g.party[b] # NULL /\ party[b] # NULL => Crew(g.party[b]) = Crew(party[b])
  <2> SUFFICES ASSUME NEW b \in Addresses, g.party[b] # NULL, party[b] # NULL
               PROVE  Crew(g.party[b]) = Crew(party[b])
    OBVIOUS
  <2>1. party[b] \in Objects
    BY <1>0 DEF TypeOK
  <2>2. g.party[b].leader = party[b].leader /\ g.party[b].members = party[b].members
    BY <1>5, <2>1 DEF Objects
  <2> QED BY <2>2 DEF Crew
<1> HIDE DEF g
<1>7. CASE g.partyOf[p] # NULL
  <2>1. Rightful(Leave(g, p, able), stale \ {g.partyOf[p]})
    BY <1>0, <1>2, <1>7, LeaveRightful
  <2> QED BY <1>3, <1>4, <1>7, <2>1
<1>8. CASE g.partyOf[p] = NULL
  <2>1. a \in Addresses => party[a] # NULL /\ p \in Crew(party[a])
    BY <1>0, CurrentGroups DEF Good
  <2>2. a \in Addresses => g.party[a] = NULL
    <3> SUFFICES ASSUME a \in Addresses, g.party[a] # NULL PROVE FALSE
      OBVIOUS
    <3>1. p \in Crew(g.party[a])
      BY <1>6, <2>1
    <3>2. g.partyOf[p] = a
      BY <1>2, <3>1 DEF Good
    <3> QED BY <1>8, <3>2, PartyAssumption DEF PartyAssumption
  <2>3. Rightful(g, stale \ {a})
    BY <1>2, <2>2 DEF Rightful
  <2> QED BY <1>3, <1>8, <2>3
<1> QED BY <1>7, <1>8

\* Without a change of vocations the bonus is right after a task if it is right
\* by the vocations before it.
LEMMA SamePay ==
  ASSUME NEW S, vocation' = vocation, stale' = S,
         \A a \in Addresses : party'[a] # NULL =>
           /\ SharesInCompany(party'[a])
           /\ a \notin S => PaidRight(party'[a])
  PROVE  Rightful(Current, stale)'
<1>1. \A a \in Addresses : Vocations(party[a])' = Vocations(party'[a])
  BY DEF Vocations
<1>2. \A a \in Addresses : PaidRight(party[a])' <=> PaidRight(party'[a])
  BY <1>1 DEF PaidRight, BonusOnJoin, BonusOnLeave
<1> QED BY <1>2 DEF Rightful, Current

\* A task that makes the parties those of g.
LEMMA BecomeRightful ==
  ASSUME NEW g, NEW S, Rightful(g, S), Become(g), vocation' = vocation, stale' = S
  PROVE  Rightful(Current, stale)'
<1>1. party' = g.party
  BY DEF Become
<1>2. \A a \in Addresses : party'[a] # NULL =>
        /\ SharesInCompany(party'[a])
        /\ a \notin S => PaidRight(party'[a])
  BY <1>1 DEF Rightful
<1> QED BY <1>2, SamePay

\* A task that puts one party x at address a.
LEMMA PutRightful ==
  ASSUME TypeOK, Rightful(Current, stale), NEW a \in Addresses, NEW x,
         SharesInCompany(x), a \notin stale' => PaidRight(x),
         party' = [party EXCEPT ![a] = x],
         vocation' = vocation, stale \ {a} \subseteq stale'
  PROVE  Rightful(Current, stale)'
<1>1. \A b \in Addresses : party'[b] # NULL =>
        /\ SharesInCompany(party'[b])
        /\ b \notin stale' => PaidRight(party'[b])
  BY DEF TypeOK, Rightful, Current
<1> QED BY <1>1, SamePay

\* The party of a single player pays 100 %.
LEMMA NewPartyRightful ==
  ASSUME NEW p \in Players, NEW q \in Players
  PROVE  LET x == [NewParty(p) EXCEPT !.invites = {q}]
         IN  SharesInCompany(x) /\ PaidRight(x)
<1> DEFINE x == [NewParty(p) EXCEPT !.invites = {q}]
<1>1. /\ x.leader = p
      /\ x.members = <<>>
      /\ x.active = FALSE
      /\ x.bonus = 100
  BY DEF NewParty
<1> HIDE DEF x
<1>2. Crew(x) = {p}
  <2>1. <<>> \in Seq(Players)
    OBVIOUS
  <2>2. ToSet(<<>>) = {}
    BY <2>1, EmptyList
  <2> QED BY <1>1, <2>2 DEF Crew
<1>3. {vocation[r] : r \in Crew(x)} = {vocation[p]}
  BY <1>2
<1>4. Vocations(x) = 1
  BY <1>3, FS_Singleton DEF Vocations
<1>5. PaidRight(x)
  BY <1>1, <1>4 DEF PaidRight, BonusOnJoin
<1>6. SharesInCompany(x)
  BY <1>1 DEF SharesInCompany
<1> QED BY <1>5, <1>6 DEF x

\* Every task keeps the bonus that of the vocations and pays nobody alone.
LEMMA RightfulStep == IInv /\ Rightful(Current, stale) /\ [Next]_vars => Rightful(Current, stale)'
<1> SUFFICES ASSUME IInv, Rightful(Current, stale), [Next]_vars PROVE Rightful(Current, stale)'
  OBVIOUS
<1>0. TypeOK /\ MembershipAgrees /\ InvitationsAgree /\ Good(Current, online) /\ Tallies
  BY InvImplies DEF IInv, Listed
<1>a. \A a \in Addresses : party[a] # NULL =>
        /\ party[a] \in Objects
        /\ Sound(party[a])
        /\ SharesInCompany(party[a])
        /\ a \notin stale => PaidRight(party[a])
  BY <1>0, CurrentGroups DEF TypeOK, Good, Rightful
<1>b. \A p \in Players : partyOf[p] # NULL => partyOf[p] \in Addresses /\ party[partyOf[p]] # NULL
  BY <1>0 DEF TypeOK, MembershipAgrees
<1>1. ASSUME NEW p \in Players, NEW q \in Players, Invite(p, q) PROVE Rightful(Current, stale)'
  <2>1. CASE /\ Leads(p)
             /\ party' = [party EXCEPT ![partyOf[p]].invites = @ \cup {q}]
             /\ UNCHANGED <<vocation, stale>>
    <3> DEFINE a == partyOf[p]
               x == party[a]
               y == [x EXCEPT !.invites = @ \cup {q}]
    <3>1. /\ a \in Addresses /\ x \in Objects /\ SharesInCompany(x)
          /\ a \notin stale => PaidRight(x)
      BY <2>1, <1>a, <1>b DEF Leads
    <3>2. /\ y.leader = x.leader /\ y.members = x.members /\ y.bonus = x.bonus
          /\ y.active = x.active /\ y.enabled = x.enabled
      BY <3>1 DEF Objects
    <3>3. party' = [party EXCEPT ![a] = y]
      BY <2>1
    <3> HIDE DEF y, x, a
    <3>4. Crew(y) = Crew(x)
      BY <3>2 DEF Crew
    <3>5. SharesInCompany(y) /\ (a \notin stale => PaidRight(y))
      BY <3>1, <3>2, <3>4, SameCrewPaidRight DEF SharesInCompany
    <3> QED BY <1>0, <2>1, <3>1, <3>3, <3>5, PutRightful
  <2>2. ASSUME NEW a \in Addresses,
               party' = [party EXCEPT ![a] = [NewParty(p) EXCEPT !.invites = {q}]],
               vocation' = vocation, Counted(a)
        PROVE  Rightful(Current, stale)'
    BY <1>0, <2>2, NewPartyRightful, PutRightful DEF Counted
  <2> QED BY <1>1, <2>1, <2>2 DEF Invite
<1>2. ASSUME NEW p \in Players, NEW q \in Players, Revoke(p, q) PROVE Rightful(Current, stale)'
  <2>1. {partyOf[p]} \in SUBSET Current.invited[q]
    <3>1. partyOf[p] # NULL /\ q \in party[partyOf[p]].invites
      BY <1>2 DEF Revoke, Leads
    <3>2. partyOf[p] \in invited[q]
      BY <3>1, <1>0 DEF TypeOK, MembershipAgrees, InvitationsAgree
    <3> QED BY <3>2, CurrentGroups
  <2>2. Rightful(RemoveInvites(Current, q, {partyOf[p]}), stale)
    BY <1>0, <2>1, RemoveInvitesRightful
  <2> QED BY <1>2, <2>2, BecomeRightful DEF Revoke
<1>3. ASSUME NEW p \in Players, NEW a \in Addresses, NEW able \in BOOLEAN, Join(p, a, able)
      PROVE  Rightful(Current, stale)'
  <2> DEFINE x == [party[a] EXCEPT !.members = Append(@, p), !.invites = @ \ {p}]
             y == [x EXCEPT !.bonus = BonusOnJoin(x)]
  <2>1. party[a] \in Objects
    BY <1>3, <1>a DEF Join
  <2>2. x \in Objects
    <3>1. Append(party[a].members, p) \in Seq(Players)
      BY <2>1 DEF Objects
    <3> QED BY <2>1, <3>1 DEF Objects
  <2>3. party' = [party EXCEPT ![a] = Update(y, able)]
    BY <1>3 DEF Join
  <2> HIDE DEF x
  <2>4. BonusOnJoin(x) \in Bonuses
    BY <1>0, <2>2, BonusIsOne
  <2>5. y \in Objects /\ y.bonus = BonusOnJoin(x) /\ y.leader = x.leader /\ y.members = x.members
    BY <2>2, <2>4 DEF Objects
  <2> HIDE DEF y
  <2>6. Vocations(y) = Vocations(x)
    BY <2>5 DEF Vocations, Crew
  <2>7. PaidRight(y)
    BY <2>5, <2>6 DEF PaidRight, BonusOnJoin
  <2>8. SharesInCompany(Update(y, able)) /\ PaidRight(Update(y, able))
    BY <2>5, <2>7, UpdateRightful
  <2> QED BY <1>0, <1>3, <2>3, <2>8, PutRightful DEF Join, Counted
<1>4. ASSUME NEW p \in Players, NEW q \in Players, NEW able \in BOOLEAN, Pass(p, q, able)
      PROVE  Rightful(Current, stale)'
  <2> DEFINE a == partyOf[p]
             x == party[a]
             y == PassLeadership(x, q)
  <2>1. a \in Addresses /\ x \in Objects /\ Sound(x) /\ (a \notin stale => PaidRight(x))
    BY <1>4, <1>a, <1>b DEF Pass, Leads
  <2>2. q \in ToSet(x.members)
    <3>1. q \in Crew(x) /\ x.leader = p /\ q # p
      BY <1>4, <1>0 DEF Pass, Leads, MembershipAgrees
    <3> QED BY <3>1 DEF Crew
  <2>3. party' = [party EXCEPT ![a] = Update(y, able)]
    BY <1>4 DEF Pass
  <2> HIDE DEF a, x
  <2>4. y \in Objects /\ SamePeople(x, y) /\ y.bonus = x.bonus
    <3>1. y.bonus = x.bonus
      BY <2>1 DEF PassLeadership, Objects
    <3> QED BY <2>1, <2>2, <3>1, PassKeeps
  <2> HIDE DEF y
  <2>5. a \notin stale => PaidRight(y)
    BY <2>1, <2>4, SameCrewPaidRight DEF SamePeople
  <2>6. SharesInCompany(Update(y, able)) /\ (a \notin stale => PaidRight(Update(y, able)))
    BY <2>4, <2>5, UpdateRightful
  <2>7. vocation' = vocation /\ stale' = stale
    BY <1>4 DEF Pass
  <2> QED BY <1>0, <2>1, <2>3, <2>6, <2>7, PutRightful
<1>5. ASSUME NEW p \in Players, NEW able \in BOOLEAN, LeaveParty(p, able)
      PROVE  Rightful(Current, stale)'
  <2>1. Current.partyOf[p] # NULL
    BY <1>5, CurrentGroups DEF LeaveParty
  <2>2. Rightful(Leave(Current, p, able), stale \ {partyOf[p]})
    BY <1>0, <2>1, LeaveRightful, CurrentGroups
  <2> QED BY <1>5, <2>2, BecomeRightful DEF LeaveParty, Counted
<1>6. ASSUME NEW p \in Players, NEW active \in BOOLEAN, NEW able \in BOOLEAN,
             Share(p, active, able)
      PROVE  Rightful(Current, stale)'
  <2> DEFINE a == partyOf[p]
             x == party[a]
             y == [x EXCEPT !.active = active,
                            !.enabled = IF active THEN CanEnable(x, able) ELSE @]
  <2>1. a \in Addresses /\ x \in Objects /\ (a \notin stale => PaidRight(x))
    BY <1>6, <1>a, <1>b DEF Share, Leads
  <2>2. party' = [party EXCEPT ![a] = y]
    BY <1>6 DEF Share
  <2> HIDE DEF a, x
  <2>3. /\ y.leader = x.leader /\ y.members = x.members /\ y.bonus = x.bonus
        /\ y.active = active
        /\ active => y.enabled = CanEnable(x, able)
    BY <2>1 DEF Objects
  <2> HIDE DEF y
  <2>4. Crew(y) = Crew(x)
    BY <2>3 DEF Crew
  <2>5. a \notin stale => PaidRight(y)
    BY <2>1, <2>3, <2>4, SameCrewPaidRight
  <2>6. SharesInCompany(y)
    BY <2>3 DEF SharesInCompany, CanEnable
  <2>7. vocation' = vocation /\ stale' = stale
    BY <1>6 DEF Share
  <2> QED BY <1>0, <2>1, <2>2, <2>5, <2>6, <2>7, PutRightful
<1>7. ASSUME NEW p \in Players, NEW able \in BOOLEAN, GainPoints(p, able)
      PROVE  Rightful(Current, stale)'
  <2> DEFINE a == partyOf[p]
             x == party[a]
  <2>1. a \in Addresses /\ x \in Objects /\ (a \notin stale => PaidRight(x))
    BY <1>7, <1>a, <1>b DEF GainPoints
  <2>2. party' = [party EXCEPT ![a] = Update(x, able)]
    BY <1>7 DEF GainPoints
  <2>3. SharesInCompany(Update(x, able)) /\ (a \notin stale => PaidRight(Update(x, able)))
    BY <2>1, UpdateRightful
  <2> HIDE DEF a, x
  <2>4. vocation' = vocation /\ stale' = stale
    BY <1>7 DEF GainPoints
  <2> QED BY <1>0, <2>1, <2>2, <2>3, <2>4, PutRightful
<1>8. ASSUME NEW p \in Players, NEW able \in BOOLEAN
      PROVE  Rightful(Withdrawn(p, able), stale \ {partyOf[p]})
  BY WithdrawnRightful
<1>9. ASSUME NEW p \in Players, NEW able \in BOOLEAN, BecomeGhost(p, able)
      PROVE  Rightful(Current, stale)'
  BY <1>8, <1>9, BecomeRightful DEF BecomeGhost, Counted
<1>10. ASSUME NEW p \in Players, NEW able \in BOOLEAN, Logout(p, able)
       PROVE  Rightful(Current, stale)'
  <2> DEFINE g == Withdrawn(p, able)
             h == [g EXCEPT !.channel = RemovedFrom(p, @)]
  <2>1. Rightful(g, stale \ {partyOf[p]}) /\ g \in Groups
    BY <1>8, WithdrawnKeeps DEF Good
  <2>2. Become(h)
    BY <1>10 DEF Logout
  <2> HIDE DEF g
  <2>3. h.party = g.party
    BY <2>1 DEF Groups
  <2> HIDE DEF h
  <2>4. Rightful(h, stale \ {partyOf[p]})
    BY <2>1, <2>3 DEF Rightful
  <2> QED BY <1>10, <2>2, <2>4, BecomeRightful DEF Logout, Counted
<1>11. ASSUME NEW p \in Players, Login(p) \/ OpenChannel(p) \/ CloseChannel(p)
       PROVE  Rightful(Current, stale)'
  <2>1. party' = party /\ vocation' = vocation /\ stale' = stale
    BY <1>11 DEF Login, OpenChannel, CloseChannel
  <2> QED BY <1>a, <2>1, SamePay
<1>12. ASSUME NEW p \in Players, NEW v \in VocationIds, SetVocation(p, v)
       PROVE  Rightful(Current, stale)'
  <2>1. /\ party' = party
        /\ vocation' = [vocation EXCEPT ![p] = v]
        /\ stale' = stale \cup ({partyOf[p]} \ {NULL})
    BY <1>12 DEF SetVocation
  <2>2. ASSUME NEW a \in Addresses, party[a] # NULL, a \notin stale'
        PROVE  PaidRight(party[a])'
    <3>1. PaidRight(party[a])
      BY <1>a, <2>1, <2>2
    <3>2. p \notin Crew(party[a])
      BY <1>0, <2>1, <2>2, PartyAssumption DEF MembershipAgrees, PartyAssumption
    <3>3. Crew(party[a]) \subseteq Players
      <4>1. ToSet(party[a].members) \subseteq Players /\ party[a].leader \in Players
        BY <1>a, <2>2 DEF Objects, ToSet
      <4> QED BY <4>1 DEF Crew
    <3>4. \A q \in Crew(party[a]) : vocation'[q] = vocation[q]
      BY <1>0, <2>1, <3>2, <3>3 DEF Tallies
    <3>5. {vocation'[q] : q \in Crew(party[a])} = {vocation[q] : q \in Crew(party[a])}
      BY <3>4
    <3>6. Vocations(party[a])' = Vocations(party[a])
      BY <2>1, <3>5 DEF Vocations
    <3> QED BY <2>1, <3>1, <3>6 DEF PaidRight, BonusOnJoin, BonusOnLeave
  <2> QED BY <1>a, <2>1, <2>2 DEF Rightful, Current
<1>13. CASE UNCHANGED vars
  BY <1>13, <1>a, SamePay DEF vars
<1> QED BY <1>1, <1>2, <1>3, <1>4, <1>5, <1>6, <1>7, <1>9, <1>10, <1>11, <1>12, <1>13 DEF Next

\* updateSharedExperience and the recounts of join and leave are called where
\* they have to be: a leader without members never shares experience with
\* himself, and the bonus is that of the vocations in the party, unless one of
\* these has changed since the last of them.
THEOREM PaidAsEarned == Spec => [](SharingNeedsTwo /\ BonusIsCurrent)
<1> DEFINE RInv == IInv /\ Rightful(Current, stale)
<1>1. Init => RInv
  BY InvInit DEF Init, Rightful, Current
<1>2. RInv /\ [Next]_vars => RInv'
  BY InvStep, RightfulStep
<1>3. RInv => SharingNeedsTwo /\ BonusIsCurrent
  BY DEF Rightful, Current, SharesInCompany, PaidRight, SharingNeedsTwo, BonusIsCurrent
<1> QED BY <1>1, <1>2, <1>3, PTL DEF Spec
=============================================================================
