---------------------------- MODULE TradeProofs ----------------------------
(***************************************************************************)
(* Theorems about Trade, for any number of players, things and houses.     *)
(*                                                                         *)
(* Agreement is inductive together with the types; OffersAreListed needs   *)
(* both.  All ways of ending a trade are one fact: releasing a set of      *)
(* players that contains the partner of each of its members keeps both.    *)
(***************************************************************************)
EXTENDS Trade, TLAPS

IInv == TypeOK /\ Agreement /\ OffersAreListed

Closed(P) ==
  /\ P \subseteq Players
  /\ \A p \in P : trade[p].partner \in P \cup {NULL}

TradeTypes ==
  trade \in [Players -> [state   : States,
                         partner : Players \cup {NULL},
                         item    : Items \cup {NULL}]]

\* A player and his partner are closed under partners, and so is any union.
LEMMA PartiesClosed ==
  ASSUME IInv, NEW P, P \subseteq Players
  PROVE  Closed(UNION {Parties(p) : p \in P})
<1>1. ASSUME NEW p \in Players
      PROVE  /\ Parties(p) \subseteq Players
             /\ \A q \in Parties(p) : trade[q].partner \in Parties(p) \cup {NULL}
  <2>1. CASE trade[p].partner = NULL
    BY <2>1 DEF Parties
  <2>2. CASE trade[p].partner # NULL
    <3>1. trade[p].partner \in Players
      BY <2>2 DEF IInv, TypeOK
    <3>2. trade[trade[p].partner].partner = p
      BY <2>2 DEF IInv, Agreement
    <3> QED BY <2>2, <3>1, <3>2 DEF Parties
  <2> QED BY <2>1, <2>2
<1> QED BY <1>1 DEF Closed

\* Releasing a closed set of players keeps the agreement of all others.
LEMMA ReleaseKeeps ==
  ASSUME IInv, NEW P, Closed(P), Release(P), online \ P \subseteq online'
  PROVE  /\ TradeTypes'
         /\ tradeItems' \subseteq Items
         /\ docs' \subseteq Docs
         /\ Agreement'
         /\ OffersAreListed'
<1>1. \A q \in Players : trade'[q] = IF q \in P THEN Idle ELSE trade[q]
  BY DEF Release
<1>2. TradeTypes'
  <2>1. Idle \in [state : States, partner : Players \cup {NULL}, item : Items \cup {NULL}]
    BY DEF Idle, States
  <2> QED BY <2>1 DEF Release, TradeTypes, IInv, TypeOK
<1>3. tradeItems' \subseteq Items /\ docs' \subseteq Docs
  BY DEF Release, IInv, TypeOK
<1>4. Agreement'
  <2> SUFFICES ASSUME NEW p \in Players, trade'[p].partner # NULL
               PROVE  LET q == trade'[p].partner
                      IN /\ trade'[q].partner = p
                         /\ q # p
                         /\ {p, q} \subseteq online'
                         /\ trade'[p].state # "NONE"
                         /\ trade'[p].item # NULL \/ trade'[q].item # NULL
                         /\ trade'[p].state = "INITIATED" => trade'[p].item # NULL
                         /\ trade'[p].state = "ACKNOWLEDGE" => trade'[p].item = NULL
    <3>1. ASSUME NEW p \in Players, trade'[p].partner = NULL PROVE trade'[p] = Idle
      BY <1>1, <3>1 DEF IInv, Agreement
    <3> QED BY <3>1 DEF Agreement
  <2> DEFINE q == trade[p].partner
  <2>1. p \notin P /\ trade'[p] = trade[p]
    BY <1>1 DEF Idle
  <2>2. q \in Players /\ q # NULL
    BY <2>1 DEF IInv, TypeOK
  <2>3. trade[q].partner = p
    BY <2>2 DEF IInv, Agreement
  <2>4. q \notin P
    BY <2>1, <2>3, TradeAssumption DEF Closed, TradeAssumption
  <2>5. trade'[q] = trade[q]
    BY <1>1, <2>2, <2>4
  <2> QED BY <2>1, <2>2, <2>3, <2>4, <2>5 DEF IInv, Agreement
<1>5. OffersAreListed'
  <2>1. tradeItems = Offers(Players) /\ docs = tradeItems \cap Docs
    BY DEF IInv, OffersAreListed
  <2>2. Offers(Players)' = Offers(Players) \ Offers(P)
    <3>1. ASSUME NEW i \in Offers(Players)' PROVE i \in Offers(Players) \ Offers(P)
      <4>1. PICK q \in Players : i = trade'[q].item /\ i # NULL
        BY <3>1 DEF Offers
      <4>2. q \notin P /\ i = trade[q].item
        BY <1>1, <4>1 DEF Idle
      <4>3. i \notin Offers(P)
        BY <4>1, <4>2 DEF IInv, OffersAreListed, Offers, Closed
      <4> QED BY <4>1, <4>2, <4>3 DEF Offers
    <3>2. ASSUME NEW i \in Offers(Players), i \notin Offers(P) PROVE i \in Offers(Players)'
      <4>1. PICK q \in Players : i = trade[q].item /\ i # NULL
        BY <3>2 DEF Offers
      <4>2. q \notin P
        BY <3>2, <4>1 DEF Offers
      <4> QED BY <1>1, <4>1, <4>2 DEF Offers
    <3> QED BY <3>1, <3>2
  <2>3. tradeItems' = Offers(Players)' /\ docs' = tradeItems' \cap Docs
    BY <2>1, <2>2 DEF Release
  <2>4. \A q \in Players : trade'[q].item # NULL => trade'[q] = trade[q]
    BY <1>1 DEF Idle
  <2>5. \A p, q \in Players :
          trade'[p].item # NULL /\ trade'[p].item = trade'[q].item => p = q
    BY <2>4 DEF IInv, OffersAreListed
  <2>6. \A p \in Players : trade'[p].item \in Docs => trade'[p].item[1] = p
    BY <2>4, TradeAssumption DEF IInv, OffersAreListed, TradeAssumption, Items
  <2> QED BY <2>3, <2>5, <2>6 DEF OffersAreListed
<1> QED BY <1>2, <1>3, <1>4, <1>5

\* A new offer between two players who may trade keeps the agreement.
LEMMA StartKeeps ==
  ASSUME IInv, NEW p \in Players, NEW q \in Players, NEW i \in Items,
         p # q, {p, q} \subseteq online, online' = online,
         i \notin tradeItems, i \in Docs => i[1] = p,
         docs' = docs \cup ({i} \cap Docs),
         StartTrade(p, q, i)
  PROVE  /\ TradeTypes'
         /\ tradeItems' \subseteq Items
         /\ docs' \subseteq Docs
         /\ Agreement'
         /\ OffersAreListed'
<1> DEFINE tq == IF trade[q].state = "NONE"
                 THEN [trade[q] EXCEPT !.state = "ACKNOWLEDGE", !.partner = p]
                 ELSE trade[q]
           tp == [state |-> "INITIATED", partner |-> q, item |-> i]
<1>0. i # NULL /\ p # NULL /\ q # NULL
  BY TradeAssumption DEF TradeAssumption
<1>1. /\ trade'[p] = tp
      /\ trade'[q] = tq
      /\ \A r \in Players \ {p, q} : trade'[r] = trade[r]
  BY DEF StartTrade, IInv, TypeOK
<1>2. /\ trade[p].item = NULL
      /\ trade[p].partner \in {NULL, q}
      /\ trade[q].partner \in {NULL, p}
      /\ trade[q].partner = NULL => trade[q] = Idle
      /\ trade[q].partner = p => trade[q].state # "NONE" /\ trade[p].partner = q
      /\ trade[p].partner = q => trade[q].partner = p
  BY <1>0 DEF StartTrade, MayStart, IInv, Agreement, Idle
<1>3. TradeTypes'
  <2>1. tp \in [state : States, partner : Players \cup {NULL}, item : Items \cup {NULL}]
    BY DEF States
  <2>2. tq \in [state : States, partner : Players \cup {NULL}, item : Items \cup {NULL}]
    BY DEF States, IInv, TypeOK
  <2> QED BY <2>1, <2>2 DEF StartTrade, TradeTypes, IInv, TypeOK
<1>4. tq.partner = p /\ tq.state # "NONE" /\ tq.item = trade[q].item
  <2>1. trade[q] \in [state : States, partner : Players \cup {NULL}, item : Items \cup {NULL}]
    BY DEF IInv, TypeOK
  <2> QED BY <1>2, <2>1 DEF Idle
<1>5. Agreement'
  <2> SUFFICES ASSUME NEW r \in Players
               PROVE  LET s == trade'[r].partner
                      IN IF s = NULL THEN trade'[r] = Idle
                         ELSE /\ trade'[s].partner = r
                              /\ s # r
                              /\ {r, s} \subseteq online'
                              /\ trade'[r].state # "NONE"
                              /\ trade'[r].item # NULL \/ trade'[s].item # NULL
                              /\ trade'[r].state = "INITIATED" => trade'[r].item # NULL
                              /\ trade'[r].state = "ACKNOWLEDGE" => trade'[r].item = NULL
    BY DEF Agreement
  <2>1. CASE r = p
    <3>1. trade'[r].partner = q /\ trade'[r].state = "INITIATED" /\ trade'[r].item = i
      BY <1>1, <2>1
    <3>2. trade'[q].partner = p
      BY <1>1, <1>4
    <3> QED BY <1>0, <2>1, <3>1, <3>2
  <2>2. CASE r = q
    <3>1. tq.state = "INITIATED" => trade[q].item # NULL
      BY <1>0, <1>2 DEF IInv, Agreement, Idle
    <3>2. tq.state = "ACKNOWLEDGE" => trade[q].item = NULL
      BY <1>0, <1>2 DEF IInv, Agreement, Idle
    <3>3. trade'[p].partner = q /\ trade'[p].item = i
      BY <1>1
    <3>4. /\ trade'[q].partner = p
          /\ trade'[q].state # "NONE"
          /\ trade'[q].state = "INITIATED" => trade'[q].item # NULL
          /\ trade'[q].state = "ACKNOWLEDGE" => trade'[q].item = NULL
      BY <1>1, <1>4, <3>1, <3>2
    <3> QED BY <1>0, <2>2, <3>3, <3>4
  <2>3. CASE r \notin {p, q}
    <3>1. trade'[r] = trade[r]
      BY <1>1, <2>3
    <3>2. CASE trade[r].partner = NULL
      BY <3>1, <3>2 DEF IInv, Agreement
    <3>3. CASE trade[r].partner # NULL
      <4>1. trade[r].partner \in Players /\ trade[trade[r].partner].partner = r
        BY <3>3 DEF IInv, TypeOK, Agreement
      <4>2. trade[r].partner \notin {p, q}
        BY <1>0, <1>2, <2>3, <4>1, TradeAssumption DEF TradeAssumption
      <4>3. trade'[trade[r].partner] = trade[trade[r].partner]
        BY <1>1, <4>1, <4>2
      <4> QED BY <3>1, <3>3, <4>3 DEF IInv, Agreement
    <3> QED BY <3>2, <3>3
  <2> QED BY <2>1, <2>2, <2>3
<1>6. OffersAreListed'
  <2>1. \A r \in Players : trade'[r].item = IF r = p THEN i ELSE trade[r].item
    <3>1. trade'[p].item = i /\ trade'[q].item = trade[q].item
      BY <1>1, <1>4
    <3> QED BY <1>1, <3>1
  <2>2. Offers(Players)' = Offers(Players) \cup {i}
    BY <1>0, <1>2, <2>1 DEF Offers
  <2>3. tradeItems' = Offers(Players)' /\ docs' = tradeItems' \cap Docs
    BY <2>2 DEF StartTrade, IInv, OffersAreListed
  <2>4. \A r \in Players : trade[r].item # i
    BY <1>0 DEF IInv, OffersAreListed, Offers
  <2>5. \A r, s \in Players :
          trade'[r].item # NULL /\ trade'[r].item = trade'[s].item => r = s
    BY <2>1, <2>4 DEF IInv, OffersAreListed
  <2>6. \A r \in Players : trade'[r].item \in Docs => trade'[r].item[1] = r
    BY <2>1 DEF IInv, OffersAreListed
  <2> QED BY <2>3, <2>5, <2>6 DEF OffersAreListed
<1>7. tradeItems' \subseteq Items /\ docs' \subseteq Docs
  BY DEF StartTrade, IInv, TypeOK
<1> QED BY <1>3, <1>5, <1>6, <1>7

\* An acceptance changes one player's state, and nothing the two sides share.
LEMMA AcceptKeeps ==
  ASSUME IInv, NEW p \in Players, MayAccept(p), SetAccept(p),
         UNCHANGED <<online, tradeItems, docs>>
  PROVE  TradeTypes' /\ Agreement' /\ OffersAreListed'
<1>1. /\ trade' = [trade EXCEPT ![p].state = "ACCEPT"]
      /\ trade \in [Players -> [state   : States,
                                partner : Players \cup {NULL},
                                item    : Items \cup {NULL}]]
  BY DEF SetAccept, IInv, TypeOK
<1>2. TradeTypes'
  BY <1>1 DEF TradeTypes, States
<1>3. \A q \in Players : /\ trade'[q].partner = trade[q].partner
                         /\ trade'[q].item = trade[q].item
                         /\ trade'[q].state = IF q = p THEN "ACCEPT" ELSE trade[q].state
                         /\ q # p => trade'[q] = trade[q]
  BY <1>1
<1>4. Agreement'
  <2> SUFFICES ASSUME NEW r \in Players
               PROVE  LET s == trade'[r].partner
                      IN IF s = NULL THEN trade'[r] = Idle
                         ELSE /\ trade'[s].partner = r
                              /\ s # r
                              /\ {r, s} \subseteq online'
                              /\ trade'[r].state # "NONE"
                              /\ trade'[r].item # NULL \/ trade'[s].item # NULL
                              /\ trade'[r].state = "INITIATED" => trade'[r].item # NULL
                              /\ trade'[r].state = "ACKNOWLEDGE" => trade'[r].item = NULL
    BY DEF Agreement
  <2>1. CASE trade[r].partner = NULL
    <3>1. r # p
      BY <2>1 DEF MayAccept
    <3> QED BY <1>3, <2>1, <3>1 DEF IInv, Agreement
  <2>2. CASE trade[r].partner # NULL
    <3>1. trade[r].partner \in Players
      BY <2>2 DEF IInv, TypeOK
    <3> QED BY <1>3, <2>2, <3>1 DEF IInv, Agreement
  <2> QED BY <2>1, <2>2
<1>5. OffersAreListed'
  <2>1. Offers(Players)' = Offers(Players)
    BY <1>3 DEF Offers
  <2> QED BY <1>3, <2>1 DEF IInv, OffersAreListed
<1> QED BY <1>2, <1>4, <1>5

\* A thing is only put where things may be.
LEMMA MovesTypes ==
  ASSUME NEW f \in [Things -> Places], NEW i, NEW q \in Players, NEW g \in Moves(i, q, f)
  PROVE  g \in [Things -> Places]
BY DEF Moves, Into, Places

\* What a bargain hands over ends up in a legal place.
LEMMA HandedTypes ==
  ASSUME TypeOK, NEW p \in Players, NEW q \in Players,
         NEW i \in Items, NEW j \in Items
  PROVE  HandedOver(j, p, HandedOver(i, q, owner)) \in [Houses -> Players \cup {NULL}]
<1>1. ASSUME NEW f \in [Houses -> Players \cup {NULL}], NEW k \in Items, NEW r \in Players
      PROVE  HandedOver(k, r, f) \in [Houses -> Players \cup {NULL}]
  BY DEF HandedOver
<1> QED BY <1>1 DEF TypeOK

\* At the start nobody trades.
LEMMA InvInit == Init => IInv
<1> SUFFICES ASSUME Init PROVE IInv
  OBVIOUS
<1>1. \A p \in Players : trade[p] = Idle
  BY DEF Init
<1>2. TypeOK
  <2>1. Idle \in [state : States, partner : Players \cup {NULL}, item : Items \cup {NULL}]
    BY DEF Idle, States
  <2> QED BY <2>1 DEF Init, TypeOK, Places
<1>3. Agreement
  BY <1>1 DEF Agreement, Idle
<1>4. OffersAreListed
  <2>1. Offers(Players) = {}
    BY <1>1 DEF Offers, Idle
  <2>2. NULL \notin Docs
    BY TradeAssumption DEF TradeAssumption, Items
  <2> QED BY <1>1, <2>1, <2>2 DEF OffersAreListed, Idle, Init
<1> QED BY <1>2, <1>3, <1>4 DEF IInv

\* Every task keeps the invariant.
LEMMA InvNext == IInv /\ [Next]_vars => IInv'
<1> SUFFICES ASSUME IInv, [Next]_vars PROVE IInv'
  OBVIOUS
<1> USE DEF IInv
<1>1. ASSUME NEW p \in Players, CloseTrade(p) PROVE IInv'
  <2>1. Closed(UNION {Parties(q) : q \in {p}})
    BY PartiesClosed
  <2>2. TradeTypes' /\ tradeItems' \subseteq Items /\ docs' \subseteq Docs /\ Agreement' /\ OffersAreListed'
    BY <1>1, <2>1, ReleaseKeeps DEF CloseTrade, Close
  <2> QED BY <1>1, <2>2 DEF CloseTrade, TypeOK, TradeTypes
<1>2. ASSUME NEW p \in Players, Leave(p) PROVE IInv'
  <2>1. CASE trade[p].partner # NULL
    <3>1. Closed(UNION {Parties(q) : q \in {p}})
      BY PartiesClosed
    <3>2. online \ UNION {Parties(q) : q \in {p}} \subseteq online'
      BY <1>2 DEF Leave, Parties
    <3>3. TradeTypes' /\ tradeItems' \subseteq Items /\ docs' \subseteq Docs /\ Agreement' /\ OffersAreListed'
      BY <1>2, <2>1, <3>1, <3>2, ReleaseKeeps DEF Leave, Close
    <3> QED BY <1>2, <3>3 DEF Leave, TypeOK, TradeTypes
  <2>2. CASE trade[p].partner = NULL
    <3>1. UNCHANGED <<trade, tradeItems, docs, parent, owner>> /\ online' = online \ {p}
      BY <1>2, <2>2 DEF Leave
    <3>2. ASSUME NEW q \in Players, trade[q].partner # NULL
          PROVE  q # p /\ trade[q].partner # p
      BY <2>2, <3>2, TradeAssumption DEF Agreement, TradeAssumption
    <3>3. Agreement'
      BY <3>1, <3>2 DEF Agreement, Idle
    <3> QED BY <3>1, <3>3 DEF TypeOK, OffersAreListed, Offers
  <2> QED BY <2>1, <2>2
<1>3. ASSUME NEW p \in Players, Enter(p) PROVE IInv'
  <2>1. trade[p] = Idle
    BY <1>3 DEF Enter, Agreement
  <2>2. trade' = trade
    BY <1>3, <2>1 DEF Enter, TypeOK
  <2> QED BY <1>3, <2>2 DEF Enter, TypeOK, Agreement, OffersAreListed, Offers
<1>4. ASSUME NEW p \in Players, AcceptFirst(p) \/ AcceptDenied(p) PROVE IInv'
  BY <1>4, AcceptKeeps DEF AcceptFirst, AcceptDenied, TypeOK, TradeTypes
<1>5. ASSUME NEW p \in Players, AcceptFails(p) \/ AcceptLast(p) PROVE IInv'
  <2> DEFINE q == trade[p].partner
             Q == {p} \cup Onlookers({trade[p].item, trade[q].item})
  <2>1. q \in Players /\ q # p /\ trade[q].partner = p
    BY <1>5 DEF AcceptFails, AcceptLast, MayAccept, TypeOK, Agreement
  <2>2. Closed({p, q}) /\ Closed(UNION {Parties(r) : r \in Q})
    <3>1. Q \subseteq Players
      BY DEF TypeOK, Onlookers
    <3>2. Closed(UNION {Parties(r) : r \in Q})
      BY <3>1, PartiesClosed
    <3> QED BY <2>1, <3>2 DEF Closed
  <2>3. online' = online /\ (Release({p, q}) \/ Release(UNION {Parties(r) : r \in Q}))
    BY <1>5 DEF AcceptFails, AcceptLast, Close
  <2> HIDE DEF Q
  <2>4. TradeTypes' /\ tradeItems' \subseteq Items /\ docs' \subseteq Docs /\ Agreement' /\ OffersAreListed'
    BY <2>2, <2>3, ReleaseKeeps
  <2>5. parent' \in [Things -> Places] /\ owner' \in [Houses -> Players \cup {NULL}]
    <3>1. CASE AcceptFails(p)
      BY <3>1 DEF AcceptFails, TypeOK
    <3>2. CASE AcceptLast(p)
      <4>1. trade[p].item \in Items /\ trade[q].item \in Items
        BY <2>1, <3>2 DEF AcceptLast, TypeOK
      <4>2. parent' \in [Things -> Places]
        BY <2>1, <3>2, MovesTypes DEF AcceptLast, TypeOK
      <4> QED BY <2>1, <3>2, <4>1, <4>2, HandedTypes DEF AcceptLast
    <3> QED BY <1>5, <3>1, <3>2
  <2> QED BY <2>3, <2>4, <2>5 DEF TypeOK, TradeTypes
<1>6. ASSUME NEW p \in Players, NEW i \in Things, NEW to \in Places, MoveThing(p, i, to)
      PROVE  IInv'
  <2> DEFINE Q == {q \in online : Disturbs(trade[q].item, i, to)}
  <2>1. Closed(UNION {Parties(q) : q \in Q})
    <3>1. Q \subseteq Players
      BY DEF TypeOK
    <3> QED BY <3>1, PartiesClosed
  <2>2. TradeTypes' /\ tradeItems' \subseteq Items /\ docs' \subseteq Docs /\ Agreement' /\ OffersAreListed'
    BY <1>6, <2>1, ReleaseKeeps DEF MoveThing, Close
  <2>3. parent' \in [Things -> Places]
    BY <1>6 DEF MoveThing, TypeOK
  <2> QED BY <1>6, <2>2, <2>3 DEF MoveThing, TypeOK, TradeTypes
<1>7. ASSUME NEW p \in Players, NEW q \in Players, NEW i \in Things, RequestTrade(p, q, i)
      PROVE  IInv'
  <2>1. i \in Items /\ i \notin Docs /\ i \notin tradeItems
    BY <1>7, TradeAssumption DEF RequestTrade, NotInTrade, Items, TradeAssumption
  <2>2. TradeTypes' /\ tradeItems' \subseteq Items /\ docs' \subseteq Docs /\ Agreement' /\ OffersAreListed'
    BY <1>7, <2>1, StartKeeps DEF RequestTrade
  <2> QED BY <1>7, <2>2 DEF RequestTrade, TypeOK, TradeTypes
<1>8. ASSUME NEW p \in Players, NEW q \in Players, NEW h \in Houses, SellHouse(p, q, h)
      PROVE  IInv'
  <2> DEFINE d == <<p, h>>
  <2>1. d \in Docs /\ d \in Items /\ d[1] = p
    BY DEF Docs, Items
  <2>2. trade[p].item = NULL
    BY <1>8 DEF SellHouse, StartTrade, MayStart, Agreement, Idle
  <2>3. d \notin tradeItems
    BY <2>1, <2>2, TradeAssumption DEF OffersAreListed, Offers, TradeAssumption
  <2>4. TradeTypes' /\ tradeItems' \subseteq Items /\ docs' \subseteq Docs /\ Agreement' /\ OffersAreListed'
    BY <1>8, <2>1, <2>3, StartKeeps DEF SellHouse
  <2> QED BY <1>8, <2>4 DEF SellHouse, TypeOK, TradeTypes
<1>9. ASSUME NEW p \in Players, NEW h \in Houses, BuyHouse(p, h) PROVE IInv'
  BY <1>9 DEF BuyHouse, TypeOK, Agreement, OffersAreListed, Offers
<1>10. ASSUME NEW h \in Houses, LoseHouse(h) PROVE IInv'
  BY <1>10 DEF LoseHouse, TypeOK, Agreement, OffersAreListed, Offers
<1>11. CASE UNCHANGED vars
  BY <1>11 DEF vars, TypeOK, Agreement, OffersAreListed, Offers
<1> QED
  BY <1>1, <1>2, <1>3, <1>4, <1>5, <1>6, <1>7, <1>8, <1>9, <1>10, <1>11 DEF Next

\* The types hold and both sides of every trade agree on it, in every reachable
\* state: no interleaving of requests, acceptances and refusals separates them.
THEOREM TradeAgreed == Spec => [](TypeOK /\ Agreement)
<1>1. IInv => TypeOK /\ Agreement
  BY DEF IInv
<1> QED BY InvInit, InvNext, <1>1, PTL DEF Spec

\* Game::tradeItems holds exactly the items on offer, each is offered once, and a
\* transfer document dies with its trade.
THEOREM OffersListed == Spec => []OffersAreListed
<1>1. IInv => OffersAreListed
  BY DEF IInv
<1> QED BY InvInit, InvNext, <1>1, PTL DEF Spec

\* The offer a player has accepted is not replaced while the trade lasts.
THEOREM OffersAreKept == Spec => NoSwitch
<1> DEFINE Kept == \A p \in Players :
             LET q == trade[p].partner
             IN  trade[p].state = "ACCEPT" /\ trade'[p].partner = q /\ trade[q].item # NULL =>
                   trade'[q].item = trade[q].item
<1>1. IInv /\ IInv' /\ [Next]_vars => [Kept]_vars
  <2> SUFFICES ASSUME IInv, IInv', Next, NEW p \in Players,
                      trade[p].state = "ACCEPT",
                      trade'[p].partner = trade[p].partner,
                      trade[trade[p].partner].item # NULL
               PROVE  trade'[trade[p].partner].item = trade[trade[p].partner].item
    BY DEF vars
  <2> DEFINE q == trade[p].partner
  <2>1. q \in Players /\ q # p /\ trade[q].partner = p /\ trade[p] # Idle
    BY DEF IInv, TypeOK, Agreement, Idle
  <2>2. trade'[q].partner = p
    <3>1. trade'[p].partner # NULL
      BY <2>1, TradeAssumption DEF TradeAssumption
    <3> QED BY <3>1 DEF IInv, Agreement
  <2>3. ASSUME NEW P, Release(P) PROVE trade'[q] = trade[q]
    BY <2>1, <2>2, <2>3, TradeAssumption DEF Release, Idle, TradeAssumption
  <2>4. ASSUME NEW r \in Players, SetAccept(r) PROVE trade'[q].item = trade[q].item
    BY <2>1, <2>4 DEF SetAccept, IInv, TypeOK
  <2>5. ASSUME NEW r \in Players, NEW s \in Players, NEW i \in Items, r # s, StartTrade(r, s, i)
        PROVE  trade'[q].item = trade[q].item
    <3>1. r # q
      BY <2>1, <2>5 DEF StartTrade, MayStart, IInv, Agreement, Idle
    <3> QED BY <2>1, <2>5, <3>1 DEF StartTrade, IInv, TypeOK
  <2>6. ASSUME NEW r \in Players, Enter(r) PROVE trade'[q] = trade[q]
    <3>1. r # q
      BY <2>1, <2>6, TradeAssumption DEF Enter, IInv, Agreement, TradeAssumption
    <3> QED BY <2>1, <2>6, <3>1 DEF Enter, IInv, TypeOK
  <2>7. ASSUME NEW r \in Players, Leave(r) PROVE trade'[q] = trade[q]
    BY <2>3, <2>7 DEF Leave, Close
  <2>8. ASSUME NEW r \in Players, NEW i \in Things, NEW t \in Players, RequestTrade(r, t, i)
        PROVE  trade'[q].item = trade[q].item
    BY <2>5, <2>8 DEF RequestTrade, Items
  <2>9. ASSUME NEW r \in Players, NEW t \in Players, NEW h \in Houses, SellHouse(r, t, h)
        PROVE  trade'[q].item = trade[q].item
    <3>1. <<r, h>> \in Items
      BY DEF Items, Docs
    <3> QED BY <2>5, <2>9, <3>1 DEF SellHouse
  <2> QED BY <2>3, <2>4, <2>6, <2>7, <2>8, <2>9
      DEF Next, CloseTrade, Close, MoveThing, AcceptFirst, AcceptDenied, AcceptFails,
          AcceptLast, BuyHouse, LoseHouse
<1> QED BY InvInit, InvNext, <1>1, PTL DEF Spec, NoSwitch

----------------------------------------------------------------------------
(* Bargain, for any depth of nested containers.                            *)
(*                                                                         *)
(* Containers are never within themselves, which Acyclic says with sets,   *)
(* so that a set takes the place of an induction.  The first part gives    *)
(* what is around a thing without recursion, as the least set that is      *)
(* closed under "is in", and says what moving one thing does to it.  The   *)
(* second part adds to the invariant that no offer is within another one,  *)
(* and that an offer is where its player reaches it.                       *)


Nestings == [Things -> Places]

\* S holds the bag d is in, and with every bag the one that bag is in.
Covers(f, d, S) ==
  /\ f[d] \in Bags => f[d] \in S
  /\ \A b \in S : f[b] \in Bags => f[b] \in S

Enclosing(f, i) == {b \in Bags : \A S \in SUBSET Bags : Covers(f, i, S) => b \in S}

Acyclic(f) == \A S \in SUBSET Bags : S # {} => \E b \in S : f[b] \notin S

\* Around and Top of Trade, for any nesting.
AroundIn(f) ==
  CHOOSE A : A = [i \in Things |-> IF f[i] \in Bags THEN {f[i]} \cup A[f[i]] ELSE {}]

TopIn(f, i) == CHOOSE x \in {f[i]} \cup {f[j] : j \in AroundIn(f)[i]} : x \notin Bags

\* They are those of Trade, before and after a step.
LEMMA AroundIs == Around = AroundIn(parent) /\ Around' = AroundIn(parent')
BY DEF Around, AroundIn

\* The same for Top.
LEMMA TopIs == \A i : Top(i) = TopIn(parent, i) /\ Top(i)' = TopIn(parent', i)
BY AroundIs DEF Top, TopIn

----------------------------------------------------------------------------
(* What is around a thing                                                  *)

\* The least set that covers a thing covers it.
LEMMA EnclosingCovers ==
  ASSUME NEW f, NEW i
  PROVE  Covers(f, i, Enclosing(f, i)) /\ Enclosing(f, i) \subseteq Bags
BY DEF Covers, Enclosing

\* Every set that covers a thing holds all that is around it.
LEMMA EnclosingLeast ==
  ASSUME NEW f, NEW i, NEW S \in SUBSET Bags, Covers(f, i, S)
  PROVE  Enclosing(f, i) \subseteq S
BY DEF Enclosing

\* Around a thing are the bag it is in and what is around that bag.
LEMMA EnclosingUnfolds ==
  ASSUME NEW f, NEW i
  PROVE  Enclosing(f, i) = IF f[i] \in Bags THEN {f[i]} \cup Enclosing(f, f[i]) ELSE {}
<1>1. CASE f[i] \notin Bags
  <2>1. Covers(f, i, {})
    BY <1>1 DEF Covers
  <2> QED BY <1>1, <2>1, EnclosingLeast
<1>2. CASE f[i] \in Bags
  <2> DEFINE T == {f[i]} \cup Enclosing(f, f[i])
  <2>1. Covers(f, i, T) /\ T \in SUBSET Bags
    BY <1>2, EnclosingCovers DEF Covers
  <2>2. Enclosing(f, i) \subseteq T
    BY <2>1, EnclosingLeast
  <2>3. Covers(f, f[i], Enclosing(f, i)) /\ f[i] \in Enclosing(f, i)
    BY <1>2, EnclosingCovers DEF Covers
  <2>4. Enclosing(f, f[i]) \subseteq Enclosing(f, i)
    BY <2>3, EnclosingLeast, EnclosingCovers
  <2> QED BY <1>2, <2>2, <2>3, <2>4
<1> QED BY <1>1, <1>2

\* So the recursive function of Trade exists.
LEMMA AroundUnfolds ==
  ASSUME NEW f \in Nestings
  PROVE  AroundIn(f) = [i \in Things |-> IF f[i] \in Bags
                                         THEN {f[i]} \cup AroundIn(f)[f[i]] ELSE {}]
<1> DEFINE E == [i \in Things |-> Enclosing(f, i)]
<1>1. \A i \in Things : E[i] = IF f[i] \in Bags THEN {f[i]} \cup E[f[i]] ELSE {}
  <2> SUFFICES ASSUME NEW i \in Things
               PROVE  E[i] = IF f[i] \in Bags THEN {f[i]} \cup E[f[i]] ELSE {}
    OBVIOUS
  <2>1. f[i] \in Bags => E[f[i]] = Enclosing(f, f[i])
    BY TradeAssumption DEF TradeAssumption
  <2> QED BY <2>1, EnclosingUnfolds
<1>2. E = [i \in Things |-> IF f[i] \in Bags THEN {f[i]} \cup E[f[i]] ELSE {}]
  <2> DEFINE G == [i \in Things |-> IF f[i] \in Bags THEN {f[i]} \cup E[f[i]] ELSE {}]
  <2>1. \A i \in Things : E[i] = G[i]
    BY <1>1
  <2>2. E = [i \in Things |-> E[i]] /\ G = [i \in Things |-> G[i]]
    OBVIOUS
  <2> HIDE DEF E, G
  <2>3. E = G
    BY <2>1, <2>2
  <2> QED BY <2>3 DEF G
<1> HIDE DEF E
<1> QED BY <1>2 DEF AroundIn

\* It is the least covering set.
LEMMA AroundIsEnclosing ==
  ASSUME NEW f \in Nestings, Acyclic(f), NEW i \in Things
  PROVE  AroundIn(f)[i] = Enclosing(f, i)
<1>1. \A d \in Things : AroundIn(f)[d] = IF f[d] \in Bags
                                         THEN {f[d]} \cup AroundIn(f)[f[d]] ELSE {}
  BY AroundUnfolds
<1> DEFINE S == {b \in Bags : AroundIn(f)[b] # Enclosing(f, b)}
<1>2. Bags \subseteq Things
  BY TradeAssumption DEF TradeAssumption
<1>3. S = {}
  <2> SUFFICES ASSUME S # {} PROVE FALSE
    OBVIOUS
  <2>1. PICK b \in S : f[b] \notin S
    BY DEF Acyclic
  <2>2. AroundIn(f)[b] = Enclosing(f, b)
    BY <1>1, <1>2, <2>1, EnclosingUnfolds
  <2> QED BY <2>1, <2>2
<1>4. f[i] \in Bags => AroundIn(f)[f[i]] = Enclosing(f, f[i])
  BY <1>3
<1> QED BY <1>1, <1>4, EnclosingUnfolds

\* Around is transitive.
LEMMA EnclosingTransitive ==
  ASSUME NEW f, NEW i, NEW j \in Enclosing(f, i)
  PROVE  Enclosing(f, j) \subseteq Enclosing(f, i)
<1>1. Covers(f, j, Enclosing(f, i))
  BY EnclosingCovers DEF Covers
<1> QED BY <1>1, EnclosingCovers, EnclosingLeast

\* No thing is around itself.
LEMMA NotAroundItself ==
  ASSUME NEW f, Acyclic(f), NEW i
  PROVE  i \notin Enclosing(f, i)
<1> SUFFICES ASSUME i \in Enclosing(f, i) PROVE FALSE
  OBVIOUS
<1> DEFINE S == {b \in Enclosing(f, i) : i \in Enclosing(f, b)}
<1>1. S \in SUBSET Bags /\ i \in S
  BY EnclosingCovers
<1>2. ASSUME NEW b \in S PROVE f[b] \in S
  <2>1. f[b] \in Bags /\ (i = f[b] \/ i \in Enclosing(f, f[b]))
    BY <1>2, EnclosingUnfolds
  <2>2. f[b] \in Enclosing(f, i)
    BY <1>2, <2>1, EnclosingCovers DEF Covers
  <2> QED BY <2>1, <2>2
<1> QED BY <1>1, <1>2 DEF Acyclic

\* Of two bags around a thing, one is around the other.
LEMMA EnclosingIsChain ==
  ASSUME NEW f, NEW k, NEW x \in Enclosing(f, k), NEW y \in Enclosing(f, k)
  PROVE  y = x \/ x \in Enclosing(f, y) \/ y \in Enclosing(f, x)
<1> DEFINE S == {b \in Bags : b = x \/ x \in Enclosing(f, b) \/ b \in Enclosing(f, x)}
<1>1. ASSUME NEW d, x \in Enclosing(f, d), f[d] \in Bags PROVE f[d] \in S
  BY <1>1, EnclosingUnfolds
<1>2. ASSUME NEW d, d = x \/ d \in Enclosing(f, x), f[d] \in Bags PROVE f[d] \in S
  BY <1>2, EnclosingCovers DEF Covers
<1>3. Covers(f, k, S)
  BY <1>1, <1>2 DEF Covers
<1> QED BY <1>3, EnclosingLeast

----------------------------------------------------------------------------
(* Where a thing is at the top                                             *)

Tops(f, i) == {f[i]} \cup {f[j] : j \in Enclosing(f, i)}

\* Top chooses among these.
LEMMA TopIsChosen ==
  ASSUME NEW f \in Nestings, Acyclic(f), NEW i \in Things
  PROVE  TopIn(f, i) = CHOOSE x \in Tops(f, i) : x \notin Bags
BY AroundIsEnclosing DEF TopIn, Tops

\* The top of a thing is where the bag it is in has its own.
LEMMA TopUnfolds ==
  ASSUME NEW f \in Nestings, Acyclic(f), NEW i \in Things
  PROVE  TopIn(f, i) = IF f[i] \in Bags THEN TopIn(f, f[i]) ELSE f[i]
<1>1. CASE f[i] \notin Bags
  <2>1. Tops(f, i) = {f[i]}
    BY <1>1, EnclosingUnfolds DEF Tops
  <2> QED BY <1>1, <2>1, TopIsChosen
<1>2. CASE f[i] \in Bags
  <2>1. Tops(f, i) = {f[i]} \cup Tops(f, f[i])
    BY <1>2, EnclosingUnfolds DEF Tops
  <2>2. \A x : x \in Tops(f, i) /\ x \notin Bags <=> x \in Tops(f, f[i]) /\ x \notin Bags
    BY <1>2, <2>1
  <2>3. (CHOOSE x \in Tops(f, i) : x \notin Bags) = (CHOOSE x \in Tops(f, f[i]) : x \notin Bags)
    BY <2>2
  <2>4. f[i] \in Things
    BY <1>2, TradeAssumption DEF TradeAssumption
  <2> QED BY <1>2, <2>3, <2>4, TopIsChosen
<1> QED BY <1>1, <1>2

\* The bags around a thing are at the same top.
LEMMA TopOfEnclosing ==
  ASSUME NEW f \in Nestings, Acyclic(f), NEW i \in Things, NEW j \in Enclosing(f, i)
  PROVE  TopIn(f, i) = TopIn(f, j)
<1> DEFINE S == {b \in Bags : TopIn(f, b) = TopIn(f, i)}
<1>1. Bags \subseteq Things
  BY TradeAssumption DEF TradeAssumption
<1>2. f[i] \in Bags => f[i] \in S
  BY TopUnfolds
<1>3. ASSUME NEW b \in S, f[b] \in Bags PROVE f[b] \in S
  <2>1. TopIn(f, b) = TopIn(f, f[b])
    BY <1>1, <1>3, TopUnfolds
  <2> QED BY <1>3, <2>1
<1>4. Covers(f, i, S)
  BY <1>2, <1>3 DEF Covers
<1> QED BY <1>4, EnclosingLeast

----------------------------------------------------------------------------
(* Moving one thing                                                        *)

Affects(f, m, k) == k = m \/ m \in Enclosing(f, k)

\* A thing may be put where it is not itself.
LEMMA MoveIsAcyclic ==
  ASSUME NEW f \in Nestings, Acyclic(f), NEW m \in Things, NEW t \in Places,
         t \in Bags => ~Affects(f, m, t)
  PROVE  LET g == [f EXCEPT ![m] = t] IN g \in Nestings /\ Acyclic(g)
<1> DEFINE g == [f EXCEPT ![m] = t]
<1>1. g \in Nestings /\ g[m] = t /\ \A b \in Things \ {m} : g[b] = f[b]
  BY DEF Nestings
<1> HIDE DEF g
<1>2. Bags \subseteq Things
  BY TradeAssumption DEF TradeAssumption
<1>3. ASSUME NEW S \in SUBSET Bags, S # {}, \A b \in S : g[b] \in S PROVE FALSE
  <2>1. CASE m \notin S
    BY <1>1, <1>2, <1>3, <2>1 DEF Acyclic
  <2>2. CASE m \in S
    <3> DEFINE T == {b \in S : b = t \/ b \in Enclosing(f, t)}
    <3>1. t \in T /\ T \in SUBSET Bags
      BY <1>1, <1>3, <2>2
    <3>2. m \notin T
      BY <3>1 DEF Affects
    <3>3. ASSUME NEW b \in T PROVE f[b] \in T
      <4>1. f[b] = g[b] /\ f[b] \in S
        BY <1>1, <1>2, <1>3, <3>2, <3>3
      <4>2. f[b] \in Enclosing(f, t)
        BY <3>3, <4>1, EnclosingCovers DEF Covers
      <4> QED BY <4>1, <4>2
    <3> QED BY <3>1, <3>3 DEF Acyclic
  <2> QED BY <2>1, <2>2
<1> QED BY <1>1, <1>3 DEF Acyclic, g

\* What is not in the thing that moves stays where it is.
LEMMA UnaffectedStays ==
  ASSUME NEW f \in Nestings, Acyclic(f), NEW g \in Nestings, Acyclic(g), NEW m \in Things,
         \A b \in Things \ {m} : g[b] = f[b],
         NEW k \in Things, ~Affects(f, m, k)
  PROVE  Enclosing(g, k) = Enclosing(f, k) /\ TopIn(g, k) = TopIn(f, k)
<1>1. g[k] = f[k] /\ \A j \in Enclosing(f, k) : g[j] = f[j]
  BY EnclosingCovers, TradeAssumption DEF Affects, TradeAssumption
<1>2. Enclosing(g, k) \subseteq Enclosing(f, k)
  <2>1. Covers(g, k, Enclosing(f, k))
    BY <1>1, EnclosingCovers DEF Covers
  <2> QED BY <2>1, EnclosingCovers, EnclosingLeast
<1>3. Enclosing(f, k) \subseteq Enclosing(g, k)
  <2>1. Covers(f, k, Enclosing(g, k))
    BY <1>1, <1>2, EnclosingCovers DEF Covers
  <2> QED BY <2>1, EnclosingCovers, EnclosingLeast
<1>4. Tops(g, k) = Tops(f, k)
  BY <1>1, <1>2, <1>3 DEF Tops
<1> QED BY <1>2, <1>3, <1>4, TopIsChosen

\* What is in the thing that moves comes along.
LEMMA AffectedComesAlong ==
  ASSUME NEW f \in Nestings, Acyclic(f), NEW g \in Nestings, Acyclic(g), NEW m \in Things,
         \A b \in Things \ {m} : g[b] = f[b],
         NEW k \in Things, Affects(f, m, k)
  PROVE  /\ Affects(g, m, k)
         /\ TopIn(f, k) = TopIn(f, m)
         /\ TopIn(g, k) = TopIn(g, m)
<1>1. CASE k = m
  BY <1>1 DEF Affects
<1>2. CASE k # m
  <2>1. m \in Enclosing(f, k)
    BY <1>2 DEF Affects
  <2>2. m \in Enclosing(g, k)
    <3> SUFFICES ASSUME m \notin Enclosing(g, k) PROVE FALSE
      OBVIOUS
    <3>1. Covers(f, k, Enclosing(g, k))
      BY <1>2, EnclosingCovers, TradeAssumption DEF Covers, TradeAssumption
    <3> QED BY <2>1, <3>1, EnclosingCovers, EnclosingLeast
  <2> QED BY <2>1, <2>2, TopOfEnclosing DEF Affects
<1> QED BY <1>1, <1>2

----------------------------------------------------------------------------
(* The invariant                                                           *)

\* No offer of T is in another one.
ApartIn(f, T) == \A x, y \in T \cap Things : x \notin Enclosing(f, y)

\* What a player offers he carries, or it lies on the ground.
HeldIn(f, tr) ==
  \A p \in Players : tr[p].item \in Things => TopIn(f, tr[p].item) \in {p, Ground}

BInv ==
  /\ IInv
  /\ Acyclic(parent)
  /\ ApartIn(parent, tradeItems)
  /\ HeldIn(parent, trade)

\* Of BInv, what has to be shown in addition to InvNext.
BNext ==
  /\ Acyclic(parent')
  /\ ApartIn(parent', tradeItems')
  /\ HeldIn(parent', trade')

\* The rest of the assumptions, as they are used here.
LEMMA PlacesDiffer ==
  /\ Bags \subseteq Things
  /\ \A p \in Players : p \notin Bags /\ p # Ground /\ p \in Places
  /\ Ground \notin Bags
  /\ NULL \notin Things /\ \A d \in Docs : d \notin Things
BY TradeAssumption DEF TradeAssumption, Items, Places

\* isHoldingItem asks what is around a thing.
LEMMA HoldsIsEnclosing ==
  ASSUME TypeOK, Acyclic(parent), NEW i \in Things, NEW j \in Things
  PROVE  Holds(i, j) <=> i \in Enclosing(parent, j)
<1>1. Around[j] = Enclosing(parent, j)
  BY AroundIs, AroundIsEnclosing DEF TypeOK, Nestings
<1> QED BY <1>1 DEF Holds

\* An offer is in tradeItems, and offered by a player in the game.
LEMMA OfferIsListed ==
  ASSUME IInv, NEW p \in Players, trade[p].item # NULL
  PROVE  /\ trade[p].item \in tradeItems
         /\ trade[p].partner \in Players
         /\ p \in online
<1>1. trade[p].item \in tradeItems
  BY DEF IInv, OffersAreListed, Offers
<1>2. trade[p] # Idle
  BY DEF Idle
<1> QED BY <1>1, <1>2 DEF IInv, Agreement, TypeOK

\* At the start no thing is in a bag.
LEMMA BInvInit == Init => BInv
<1> SUFFICES ASSUME Init PROVE BInv
  OBVIOUS
<1>1. IInv
  BY InvInit
<1>2. \A i \in Things : parent[i] \in Players \cup {Ground}
  BY DEF Init
<1>3. Acyclic(parent)
  <2> SUFFICES ASSUME NEW S \in SUBSET Bags, S # {} PROVE \E b \in S : parent[b] \notin S
    BY DEF Acyclic
  <2>1. PICK b \in S : TRUE
    OBVIOUS
  <2>2. parent[b] \notin Bags
    BY <1>2, <2>1, PlacesDiffer
  <2> QED BY <2>1, <2>2
<1>4. ApartIn(parent, tradeItems)
  BY DEF Init, ApartIn
<1>5. HeldIn(parent, trade)
  BY PlacesDiffer DEF Init, HeldIn, Idle
<1> QED BY <1>1, <1>3, <1>4, <1>5 DEF BInv

\* Trades that end, and all else that moves no thing and offers none, keep it.
LEMMA NothingOffered ==
  ASSUME BInv, parent' = parent, tradeItems' \cap Things \subseteq tradeItems,
         \A p \in Players : trade'[p].item \in Things => trade'[p].item = trade[p].item
  PROVE  BNext
<1>1. ApartIn(parent', tradeItems')
  BY DEF BInv, ApartIn
<1>2. HeldIn(parent', trade')
  BY DEF BInv, HeldIn
<1> QED BY <1>1, <1>2 DEF BInv, BNext

\* What is released was offered.
LEMMA ReleaseOffersNone ==
  ASSUME NEW P, Release(P)
  PROVE  /\ tradeItems' \subseteq tradeItems
         /\ \A p \in Players : trade'[p].item \in Things =>
              trade'[p].item = trade[p].item /\ p \notin P
BY PlacesDiffer DEF Release, Idle

\* A thing is offered by a player who reaches it, if it is in no trade.
LEMMA RequestKeeps ==
  ASSUME BInv, NEW p \in Players, NEW q \in Players, NEW i \in Things, RequestTrade(p, q, i)
  PROVE  BNext
<1>1. /\ parent' = parent /\ tradeItems' = tradeItems \cup {i}
      /\ Top(i) \in {p, Ground} /\ NotInTrade(i) /\ p # q
      /\ trade' = [trade EXCEPT
           ![p] = [state |-> "INITIATED", partner |-> q, item |-> i],
           ![q] = IF @.state = "NONE" THEN [@ EXCEPT !.state = "ACKNOWLEDGE", !.partner = p]
                  ELSE @]
  BY DEF RequestTrade, StartTrade, Reaches
<1>2. \A r \in Players : trade'[r].item = IF r = p THEN i ELSE trade[r].item
  BY <1>1 DEF BInv, IInv, TypeOK
<1>3. \A j \in tradeItems \cap Things :
        i \notin Enclosing(parent, j) /\ j \notin Enclosing(parent, i)
  BY <1>1, HoldsIsEnclosing DEF BInv, IInv, NotInTrade
<1>4. i \notin Enclosing(parent, i)
  BY NotAroundItself DEF BInv
<1>5. ApartIn(parent', tradeItems')
  BY <1>1, <1>3, <1>4 DEF BInv, ApartIn
<1>6. TopIn(parent, i) \in {p, Ground}
  BY <1>1, TopIs
<1>7. HeldIn(parent', trade')
  BY <1>1, <1>2, <1>6 DEF BInv, HeldIn
<1> QED BY <1>1, <1>5, <1>7 DEF BInv, BNext

\* A document is no thing.
LEMMA SellKeeps ==
  ASSUME BInv, NEW p \in Players, NEW q \in Players, NEW h \in Houses, SellHouse(p, q, h)
  PROVE  BNext
<1> DEFINE d == <<p, h>>
<1>1. d \notin Things
  BY PlacesDiffer DEF Docs
<1>2. /\ parent' = parent /\ tradeItems' = tradeItems \cup {d} /\ p # q
      /\ trade' = [trade EXCEPT
           ![p] = [state |-> "INITIATED", partner |-> q, item |-> d],
           ![q] = IF @.state = "NONE" THEN [@ EXCEPT !.state = "ACKNOWLEDGE", !.partner = p]
                  ELSE @]
  BY DEF SellHouse, StartTrade
<1> HIDE DEF d
<1>3. \A r \in Players : trade'[r].item = IF r = p THEN d ELSE trade[r].item
  BY <1>2 DEF BInv, IInv, TypeOK
<1> QED BY <1>1, <1>2, <1>3, NothingOffered

\* Moving a thing ends the trades of all that it is in or that is in it; the
\* thing was, and stays, where its mover reaches it.
LEMMA MoveKeeps ==
  ASSUME BInv, NEW p \in Players, NEW i \in Things, NEW to \in Places, MoveThing(p, i, to)
  PROVE  /\ BNext
         /\ \A k \in Things : \/ TopIn(parent', k) = TopIn(parent, k)
                              \/ {TopIn(parent, k), TopIn(parent', k)} \subseteq {p, Ground}
<1> DEFINE P == UNION {Parties(q) : q \in {r \in online : Disturbs(trade[r].item, i, to)}}
<1>1. /\ parent' = [parent EXCEPT ![i] = to]
      /\ Top(i) \in {p, Ground}
      /\ to \in {p, Ground} \/ (to \in Bags /\ to # i /\ ~Holds(i, to) /\ Top(to) \in {p, Ground})
      /\ Release(P)
  BY DEF MoveThing, Reaches, Close
<1>2. /\ parent \in Nestings /\ Acyclic(parent) /\ TypeOK /\ IInv
      /\ ApartIn(parent, tradeItems) /\ HeldIn(parent, trade)
  BY DEF BInv, IInv, TypeOK, Nestings
<1>3. to \in Bags => ~Affects(parent, i, to)
  BY <1>1, <1>2, PlacesDiffer, HoldsIsEnclosing DEF Affects
<1>4. parent' \in Nestings /\ Acyclic(parent')
  BY <1>1, <1>2, <1>3, MoveIsAcyclic
<1>5. parent'[i] = to /\ \A b \in Things \ {i} : parent'[b] = parent[b]
  BY <1>1, <1>2 DEF Nestings
<1>6. ASSUME NEW k \in Things, ~Affects(parent, i, k)
      PROVE  Enclosing(parent', k) = Enclosing(parent, k) /\ TopIn(parent', k) = TopIn(parent, k)
  BY <1>2, <1>4, <1>5, <1>6, UnaffectedStays
<1>7. TopIn(parent, i) \in {p, Ground} /\ (to \in Bags => TopIn(parent, to) \in {p, Ground})
  BY <1>1, TopIs, PlacesDiffer
<1>8. TopIn(parent', i) \in {p, Ground}
  <2>1. TopIn(parent', i) = IF to \in Bags THEN TopIn(parent', to) ELSE to
    BY <1>4, <1>5, TopUnfolds
  <2>2. to \in Bags => TopIn(parent', to) = TopIn(parent, to)
    BY <1>3, <1>6, PlacesDiffer
  <2>3. to \notin Bags => to \in {p, Ground}
    BY <1>1
  <2> QED BY <1>7, <2>1, <2>2, <2>3
<1>9. ASSUME NEW k \in Things
      PROVE  \/ TopIn(parent', k) = TopIn(parent, k)
             \/ {TopIn(parent, k), TopIn(parent', k)} \subseteq {p, Ground}
  <2>1. CASE Affects(parent, i, k)
    <3>1. TopIn(parent, k) = TopIn(parent, i) /\ TopIn(parent', k) = TopIn(parent', i)
      BY <1>2, <1>4, <1>5, <2>1, AffectedComesAlong
    <3> QED BY <1>7, <1>8, <3>1
  <2>2. CASE ~Affects(parent, i, k)
    BY <1>6, <2>2
  <2> QED BY <2>1, <2>2
<1>10. /\ tradeItems' \subseteq tradeItems
       /\ \A r \in Players : trade'[r].item \in Things =>
            trade'[r].item = trade[r].item /\ r \notin P
  <2> HIDE DEF P
  <2> QED BY <1>1, ReleaseOffersNone
<1>11. ASSUME NEW r \in Players, trade'[r].item \in Things
       PROVE  trade'[r].item = trade[r].item /\ ~Affects(parent, i, trade[r].item)
  <2> DEFINE x == trade[r].item
  <2>1. x \in Things /\ r \notin P /\ trade'[r].item = x
    BY <1>10, <1>11
  <2>2. r \in online
    BY <1>2, <2>1, OfferIsListed, PlacesDiffer
  <2>3. ~Disturbs(x, i, to)
    BY <2>1, <2>2 DEF Parties
  <2>4. x # i /\ ~Holds(i, x)
    BY <2>1, <2>3 DEF Disturbs
  <2> QED BY <1>2, <2>1, <2>4, HoldsIsEnclosing DEF Affects
<1>12. HeldIn(parent', trade')
  <2> SUFFICES ASSUME NEW r \in Players, trade'[r].item \in Things
               PROVE  TopIn(parent', trade'[r].item) \in {r, Ground}
    BY DEF HeldIn
  <2>1. trade'[r].item = trade[r].item /\ ~Affects(parent, i, trade[r].item)
    BY <1>11
  <2>2. TopIn(parent', trade[r].item) = TopIn(parent, trade[r].item)
    BY <1>6, <2>1
  <2> QED BY <1>2, <2>1, <2>2 DEF HeldIn
<1>13. ApartIn(parent', tradeItems')
  <2>1. ASSUME NEW y \in tradeItems' \cap Things
        PROVE  Enclosing(parent', y) = Enclosing(parent, y)
    <3>1. y \in Offers(Players)'
      BY InvNext, <1>2, <2>1 DEF Next, IInv, OffersAreListed
    <3>2. PICK r \in Players : y = trade'[r].item
      BY <3>1 DEF Offers
    <3> QED BY <1>6, <1>11, <2>1, <3>2
  <2> QED BY <1>2, <1>10, <2>1 DEF ApartIn
<1> QED BY <1>4, <1>9, <1>12, <1>13 DEF BNext

----------------------------------------------------------------------------
(* The exchange                                                            *)

\* Where something may be put that player q receives: with q, and not in the
\* item i that goes there.
Fits(f, i, q, to) ==
  \/ to = q
  \/ to \in Bags /\ TopIn(f, to) = q /\ (i \in Things => ~Affects(f, i, to))

\* An item that is moved takes along what is in it, and nothing else.
LEMMA MovesOne ==
  ASSUME NEW f \in Nestings, Acyclic(f), NEW i \in Items, NEW q \in Players,
         NEW g \in Moves(i, q, f), \A to \in Into(q) : Fits(f, i, q, to)
  PROVE  /\ g \in Nestings /\ Acyclic(g)
         /\ \A k \in Things : k # i => g[k] = f[k]
         /\ \/ g = f
            \/ /\ i \in Things /\ g[i] \in Into(q)
               /\ \A k \in Things : Affects(f, i, k) =>
                    Affects(g, i, k) /\ TopIn(f, k) = TopIn(f, i) /\ TopIn(g, k) = q
               /\ \A k \in Things : ~Affects(f, i, k) =>
                    Enclosing(g, k) = Enclosing(f, k) /\ TopIn(g, k) = TopIn(f, k)
<1>1. CASE g = f
  BY <1>1
<1>2. CASE g # f
  <2>1. PICK to \in Into(q) : i \in Things /\ g = [f EXCEPT ![i] = to]
    BY <1>2 DEF Moves
  <2>2. to \in Places /\ (to \in Bags => ~Affects(f, i, to))
    BY <2>1, PlacesDiffer DEF Fits, Into, Places
  <2>3. g \in Nestings /\ Acyclic(g)
    BY <2>1, <2>2, MoveIsAcyclic
  <2>4. g[i] = to /\ \A k \in Things \ {i} : g[k] = f[k]
    BY <2>1 DEF Nestings
  <2>5. ASSUME NEW k \in Things, ~Affects(f, i, k)
        PROVE  Enclosing(g, k) = Enclosing(f, k) /\ TopIn(g, k) = TopIn(f, k)
    BY <2>1, <2>3, <2>4, <2>5, UnaffectedStays
  <2>6. TopIn(g, i) = q
    <3>1. TopIn(g, i) = IF to \in Bags THEN TopIn(g, to) ELSE to
      BY <2>1, <2>3, <2>4, TopUnfolds
    <3>2. to \in Bags => TopIn(g, to) = q
      BY <2>1, <2>2, <2>5, PlacesDiffer DEF Fits
    <3> QED BY <2>1, <3>1, <3>2, PlacesDiffer DEF Fits
  <2>7. ASSUME NEW k \in Things, Affects(f, i, k)
        PROVE  Affects(g, i, k) /\ TopIn(f, k) = TopIn(f, i) /\ TopIn(g, k) = q
    <3>1. Affects(g, i, k) /\ TopIn(f, k) = TopIn(f, i) /\ TopIn(g, k) = TopIn(g, i)
      <4>1. i \in Things
        BY <2>1
      <4> QED BY <2>3, <2>4, <2>7, <4>1, AffectedComesAlong
    <3> QED BY <2>6, <3>1
  <2> QED BY <2>1, <2>3, <2>4, <2>5, <2>7
<1> QED BY <1>1, <1>2

\* What Bargain says of thing i, if it goes from player p to player q.
Fair(i, p, q) ==
  /\ trade[p].partner = q
  /\ "ACCEPT" \in {trade[p].state, trade[q].state}
  /\ trade[p].item = i \/ Holds(trade[p].item, i)
  /\ \E j \in Items :
       /\ trade[q].item = j
       /\ j \in Things => TopIn(parent', j) = p \/ parent'[j] = parent[j]
       /\ j \in Docs => owner'[j[2]] = p

\* As neither offer is in the other one, and neither is put into it, each takes
\* its own things along.
LEMMA AcceptLastFair ==
  ASSUME BInv, NEW a \in Players, AcceptLast(a)
  PROVE  /\ BNext
         /\ \A i \in Things, p, q \in Players :
              p # q /\ TopIn(parent, i) = p /\ TopIn(parent', i) = q => Fair(i, p, q)
<1> DEFINE b == trade[a].partner
           x == trade[a].item
           y == trade[b].item
           P == UNION {Parties(r) : r \in {a} \cup Onlookers({x, y})}
<1>1. /\ trade[b].state = "ACCEPT" /\ x # NULL /\ y # NULL /\ Release(P)
      /\ owner' = HandedOver(y, a, HandedOver(x, b, owner))
      /\ b # NULL
  BY DEF AcceptLast, MayAccept, Waits, Close
<1>2. PICK f \in Moves(x, b, parent) : parent' \in Moves(y, a, f)
  BY DEF AcceptLast
<1> DEFINE g == parent'
<1>3. /\ b \in Players /\ b # a /\ trade[b].partner = a /\ x \in Items /\ y \in Items /\ x # y
      /\ x \in tradeItems /\ y \in tradeItems /\ {a, b} \subseteq P
  <2>1. b \in Players /\ x \in Items /\ y \in Items
    BY <1>1 DEF BInv, IInv, TypeOK
  <2>2. b # a /\ trade[b].partner = a
    BY <1>1 DEF BInv, IInv, Agreement
  <2>3. x # y
    BY <1>1, <2>1, <2>2 DEF BInv, IInv, OffersAreListed
  <2>4. {a, b} \subseteq P
    BY <1>1 DEF Parties
  <2> QED BY <1>1, <2>1, <2>2, <2>3, <2>4, OfferIsListed DEF BInv
<1>4. /\ parent \in Nestings /\ Acyclic(parent) /\ TypeOK /\ IInv
      /\ ApartIn(parent, tradeItems) /\ HeldIn(parent, trade)
  BY DEF BInv, IInv, TypeOK, Nestings
<1>5. x \in Things /\ y \in Things =>
        x \notin Enclosing(parent, y) /\ y \notin Enclosing(parent, x)
  BY <1>3, <1>4 DEF ApartIn
<1>6. x \in Things => TopIn(parent, x) \in {a, Ground}
  BY <1>4 DEF HeldIn
<1>7. y \in Things => TopIn(parent, y) \in {b, Ground}
  BY <1>3, <1>4 DEF HeldIn
\* The receiver's own offer is no place for what he receives.
<1>8. ASSUME NEW q \in Players, NEW to \in Into(q)
      PROVE  \/ to = q
             \/ /\ to \in Bags /\ TopIn(parent, to) = q
                /\ trade[q].item \in Things => ~Affects(parent, trade[q].item, to)
  <2>1. CASE to \in Bags /\ Top(to) = q /\ to # trade[q].item /\ ~Holds(trade[q].item, to)
    BY <1>4, <2>1, TopIs, HoldsIsEnclosing, PlacesDiffer DEF Affects
  <2> QED BY <1>8, <2>1 DEF Into
<1> HIDE DEF g, x, y, b, P
<1>9. \A to \in Into(b) : Fits(parent, x, b, to)
  <2> SUFFICES ASSUME NEW to \in Into(b), to # b, x \in Things, Affects(parent, x, to) PROVE FALSE
    BY <1>3, <1>8 DEF Fits
  <2>1. to \in Bags /\ TopIn(parent, to) = b
    BY <1>3, <1>8
  <2>2. TopIn(parent, to) = TopIn(parent, x)
    BY <1>4, <2>1, TopOfEnclosing, PlacesDiffer DEF Affects
  <2> QED BY <1>3, <1>6, <2>1, <2>2, PlacesDiffer
<1>10. /\ f \in Nestings /\ Acyclic(f)
       /\ \A k \in Things : k # x => f[k] = parent[k]
       /\ \/ f = parent
          \/ /\ x \in Things /\ f[x] \in Into(b)
             /\ \A k \in Things : Affects(parent, x, k) =>
                  Affects(f, x, k) /\ TopIn(parent, k) = TopIn(parent, x) /\ TopIn(f, k) = b
             /\ \A k \in Things : ~Affects(parent, x, k) =>
                  Enclosing(f, k) = Enclosing(parent, k) /\ TopIn(f, k) = TopIn(parent, k)
  BY <1>2, <1>3, <1>4, <1>9, MovesOne
<1> DEFINE Goes(k) == x \in Things /\ f # parent /\ Affects(parent, x, k)
<1>11. ASSUME NEW k \in Things, ~Goes(k)
       PROVE  Enclosing(f, k) = Enclosing(parent, k) /\ TopIn(f, k) = TopIn(parent, k)
  BY <1>10, <1>11
<1>12. ASSUME NEW k \in Things, Goes(k)
       PROVE  /\ Affects(f, x, k) /\ TopIn(parent, k) = TopIn(parent, x) /\ TopIn(f, k) = b
              /\ f[x] \in Into(b)
  BY <1>10, <1>12
<1>13. y \in Things => ~Goes(y)
  BY <1>3, <1>5 DEF Affects
<1>14. \A to \in Into(a) : Fits(f, y, a, to)
  <2> SUFFICES ASSUME NEW to \in Into(a), to # a PROVE Fits(f, y, a, to)
    BY DEF Fits
  <2>1. /\ to \in Bags /\ to \in Things /\ TopIn(parent, to) = a
        /\ x \in Things => ~Affects(parent, x, to)
    BY <1>8, PlacesDiffer DEF x
  <2>2. TopIn(f, to) = a /\ Enclosing(f, to) = Enclosing(parent, to)
    BY <1>11, <2>1
  <2>3. ASSUME y \in Things, Affects(f, y, to) PROVE FALSE
    <3>1. TopIn(f, to) = TopIn(f, y)
      BY <1>10, <2>1, <2>3, TopOfEnclosing DEF Affects
    <3>2. TopIn(f, y) = TopIn(parent, y)
      BY <1>11, <1>13, <2>3
    <3> QED BY <1>3, <1>7, <2>2, <2>3, <3>1, <3>2, PlacesDiffer
  <2> QED BY <2>1, <2>2, <2>3 DEF Fits
<1>15. /\ g \in Nestings /\ Acyclic(g)
       /\ \A k \in Things : k # y => g[k] = f[k]
       /\ \/ g = f
          \/ /\ y \in Things
             /\ \A k \in Things : Affects(f, y, k) =>
                  Affects(g, y, k) /\ TopIn(f, k) = TopIn(f, y) /\ TopIn(g, k) = a
             /\ \A k \in Things : ~Affects(f, y, k) =>
                  Enclosing(g, k) = Enclosing(f, k) /\ TopIn(g, k) = TopIn(f, k)
  <2>1. g \in Moves(y, a, f)
    BY <1>2 DEF g
  <2> QED BY <1>3, <1>10, <1>14, <2>1, MovesOne
<1> DEFINE Comes(k) == y \in Things /\ g # f /\ Affects(parent, y, k)
\* Nothing is in both offers.
<1>16. ASSUME NEW k \in Things, Goes(k) PROVE ~(y \in Things /\ Affects(f, y, k))
  <2> SUFFICES ASSUME y \in Things, Affects(f, y, k) PROVE FALSE
    OBVIOUS
  <2>1. k # y /\ y \in Enclosing(f, k)
    BY <1>13, <1>16 DEF Affects
  <2>2. Enclosing(f, y) = Enclosing(parent, y) /\ x \notin Enclosing(f, y)
    BY <1>5, <1>11, <1>13, <1>16
  <2>3. y \notin Enclosing(f, x)
    <3> SUFFICES ASSUME y \in Enclosing(f, x) PROVE FALSE
      OBVIOUS
    <3>1. f[x] \in Bags /\ (y = f[x] \/ y \in Enclosing(f, f[x]))
      BY EnclosingUnfolds
    <3>2. f[x] \in Into(b) /\ f[x] \in Things /\ f[x] # b
      BY <1>3, <1>12, <1>16, <3>1, PlacesDiffer
    <3>3. ~Affects(parent, y, f[x])
      BY <1>3, <1>8, <3>2 DEF y
    <3>4. ~Goes(f[x])
      <4> SUFFICES ASSUME Goes(f[x]) PROVE FALSE
        OBVIOUS
      <4>1. Fits(parent, x, b, f[x])
        BY <1>9, <3>2
      <4> QED BY <3>2, <4>1 DEF Fits
    <3>5. Enclosing(f, f[x]) = Enclosing(parent, f[x])
      BY <1>11, <3>2, <3>4
    <3> QED BY <3>1, <3>3, <3>5 DEF Affects
  <2>4. CASE k = x
    BY <2>1, <2>3, <2>4
  <2>5. CASE k # x
    <3>1. x \in Enclosing(f, k)
      BY <1>12, <1>16, <2>5 DEF Affects
    <3> QED BY <1>3, <2>1, <2>2, <2>3, <3>1, EnclosingIsChain
  <2> QED BY <2>4, <2>5
<1>17. ASSUME NEW k \in Things, ~Goes(k), y \in Things
       PROVE  Affects(f, y, k) <=> Affects(parent, y, k)
  BY <1>11, <1>17 DEF Affects
<1>18. ASSUME NEW k \in Things, Goes(k)
       PROVE  TopIn(parent, k) \in {a, Ground} /\ TopIn(g, k) = b
  <2>1. TopIn(g, k) = TopIn(f, k)
    BY <1>15, <1>16, <1>18
  <2> QED BY <1>6, <1>12, <1>18, <2>1
<1>19. ASSUME NEW k \in Things, ~Goes(k), Comes(k)
       PROVE  TopIn(parent, k) \in {b, Ground} /\ TopIn(g, k) = a
  <2>1. Affects(f, y, k) /\ TopIn(f, k) = TopIn(parent, k)
    BY <1>11, <1>17, <1>19
  <2>2. TopIn(f, y) = TopIn(parent, y)
    BY <1>11, <1>13, <1>19
  <2> QED BY <1>7, <1>15, <1>19, <2>1, <2>2
<1>20. ASSUME NEW k \in Things, ~Goes(k), ~Comes(k)
       PROVE  Enclosing(g, k) = Enclosing(parent, k) /\ TopIn(g, k) = TopIn(parent, k)
  BY <1>11, <1>15, <1>17, <1>20
<1>21. /\ tradeItems' = tradeItems \ Offers(P)
       /\ \A r \in Players : trade'[r].item \in Things =>
            trade'[r].item = trade[r].item /\ r \notin P
  BY <1>1, ReleaseOffersNone DEF Release
<1>22. {x, y} \subseteq Offers(P)
  BY <1>1, <1>3 DEF Offers, x, y
\* What is still offered is in neither of the two.
<1>23. ASSUME NEW z \in tradeItems' \cap Things
       PROVE  Enclosing(g, z) = Enclosing(parent, z) /\ TopIn(g, z) = TopIn(parent, z)
  <2>1. z \in tradeItems /\ z # x /\ z # y
    BY <1>21, <1>22, <1>23
  <2>2. /\ x \in Things => x \notin Enclosing(parent, z)
        /\ y \in Things => y \notin Enclosing(parent, z)
    BY <1>3, <1>4, <1>23, <2>1 DEF ApartIn
  <2>3. ~Goes(z) /\ ~Comes(z)
    BY <2>1, <2>2 DEF Affects
  <2> QED BY <1>20, <1>23, <2>3
<1>24. BNext
  <2>1. ApartIn(parent', tradeItems')
    BY <1>4, <1>21, <1>23 DEF ApartIn, g
  <2>2. HeldIn(parent', trade')
    <3> SUFFICES ASSUME NEW r \in Players, trade'[r].item \in Things
                 PROVE  TopIn(parent', trade'[r].item) \in {r, Ground}
      BY DEF HeldIn
    <3>1. trade'[r].item = trade[r].item
      BY <1>21
    <3>2. trade'[r].item \in tradeItems'
      <4>1. IInv'
        BY <1>4, InvNext DEF Next
      <4> QED BY <4>1, PlacesDiffer DEF IInv, OffersAreListed, Offers
    <3> QED BY <1>4, <1>23, <3>1, <3>2 DEF HeldIn, g
  <2> QED BY <1>15, <2>1, <2>2 DEF BNext, g
\* The counter-offer goes to the giver or has not moved.
<1>25. y \in Things => TopIn(g, y) = a \/ g[y] = parent[y]
  <2>1. CASE y \in Things /\ g = f
    BY <1>3, <1>10, <2>1
  <2>2. CASE y \in Things /\ g # f
    BY <1>13, <1>19, <2>2 DEF Affects
  <2> QED BY <2>1, <2>2
<1>26. x \in Things => TopIn(g, x) = b \/ g[x] = parent[x]
  <2>1. CASE x \in Things /\ f = parent
    BY <1>3, <1>15, <2>1
  <2>2. CASE x \in Things /\ f # parent
    BY <1>18, <2>2 DEF Affects
  <2> QED BY <2>1, <2>2
<1>27. /\ y \in Docs => owner'[y[2]] = a
       /\ x \in Docs /\ y \notin Docs => owner'[x[2]] = b
  BY <1>1, <1>4 DEF HandedOver, TypeOK, Docs
<1>28. ASSUME NEW i \in Things, NEW p \in Players, NEW q \in Players,
              p # q, TopIn(parent, i) = p, TopIn(parent', i) = q
       PROVE  Fair(i, p, q)
  <2>1. TopIn(g, i) = q /\ p # Ground
    BY <1>28, PlacesDiffer DEF g
  <2>2. CASE Goes(i)
    <3>1. p = a /\ q = b
      BY <1>18, <1>28, <2>1, <2>2
    <3>2. x = i \/ Holds(x, i)
      BY <1>4, <2>2, HoldsIsEnclosing DEF Affects
    <3> QED BY <1>1, <1>3, <1>25, <1>27, <3>1, <3>2 DEF Fair, b, x, y, g
  <2>3. CASE ~Goes(i) /\ Comes(i)
    <3>1. p = b /\ q = a
      BY <1>19, <1>28, <2>1, <2>3
    <3>2. y = i \/ Holds(y, i)
      BY <1>4, <2>3, HoldsIsEnclosing DEF Affects
    <3>3. y \notin Docs
      BY <2>3, PlacesDiffer
    <3> QED BY <1>1, <1>3, <1>26, <1>27, <3>1, <3>2, <3>3 DEF Fair, b, x, y, g
  <2> QED BY <1>20, <1>28, <2>1, <2>2, <2>3
<1> QED BY <1>24, <1>28

----------------------------------------------------------------------------
(* The theorem                                                             *)

\* Every task keeps the invariant, and takes things from one player to another
\* only in a bargain.
LEMMA BargainStep ==
  ASSUME BInv, [Next]_vars
  PROVE  /\ BNext
         /\ \A i \in Things, p, q \in Players :
              p # q /\ TopIn(parent, i) = p /\ TopIn(parent', i) = q => Fair(i, p, q)
<1> DEFINE Result == /\ BNext
                     /\ \A i \in Things, p, q \in Players :
                          p # q /\ TopIn(parent, i) = p /\ TopIn(parent', i) = q => Fair(i, p, q)
<1>1. ASSUME parent' = parent, BNext PROVE Result
  BY <1>1
<1>2. ASSUME parent' = parent, NEW P, Release(P) PROVE Result
  BY <1>1, <1>2, ReleaseOffersNone, NothingOffered
<1>3. ASSUME NEW p \in Players, CloseTrade(p) PROVE Result
  BY <1>2, <1>3 DEF CloseTrade, Close
<1>4. ASSUME NEW p \in Players, Leave(p) PROVE Result
  BY <1>1, <1>2, <1>4, NothingOffered DEF Leave, Close
<1>5. ASSUME NEW p \in Players, Enter(p) PROVE Result
  <2>1. \A q \in Players : trade'[q].item \in Things => trade'[q].item = trade[q].item
    BY <1>5, PlacesDiffer DEF Enter, Idle, BInv, IInv, TypeOK
  <2> QED BY <1>1, <1>5, <2>1, NothingOffered DEF Enter
<1>6. ASSUME NEW p \in Players, AcceptFirst(p) \/ AcceptDenied(p) PROVE Result
  <2>1. \A q \in Players : trade'[q].item = trade[q].item
    BY <1>6 DEF AcceptFirst, AcceptDenied, SetAccept, BInv, IInv, TypeOK
  <2> QED BY <1>1, <1>6, <2>1, NothingOffered DEF AcceptFirst, AcceptDenied
<1>7. ASSUME NEW p \in Players, AcceptFails(p) PROVE Result
  BY <1>2, <1>7 DEF AcceptFails
<1>8. ASSUME NEW p \in Players, AcceptLast(p) PROVE Result
  BY <1>8, AcceptLastFair
<1>9. ASSUME NEW p \in Players, NEW i \in Things, NEW to \in Places, MoveThing(p, i, to)
      PROVE  Result
  BY <1>9, MoveKeeps, PlacesDiffer
<1>10. ASSUME NEW p \in Players, NEW q \in Players, NEW i \in Things, RequestTrade(p, q, i)
       PROVE  Result
  BY <1>1, <1>10, RequestKeeps DEF RequestTrade
<1>11. ASSUME NEW p \in Players, NEW q \in Players, NEW h \in Houses, SellHouse(p, q, h)
       PROVE  Result
  BY <1>1, <1>11, SellKeeps DEF SellHouse
<1>12. ASSUME NEW p \in Players, NEW h \in Houses, BuyHouse(p, h) PROVE Result
  BY <1>1, <1>12, NothingOffered DEF BuyHouse
<1>13. ASSUME NEW h \in Houses, LoseHouse(h) PROVE Result
  BY <1>1, <1>13, NothingOffered DEF LoseHouse
<1>14. CASE UNCHANGED vars
  BY <1>1, <1>14, NothingOffered DEF vars
<1> QED
  BY <1>3, <1>4, <1>5, <1>6, <1>7, <1>8, <1>9, <1>10, <1>11, <1>12, <1>13, <1>14 DEF Next

\* So the invariant holds in every reachable state.
LEMMA BInvStep == BInv /\ [Next]_vars => BInv'
BY BargainStep, InvNext DEF BInv, BNext, ApartIn, HeldIn, Acyclic

\* In whatever bags it is, and whatever trades run beside: no thing gets from
\* one player to another but by playerAcceptTrade, with or in an offer that both
\* have accepted, against the other one's offer.  That one goes to the giver (a
\* document in any case), or, if its own move is refused, nowhere at all.
THEOREM FairExchange == Spec => Bargain
<1> DEFINE Step == \A i \in Things, p, q \in Players :
             p # q /\ Top(i) = p /\ Top(i)' = q =>
               /\ trade[p].partner = q
               /\ "ACCEPT" \in {trade[p].state, trade[q].state}
               /\ trade[p].item = i \/ Holds(trade[p].item, i)
               /\ \E j \in Items :
                    /\ trade[q].item = j
                    /\ j \in Things => Top(j)' = p \/ parent'[j] = parent[j]
                    /\ j \in Docs => owner'[j[2]] = p
<1>1. BInv /\ [Next]_vars => [Step]_vars
  BY BargainStep, TopIs DEF Fair
<1> QED BY BInvInit, BInvStep, <1>1, PTL DEF Spec, Bargain
=============================================================================
