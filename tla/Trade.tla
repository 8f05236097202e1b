------------------------------- MODULE Trade -------------------------------
(***************************************************************************)
(* Safe trade between players: Game::playerRequestTrade, playerAcceptTrade *)
(* and internalCloseTrade (game.cpp), the callbacks of Player that close a *)
(* trade when an offered thing moves (player.cpp), and the sale of a house *)
(* by a transfer document (talkaction.cpp, house.cpp).                     *)
(*                                                                         *)
(* One action is one task of the dispatcher.  TRADE_TRANSFER is taken and  *)
(* left within playerAcceptTrade, so no task ever finds it.  Distances and *)
(* lines of sight are not modelled: who is too far to request or to accept *)
(* does not, and a player may walk out of range at any time.               *)
(***************************************************************************)
CONSTANTS
  NULL,
  Players,
  Things,             \* items, some of them containers
  Bags,               \* the containers among them
  Ground,             \* what lies on a tile near the players
  Houses,
  ScriptsDeny         \* may a script on "tradeaccept" deny?

\* The document by which player d[1] sells house d[2].
Docs   == Players \X Houses
Items  == Things \cup Docs
Places == Players \cup Bags \cup {Ground}

ASSUME TradeAssumption ==
  /\ NULL \notin Players \cup Items
  /\ Bags \subseteq Things
  /\ Things \cap Docs = {}
  /\ Ground \notin Players \cup Things
  /\ Players \cap Things = {}
  /\ ScriptsDeny \in BOOLEAN

VARIABLES
  online,             \* the players in the game
  trade,              \* Player::tradeState, tradePartner and tradeItem
  tradeItems,         \* Game::tradeItems: the items that are in a trade
  docs,               \* the documents that exist
  parent,             \* where a thing is
  owner               \* House::owner

vars == <<online, trade, tradeItems, docs, parent, owner>>

States == {"NONE", "INITIATED", "ACCEPT", "ACKNOWLEDGE"}

TypeOK ==
  /\ online \subseteq Players
  /\ trade \in [Players -> [state   : States,
                            partner : Players \cup {NULL},
                            item    : Items \cup {NULL}]]
  /\ tradeItems \subseteq Items
  /\ docs \subseteq Docs
  /\ parent \in [Things -> Places]
  /\ owner \in [Houses -> Players \cup {NULL}]

Idle == [state |-> "NONE", partner |-> NULL, item |-> NULL]

\* Nobody trades; things lie anywhere, each house is owned or free.
Init ==
  /\ online = Players
  /\ trade = [p \in Players |-> Idle]
  /\ tradeItems = {}
  /\ docs = {}
  /\ parent \in [Things -> Players \cup {Ground}]
  /\ owner \in [Houses -> Players \cup {NULL}]
  /\ \A g, h \in Houses : owner[g] # NULL /\ owner[g] = owner[h] => g = h

----------------------------------------------------------------------------
(* Things in containers                                                    *)

\* The containers thing i is in, the inner ones and the outer ones.
Around[i \in Things] ==
  IF parent[i] \in Bags THEN {parent[i]} \cup Around[parent[i]] ELSE {}

\* Container::isHoldingItem
Holds(i, j) == i \in Things /\ j \in Things /\ i \in Around[j]

\* The player who carries i, or the ground.
Top(i) == CHOOSE x \in {parent[i]} \cup {parent[j] : j \in Around[i]} : x \notin Bags

Reaches(p, i) == Top(i) \in {p, Ground}

----------------------------------------------------------------------------
(* Ending trades                                                           *)

\* Mutants: the trade of the partner stays open; only an offer that was not yet
\* accepted is given back.
Alone(p) == {p}
OffersOfSome(P) == {trade[q].item : q \in {r \in P : trade[r].state = "INITIATED"}} \ {NULL}

Parties(p) == {p} \cup ({trade[p].partner} \ {NULL})

Offers(P) == {trade[q].item : q \in P} \ {NULL}

\* A document dies with its trade.
Release(P) ==
  /\ trade' = [q \in Players |-> IF q \in P THEN Idle ELSE trade[q]]
  /\ tradeItems' = tradeItems \ Offers(P)
  /\ docs' = docs \ Offers(P)

\* internalCloseTrade for each player of P.
Close(P) == Release(UNION {Parties(p) : p \in P})

\* playerCloseTrade; a step out of range of the partner or of the own item.
CloseTrade(p) ==
  /\ p \in online
  /\ Close({p})
  /\ UNCHANGED <<online, parent, owner>>

\* Logout, kick or death: onCreatureDisappear.
Leave(p) ==
  /\ p \in online
  /\ online' = online \ {p}
  /\ IF trade[p].partner # NULL THEN Close({p}) ELSE UNCHANGED <<trade, tradeItems, docs>>
  /\ UNCHANGED <<parent, owner>>

Enter(p) ==
  /\ p \notin online
  /\ online' = online \cup {p}
  /\ trade' = [trade EXCEPT ![p] = Idle]
  /\ UNCHANGED <<tradeItems, docs, parent, owner>>

\* checkTradeState and its callers: does moving thing i close the trade of x?
Disturbs(x, i, to) ==
  /\ x \in Things
  /\ \/ x = i
     \/ Holds(x, i)
     \/ Holds(i, x)
     \/ to = x \/ Holds(x, to)
     \/ Holds(parent[i], x) /\ parent[x] # parent[i]

\* Player p moves thing i.
MoveThing(p, i, to) ==
  /\ p \in online
  /\ Reaches(p, i)
  /\ to \in {p, Ground} \/ (to \in Bags /\ to # i /\ ~Holds(i, to) /\ Reaches(p, to))
  /\ to # parent[i]
  /\ parent' = [parent EXCEPT ![i] = to]
  /\ Close({q \in online : Disturbs(trade[q].item, i, to)})
  /\ UNCHANGED <<online, owner>>

----------------------------------------------------------------------------
(* Starting trades                                                         *)

\* Mutant: an offer may be replaced.
MayStartAgain(p, q) ==
  /\ trade[p].state = "NONE" \/ trade[p].partner = q
  /\ trade[q].state = "NONE" \/ trade[q].partner = p

MayStart(p, q) ==
  /\ trade[p].state = "NONE" \/ (trade[p].state = "ACKNOWLEDGE" /\ trade[p].partner = q)
  /\ trade[q].state = "NONE" \/ trade[q].partner = p

\* internalStartTrade
StartTrade(p, q, i) ==
  /\ MayStart(p, q)
  /\ trade' = [trade EXCEPT
       ![p] = [state |-> "INITIATED", partner |-> q, item |-> i],
       ![q] = IF @.state = "NONE" THEN [@ EXCEPT !.state = "ACKNOWLEDGE", !.partner = p]
              ELSE @]
  /\ tradeItems' = tradeItems \cup {i}

NotInTrade(i) ==
  \A j \in tradeItems : i # j /\ ~Holds(i, j) /\ ~Holds(j, i)

\* playerRequestTrade, when the thing is within reach.
RequestTrade(p, q, i) ==
  /\ p # q
  /\ {p, q} \subseteq online
  /\ Reaches(p, i)
  /\ NotInTrade(i)
  /\ StartTrade(p, q, i)
  /\ UNCHANGED <<online, docs, parent, owner>>

HousesOf(p) == {h \in Houses : owner[h] = p}

\* houseSell; when no trade can be started the document is destroyed at once.
SellHouse(p, q, h) ==
  /\ p # q
  /\ {p, q} \subseteq online
  /\ owner[h] = p
  /\ HousesOf(q) = {}
  /\ StartTrade(p, q, <<p, h>>)
  /\ docs' = docs \cup {<<p, h>>}
  /\ UNCHANGED <<online, parent, owner>>

\* houseBuy
BuyHouse(p, h) ==
  /\ p \in online
  /\ HousesOf(p) = {}
  /\ owner[h] = NULL
  /\ owner' = [owner EXCEPT ![h] = p]
  /\ UNCHANGED <<online, trade, tradeItems, docs, parent>>

\* setOwnerEx(0): the owner leaves the house, or does not pay his rent.
LoseHouse(h) ==
  /\ owner[h] # NULL
  /\ owner' = [owner EXCEPT ![h] = NULL]
  /\ UNCHANGED <<online, trade, tradeItems, docs, parent>>

----------------------------------------------------------------------------
(* Accepting: playerAcceptTrade                                            *)

MayAccept(p) ==
  /\ p \in online
  /\ trade[p].state \in {"ACKNOWLEDGE", "INITIATED"}
  /\ trade[p].partner # NULL

SetAccept(p) == trade' = [trade EXCEPT ![p].state = "ACCEPT"]

Waits(p) == trade[trade[p].partner].state # "ACCEPT"

AcceptFirst(p) ==
  /\ MayAccept(p)
  /\ Waits(p)
  /\ SetAccept(p)
  /\ UNCHANGED <<online, tradeItems, docs, parent, owner>>

AcceptDenied(p) ==
  /\ ScriptsDeny
  /\ MayAccept(p)
  /\ ~Waits(p)
  /\ SetAccept(p)
  /\ UNCHANGED <<online, tradeItems, docs, parent, owner>>

\* Somebody offers nothing, lacks the room or the capacity, or may not take it.
AcceptFails(p) ==
  /\ MayAccept(p)
  /\ ~Waits(p)
  /\ Release({p, trade[p].partner})
  /\ UNCHANGED <<online, parent, owner>>

\* Mutant: the search for room does not skip the offer of the receiver.
IntoAny(q) == {q} \cup {b \in Bags : Top(b) = q}

\* Where room is found for what player q receives: a slot of his, or a bag that
\* he carries, but not the one he offers himself, nor one inside of it.
Into(q) == {q} \cup {b \in Bags : /\ Top(b) = q
                                  /\ b # trade[q].item
                                  /\ ~Holds(trade[q].item, b)}

\* internalMoveItem of item i to player q, whose result is not looked at: a thing
\* moves, or stays where it is when the move is refused.
Moves(i, q, places) ==
  {places} \cup (IF i \in Things THEN {[places EXCEPT ![i] = to] : to \in Into(q)} ELSE {})

\* ON_TRADE_TRANSFER: a document transfers its house, wherever it is.
HandedOver(i, q, houses) ==
  IF i \in Docs THEN [houses EXCEPT ![i[2]] = q] ELSE houses

\* The others whose trade is closed as the two things leave the bags they are in.
\* (The two players themselves are in TRADE_TRANSFER.)
Onlookers(offers) ==
  {r \in online : \E i \in offers \cap Things :
                    parent'[i] # parent[i] /\ Disturbs(trade[r].item, i, parent'[i])}

\* Both items could be added and removed, each as if the other one stayed.  Then
\* one moves after the other.
AcceptLast(p) ==
  LET q == trade[p].partner
      i == trade[p].item
      j == trade[q].item
  IN  /\ MayAccept(p)
      /\ ~Waits(p)
      /\ NULL \notin {i, j}
      /\ \E first \in Moves(i, q, parent) : parent' \in Moves(j, p, first)
      /\ owner' = HandedOver(j, p, HandedOver(i, q, owner))
      /\ Close({p} \cup Onlookers({i, j}))
      /\ UNCHANGED online

----------------------------------------------------------------------------
Next ==
  \/ \E p \in Players : \/ CloseTrade(p) \/ Leave(p) \/ Enter(p)
                        \/ AcceptFirst(p) \/ AcceptDenied(p)
                        \/ AcceptFails(p) \/ AcceptLast(p)
  \/ \E p \in Players, i \in Things, to \in Places : MoveThing(p, i, to)
  \/ \E p, q \in Players, i \in Things : RequestTrade(p, q, i)
  \/ \E p, q \in Players, h \in Houses : SellHouse(p, q, h)
  \/ \E p \in Players, h \in Houses : BuyHouse(p, h)
  \/ \E h \in Houses : LoseHouse(h)

Spec == Init /\ [][Next]_vars

----------------------------------------------------------------------------
(* Properties                                                              *)

\* Both sides of a trade agree on it: each is the other's partner and in the
\* game, somebody has made an offer, and who does not trade has none.
Agreement ==
  \A p \in Players :
    LET q == trade[p].partner
    IN  IF q = NULL THEN trade[p] = Idle
        ELSE /\ trade[q].partner = p
             /\ q # p
             /\ {p, q} \subseteq online
             /\ trade[p].state # "NONE"
             /\ trade[p].item # NULL \/ trade[q].item # NULL
             /\ trade[p].state = "INITIATED" => trade[p].item # NULL
             /\ trade[p].state = "ACKNOWLEDGE" => trade[p].item = NULL

\* Game::tradeItems holds exactly what is offered, no item is offered twice,
\* and a document exists only as an offer of its seller.
OffersAreListed ==
  /\ tradeItems = Offers(Players)
  /\ docs = tradeItems \cap Docs
  /\ \A p, q \in Players :
       trade[p].item # NULL /\ trade[p].item = trade[q].item => p = q
  /\ \A p \in Players : trade[p].item \in Docs => trade[p].item[1] = p

\* Only a bargain that both have accepted takes a thing from one player to
\* another: as part of an offer, and against an offer.  A document that is offered
\* against it always transfers its house; a thing goes to the giver or, when its
\* own move is refused, stays where it was: it is lost to nobody else.
Bargain ==
  [][\A i \in Things, p, q \in Players :
       p # q /\ Top(i) = p /\ Top(i)' = q =>
         /\ trade[p].partner = q
         /\ "ACCEPT" \in {trade[p].state, trade[q].state}
         /\ trade[p].item = i \/ Holds(trade[p].item, i)
         /\ \E j \in Items :
              /\ trade[q].item = j
              /\ j \in Things => Top(j)' = p \/ parent'[j] = parent[j]
              /\ j \in Docs => owner'[j[2]] = p]_vars

\* After a player has accepted, the counter-offer is not replaced.
NoSwitch ==
  [][\A p \in Players :
       LET q == trade[p].partner
       IN  trade[p].state = "ACCEPT" /\ trade'[p].partner = q /\ trade[q].item # NULL =>
             trade'[q].item = trade[q].item]_vars

=============================================================================
