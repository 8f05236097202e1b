------------------------------- MODULE Items -------------------------------
(***************************************************************************)
(* Items and the cylinders that hold them: Game::internalMoveItem,         *)
(* internalAddItem, internalRemoveItem, internalPlayerAddItem, addMoney    *)
(* and removeMoney of game.cpp, over the cylinder methods (__queryAdd,     *)
(* __queryMaxCount, __queryDestination, __addThing, ...) of Container,     *)
(* Player and Tile.                                                        *)
(*                                                                         *)
(* One player with some inventory slots, the tile he stands on, bags that  *)
(* may lie in each other, coins that stack, and gems that do not.  All     *)
(* items weigh 1.  Each operation is one task of the dispatcher thread and *)
(* one action here.  A method is an operator that takes a world to the     *)
(* world it leaves.                                                        *)
(***************************************************************************)
EXTENDS Integers, FiniteSets, SequencesExt

CONSTANTS Bags, Coins, Gems,
          Slots,       \* inventory slots, as positive numbers
          Fits,        \* Fits[s]: what __queryAdd lets into slot s
          Capacity,    \* [Bags -> Nat], Container::capacity
          Stack,       \* the most coins of one stack, 100 in the code
          MaxWeight,   \* Player::capacity
          Most,        \* bound: coins in the world
          Player, Tile, NoItem, Nowhere

Items == Bags \cup Coins \cup Gems
Cylinders == Bags \cup {Player, Tile}

Anywhere == -1              \* INDEX_WHEREEVER
MoveUp == 254

\* A slot of the player, his backpack's, takes bags.
ASSUME ItemsAssumption ==
    /\ IsFiniteSet(Items) /\ IsFiniteSet(Slots)
    /\ Slots \subseteq Nat \ {0}
    /\ Capacity \in [Bags -> Nat \ {0}]
    /\ Fits \in [Slots -> SUBSET Items]
    /\ Bags # {} /\ \E s \in Slots : Bags \subseteq Fits[s]
    /\ Stack \in Nat \ {0} /\ MaxWeight \in Nat /\ Most \in Nat
    /\ Bags \cap (Coins \cup Gems) = {} /\ Coins \cap Gems = {}
    /\ Player # Tile /\ {Player, Tile, Nowhere, NoItem} \cap Items = {}
    /\ Nowhere \notin {Player, Tile}

VARIABLES
    parent,       \* Thing::parent, Nowhere for an object that is not in use
    content,      \* [Bags -> Seq(Items)], Container::itemlist
    inventory,    \* [Slots -> Items \cup {NoItem}], Player::inventory
    ground,       \* Seq(Items), the down items of the tile, the top one first
    count,        \* Item::count
    totalWeight,  \* [Bags -> Nat], Container::totalWeight, of the contents
    carried,      \* Player::inventoryWeight
    given         \* ghost: coins given to the player minus those taken

vars == <<parent, content, inventory, ground, count, totalWeight, carried, given>>

World == [parent |-> parent, content |-> content, inventory |-> inventory,
          ground |-> ground, count |-> count, total |-> totalWeight,
          carried |-> carried]

Becomes(w) ==
    /\ parent' = w.parent
    /\ content' = w.content
    /\ inventory' = w.inventory
    /\ ground' = w.ground
    /\ count' = w.count
    /\ totalWeight' = w.total
    /\ carried' = w.carried

Least(a, b) == IF a < b THEN a ELSE b

-----------------------------------------------------------------------------
(* Where things are, and what they weigh *)

\* S holds c and, with a bag, the bag it lies in.
GoesUp(w, c, S) ==
    /\ c \in Bags => c \in S
    /\ \A b \in S : w.parent[b] \in Bags => w.parent[b] \in S

\* The bag c, and the bags it lies in.
Holders(w, c) == {b \in Bags : \A S \in SUBSET Bags : GoesUp(w, c, S) => b \in S}

\* getTopParent() = the player
IsPlayers(w, c) == c = Player \/ \E b \in Holders(w, c) : w.parent[b] = Player

Weight(w, i) == IF i \in Bags THEN 1 + w.total[i] ELSE w.count[i]

\* What Player::updateInventoryWeight adds up.
SlotWeight(w, s) == IF w.inventory[s] = NoItem THEN 0 ELSE Weight(w, w.inventory[s])
InventoryWeight(w) == SumFunctionOnSet([s \in Slots |-> SlotWeight(w, s)], Slots)

Updated(w) == [w EXCEPT !.carried = InventoryWeight(w)]

\* postAddNotification and postRemoveNotification: who carries c weighs again.
Notified(w, c) == IF IsPlayers(w, c) THEN Updated(w) ELSE w

\* A weight is added in cylinder c: updateItemWeight goes up through the bags.
\* Mutant: only the bag itself is told.
WeighsOne(w, c, d) ==
    [w EXCEPT !.total = [b \in Bags |-> @[b] + (IF b = c THEN d ELSE 0)]]
Weighs(w, c, d) ==
    [w EXCEPT !.total = [b \in Bags |-> @[b] + (IF b \in Holders(w, c) THEN d ELSE 0)]]

IndexOf(w, i) ==       \* __getIndexOfThing
    LET c == w.parent[i]
    IN  IF c = Player THEN CHOOSE s \in Slots : w.inventory[s] = i
        ELSE IF c \in Bags THEN (CHOOSE n \in DOMAIN w.content[c] : w.content[c][n] = i) - 1
        ELSE Anywhere

ThingAt(w, c, n) ==    \* __getThing
    IF c = Player THEN w.inventory[n]
    ELSE IF n + 1 \in DOMAIN w.content[c] THEN w.content[c][n + 1] ELSE NoItem

-----------------------------------------------------------------------------
(* The cylinder methods that change something *)

\* __updateThing: the number of coins of a stack.
UpdateThing(w, i, n) == Weighs([w EXCEPT !.count[i] = n], w.parent[i], n - w.count[i])

Taken(w, i) ==
    [w EXCEPT !.parent[i] = Nowhere,
              !.content = [b \in Bags |-> IF b = w.parent[i] THEN RemoveFirst(@[b], i) ELSE @[b]],
              !.inventory = [s \in Slots |-> IF @[s] = i THEN NoItem ELSE @[s]],
              !.ground = RemoveFirst(@, i)]

\* The coins that were taken away as a whole are released.
Released(w, i) == IF w.parent[i] = Nowhere THEN [w EXCEPT !.count[i] = 0] ELSE w

RemoveThing(w, i, n) ==
    IF i \in Coins /\ n # w.count[i] THEN UpdateThing(w, i, w.count[i] - n)
    ELSE Taken(Weighs(w, w.parent[i], - Weight(w, i)), i)

\* An index that the cylinder does not have: the item is dropped on the floor
\* of nowhere.
AddThing(w, c, n, i) ==
    IF c = Tile THEN [w EXCEPT !.parent[i] = Tile, !.ground = <<i>> \o @]
    ELSE IF c = Player
    THEN IF n \notin Slots THEN w
         ELSE [w EXCEPT !.parent[i] = Player, !.inventory[n] = i]
    ELSE IF n >= Capacity[c] THEN w
    ELSE Weighs([w EXCEPT !.parent[i] = c, !.content[c] = <<i>> \o @], c, Weight(w, i))

\* Item::CreateItem: an object that is not in use.  Which one does not matter.
Unused(w) == {i \in Coins : w.parent[i] = Nowhere}
Created(w) == CHOOSE i \in Unused(w) : TRUE
WithCount(w, i, n) == [w EXCEPT !.count[i] = n]

-----------------------------------------------------------------------------
(* The cylinder methods that ask *)

HasCapacity(w, i, n) ==
    \/ i \notin Bags /\ w.parent[i] = Player
    \/ IsPlayers(w, w.parent[i])
    \/ (IF i \in Coins THEN n ELSE Weight(w, i)) < MaxWeight - w.carried

IsFull(w, c) == Len(w.content[c]) >= Capacity[c]

\* Mutant: a bag is only kept from itself, not from the bags it holds.
QueryAddSelf(w, c, n, i, k) ==
    IF c = Tile THEN "ok"
    ELSE IF c = Player
    THEN IF n \notin Slots THEN "no"
         ELSE IF i \notin Fits[n] THEN "no"
         ELSE IF w.inventory[n] # NoItem THEN "exchange"
         ELSE IF HasCapacity(w, i, k) THEN "ok" ELSE "no"
    ELSE IF i = c \/ (n = Anywhere /\ IsFull(w, c)) THEN "no" ELSE "ok"
QueryAdd(w, c, n, i, k) ==
    IF c = Tile THEN "ok"
    ELSE IF c = Player
    THEN IF n \notin Slots THEN "no"
         ELSE IF i \notin Fits[n] THEN "no"
         ELSE IF w.inventory[n] # NoItem /\ ~(w.inventory[n] \in Coins /\ i \in Coins)
         THEN "exchange"
         ELSE IF HasCapacity(w, i, k) THEN "ok" ELSE "no"
    ELSE IF \/ i \in Holders(w, c)
            \/ n = Anywhere /\ IsFull(w, c)
            \/ IsPlayers(w, c) /\ ~HasCapacity(w, i, k)
         THEN "no" ELSE "ok"

HasRoom(w, i) == i \in Coins /\ w.count[i] < Stack

\* The room of the stacks of bag c that __queryMaxCount counts.  With an index,
\* it is the stack in front of it.
RoomOfStacks(w, c, n, i) ==
    LET room == [t \in Coins |-> Stack - w.count[t]]
        at(t) == (CHOOSE m \in DOMAIN w.content[c] : w.content[c][m] = t) - 1
        stacks == {t \in Coins : w.parent[t] = c /\ HasRoom(w, t)
                                 /\ QueryAdd(w, c, at(t), i, room[t]) = "ok"}
    IN  IF n = Anywhere THEN SumFunctionOnSet(room, stacks \ {i})
        ELSE SumFunctionOnSet(room, stacks \cap {ThingAt(w, c, n - 1)})

MaxOfBag(w, c, n, i) ==
    LET free == IF IsFull(w, c) THEN 0 ELSE Capacity[c] - Len(w.content[c])
    IN  IF i \in Coins THEN free * Stack + RoomOfStacks(w, c, n, i) ELSE free

MaxOfSlot(w, s, i) ==
    LET t == w.inventory[s]
        n == IF i \in Coins THEN Stack ELSE 1
    IN  IF t = NoItem THEN (IF QueryAdd(w, Player, s, i, w.count[i]) = "ok" THEN n ELSE 0)
        ELSE IF i \in Coins /\ HasRoom(w, t) THEN Stack - w.count[t] ELSE 0

\* The player can take what his slots and all the bags he carries can.
MaxOfPlayer(w, i) ==
    LET slot == [s \in Slots |-> IF QueryAdd(w, Player, s, i, MaxOfSlot(w, s, i)) = "ok"
                                 THEN MaxOfSlot(w, s, i) ELSE 0]
        bag == [c \in Bags |-> MaxOfBag(w, c, Anywhere, i)]
    IN  SumFunctionOnSet(slot, Slots) + SumFunctionOnSet(bag, {c \in Bags : IsPlayers(w, c)})

QueryMaxCount(w, c, n, i, k) ==
    IF c = Tile THEN k
    ELSE IF c = Player THEN (IF n = Anywhere THEN MaxOfPlayer(w, i) ELSE MaxOfSlot(w, n, i))
    ELSE MaxOfBag(w, c, n, i)

\* __queryDestination: the cylinder, the index there and the item to stack with.
To(c, n, t) == [cyl |-> c, index |-> n, item |-> t]

\* The last stack of a bag that has room, or the thing at the index.
BagDestination(w, c, n, i) ==
    LET list == w.content[c]
        stacks == {m \in DOMAIN list : HasRoom(w, list[m])}
        t == ThingAt(w, c, n)
    IN  IF n = MoveUp
        THEN To(IF w.parent[c] \in Bags THEN w.parent[c] ELSE c, Anywhere, NoItem)
        ELSE IF i \in Coins /\ w.parent[i] # c /\ stacks # {}
        THEN To(c, Max(stacks), list[Max(stacks)])
        ELSE IF n = Anywhere \/ n >= Capacity[c] THEN To(c, Anywhere, NoItem)
        ELSE IF t \in Bags THEN To(t, Anywhere, NoItem)
        ELSE To(c, n, t)

\* Somewhere on the player: a stack he may add to, or else a free place.  The
\* order in which he is searched is left open.
StacksOn(w, i) ==
    {To(Player, s, w.inventory[s]) : s \in
        {s \in Slots : /\ i \in Coins /\ HasRoom(w, w.inventory[s]) /\ w.inventory[s] # i
                       /\ QueryAdd(w, Player, s, i, w.count[i]) = "ok"}}
    \cup UNION {{To(c, m - 1, w.content[c][m]) : m \in
        {m \in DOMAIN w.content[c] :
            /\ i \in Coins /\ HasRoom(w, w.content[c][m]) /\ w.content[c][m] # i
            /\ QueryAdd(w, c, m - 1, i, w.count[i]) = "ok"}}
      : c \in {c \in Bags : IsPlayers(w, c) /\ i \notin Holders(w, c)}}

FreeOn(w, i) ==
    {To(Player, s, NoItem) : s \in
        {s \in Slots : w.inventory[s] = NoItem
                       /\ QueryAdd(w, Player, s, i, w.count[i]) = "ok"}}
    \cup {To(c, Len(w.content[c]), NoItem) : c \in
        {c \in Bags : /\ IsPlayers(w, c) /\ ~IsFull(w, c) /\ i \notin Holders(w, c)
                      /\ QueryAdd(w, c, Len(w.content[c]), i, w.count[i]) = "ok"}}

PlayerDestinations(w, n, i) ==
    IF n \in Slots
    THEN {IF w.inventory[n] \in Bags THEN To(w.inventory[n], Anywhere, NoItem)
          ELSE To(Player, n, w.inventory[n])}
    ELSE IF StacksOn(w, i) # {} THEN StacksOn(w, i)
    ELSE IF FreeOn(w, i) # {} THEN FreeOn(w, i)
    ELSE {To(Player, Anywhere, NoItem)}

QueryDestination(w, c, n, i) ==
    IF c = Tile
    THEN {To(Tile, Anywhere, IF w.ground = <<>> THEN NoItem ELSE Head(w.ground))}
    ELSE IF c = Player THEN PlayerDestinations(w, n, i)
    ELSE {BagDestination(w, c, n, i)}

\* The loop of internalMoveItem asks the cylinder it is sent to again, until it
\* is the same one; it cannot be sent through more than two others.
Again(w, d, i) ==
    IF d.cyl \in Bags THEN BagDestination(w, d.cyl, d.index, i) ELSE d

Destinations(w, c, n, i) ==
    {LET e == IF d.cyl = c THEN d ELSE Again(w, d, i)
         f == IF e.cyl = d.cyl THEN e ELSE Again(w, e, i)
     IN  f : d \in QueryDestination(w, c, n, i)}

-----------------------------------------------------------------------------
(* Game::internalMoveItem, from the cylinder the item is in *)

\* m coins of stack i go to the stack d.item and, what does not fit, to a new
\* stack; a thing that does not stack goes itself.
\* Mutant: what went to the stack is created again.
MovesAll(w, d, i, m) ==
    LET w1 == Released(RemoveThing(w, i, m), i)
        n == IF d.item \in Coins THEN Least(Stack - w1.count[d.item], m) ELSE 0
        w2 == IF n > 0 THEN UpdateThing(w1, d.item, w1.count[d.item] + n) ELSE w1
    IN  IF i \notin Coins THEN AddThing(w1, d.cyl, d.index, i)
        ELSE IF m = n THEN w2
        ELSE AddThing(WithCount(w2, Created(w2), m), d.cyl, d.index, Created(w2))
MovedTo(w, d, i, m) ==
    IF i \notin Coins THEN AddThing(RemoveThing(w, i, m), d.cyl, d.index, i)
    ELSE LET w1 == Released(RemoveThing(w, i, m), i)
             n == IF d.item \in Coins THEN Least(Stack - w1.count[d.item], m) ELSE 0
             w2 == IF d.item \in Coins THEN UpdateThing(w1, d.item, w1.count[d.item] + n) ELSE w1
             j == Created(w2)
         IN  IF m = n THEN w2
             ELSE AddThing(WithCount(w2, j, m - n), d.cyl, d.index, j)

\* From the query for the maximum on.
MoveRest(w, d, i, k) ==
    LET max == QueryMaxCount(w, d.cyl, d.index, i, k)
        m == IF i \in Coins THEN Least(k, max) ELSE max
        from == w.parent[i]
    IN  IF m = 0 \/ (i \in Coins /\ m > w.count[i]) THEN w    \* __queryRemove
        ELSE Notified(Notified(MovedTo(w, d, i, m), from), d.cyl)

\* The thing in the way goes where the item is, and the item is asked for again.
Exchanged(w, d, i, k) ==
    LET t == d.item
        from == w.parent[i]
        w1 == Notified(AddThing(RemoveThing(w, t, w.count[t]), from, 0, t), d.cyl)
    IN  IF \/ QueryAdd(w, from, IndexOf(w, i), t, w.count[t]) # "ok"
           \/ QueryMaxCount(w, from, Anywhere, t, w.count[t]) = 0
        THEN w
        ELSE IF QueryAdd(w1, d.cyl, d.index, i, k) # "ok" THEN w1
        ELSE MoveRest(w1, [d EXCEPT !.item = NoItem], i, k)

MoveVia(w, d, i, k) ==
    LET answer == QueryAdd(w, d.cyl, d.index, i, k)
    IN  IF d.item = i THEN w
        ELSE IF answer = "exchange" THEN Exchanged(w, d, i, k)
        ELSE IF answer = "ok" THEN MoveRest(w, d, i, k)
        ELSE w

MoveItem(w, c, n, i, k) == {MoveVia(w, d, i, k) : d \in Destinations(w, c, n, i)}

-----------------------------------------------------------------------------
(* Game::internalAddItem of a stack i of new coins.  It calls itself for what a   *)
(* stack has no room for, with the cylinder of that stack; a try is one call.     *)

\* Bound: every try but the last one fills a stack.
MaxTries == Cardinality(Coins) + 1

\* rest is what the first try left to the others: remainderCount, if one fails.
Tries(w, c, rest, state) == [world |-> w, cyl |-> c, rest |-> rest, state |-> state]

TryAt(p, d, i) ==
    LET w == p.world
        k == w.count[i]
        t == d.item
        n == Least(Stack - w.count[t], k)
    IN  IF \/ QueryAdd(w, d.cyl, d.index, i, k) # "ok"
           \/ QueryMaxCount(w, p.cyl, Anywhere, i, k) < k
        THEN Tries(WithCount(w, i, 0), p.cyl, p.rest, "failed")
        ELSE IF t \in Coins /\ n > 0
        THEN Tries(WithCount(UpdateThing(w, t, w.count[t] + n), i, k - n), d.cyl,
                   IF p.rest = 0 THEN k - n ELSE p.rest,
                   IF n = k THEN "added" ELSE "adding")
        ELSE Tries(Notified(AddThing(w, d.cyl, d.index, i), d.cyl), p.cyl, p.rest, "added")

Try(p, i) ==
    IF p.state # "adding" THEN {p}
    ELSE {TryAt(p, d, i) : d \in QueryDestination(p.world, p.cyl, Anywhere, i)}

AddItem(w, c, i) ==
    LET tried[n \in 0 .. MaxTries] ==
          IF n = 0 THEN {Tries(w, c, 0, "adding")}
          ELSE UNION {Try(p, i) : p \in tried[n - 1]}
    IN  {p \in tried[MaxTries] : p.state # "adding"}

\* internalPlayerAddItem, and addMoney for one stack: what cannot be added, or
\* what is left of it, is dropped to the floor.
\* Mutant: coins that found no place at all are forgotten.
DropsTheRest(w, k) ==
    LET i == Created(w)
    IN  UNION {IF p.state = "added" \/ p.rest = 0 THEN {p.world}
               ELSE {q.world : q \in AddItem(WithCount(p.world, i, p.rest), Tile, i)}
               : p \in AddItem(WithCount(w, i, k), Player, i)}
GiveCoins(w, k) ==
    LET i == Created(w)
        rest(p) == IF p.rest > 0 THEN p.rest ELSE k
    IN  UNION {IF p.state = "added" THEN {p.world}
               ELSE {q.world : q \in AddItem(WithCount(p.world, i, rest(p)), Tile, i)}
               : p \in AddItem(WithCount(w, i, k), Player, i)}

\* removeMoney: whole stacks, the smallest first, and change for the last one.
Money(w) == {t \in Coins : IsPlayers(w, w.parent[t])}
Worth(w) == SumFunctionOnSet([t \in Coins |-> w.count[t]], Money(w))

Owes(w, k) == [world |-> w, left |-> k]

PayWith(p, t) ==
    LET w == p.world
        w1 == Notified(Released(RemoveThing(w, t, w.count[t]), t), w.parent[t])
    IN  IF w.count[t] > p.left THEN {Owes(v, 0) : v \in GiveCoins(w1, w.count[t] - p.left)}
        ELSE {Owes(w1, p.left - w.count[t])}

Smallest(w) == {t \in Money(w) : \A u \in Money(w) : w.count[t] <= w.count[u]}

Pays(p) ==
    IF p.left = 0 THEN {p} ELSE UNION {PayWith(p, t) : t \in Smallest(p.world)}

RemoveMoney(w, k) ==
    LET paid[n \in 0 .. Cardinality(Coins)] ==
          IF n = 0 THEN {Owes(w, k)} ELSE UNION {Pays(p) : p \in paid[n - 1]}
    IN  {p.world : p \in {q \in paid[Cardinality(Coins)] : q.left = 0}}

-----------------------------------------------------------------------------
\* The coins that are somewhere.
Coin(w, t) == IF w.parent[t] = Nowhere THEN 0 ELSE w.count[t]
Total(w) == SumFunctionOnSet([t \in Coins |-> Coin(w, t)], Coins)

InitialBag == CHOOSE b \in Bags : TRUE
InitialSlot == CHOOSE s \in Slots : InitialBag \in Fits[s]

Init ==
    /\ parent = [i \in Items |-> IF i = InitialBag THEN Player
                                 ELSE IF i \in Coins THEN Nowhere ELSE Tile]
    /\ content = [b \in Bags |-> <<>>]
    /\ inventory = [s \in Slots |-> IF s = InitialSlot THEN InitialBag ELSE NoItem]
    /\ ground = SetToSeq(Items \ (Coins \cup {InitialBag}))
    /\ count = [i \in Items |-> IF i \in Coins THEN 0 ELSE 1]
    /\ totalWeight = [b \in Bags |-> 0]
    /\ carried = 1
    /\ given = 0

\* playerMoveItem, for k coins of a stack or a whole thing.
Move(i, c, n, k) ==
    /\ parent[i] # Nowhere
    /\ Unused(World) # {}
    /\ i \notin Coins => k = 1
    /\ c \in Bags => IsPlayers(World, c) \/ parent[c] = Tile
    /\ \E w \in MoveItem(World, c, n, i, k) : Becomes(w)
    /\ UNCHANGED given

\* A script, a shop or a spell gives coins to the player.
Give(k) ==
    /\ Total(World) + k <= Most
    /\ Unused(World) # {}
    /\ \E w \in GiveCoins(World, k) : Becomes(w)
    /\ given' = given + k

\* internalRemoveItem: coins are used up, sold, or decay.
RemoveItem(i, k) ==
    /\ parent[i] # Nowhere
    /\ k <= count[i]
    /\ Becomes(Notified(Released(RemoveThing(World, i, k), i), parent[i]))
    /\ given' = given - k

\* A shop takes k coins.
Pay(k) ==
    /\ Worth(World) >= k
    /\ \E w \in RemoveMoney(World, k) : Becomes(w)
    /\ given' = given - k

\* What the client may name: a slot or 0, a place in a bag or its parent.
Indices(c) == IF c = Tile THEN {0}
              ELSE IF c = Player THEN Slots \cup {0}
              ELSE (0 .. Capacity[c]) \cup {MoveUp}

Next ==
    \/ \E i \in Items, c \in Cylinders : \E n \in Indices(c), k \in 1 .. Stack : Move(i, c, n, k)
    \/ \E k \in 1 .. Stack : Give(k)
    \/ \E i \in Coins, k \in 1 .. Stack : RemoveItem(i, k)
    \/ \E k \in 1 .. Stack : Pay(k)

Spec == Init /\ [][Next]_vars

-----------------------------------------------------------------------------
(* Properties *)

\* Every item is in the list of its parent, once, and in no other; and no bag
\* lies in itself, however bags are put into each other, exchanged and moved up.
PlacesAgree ==
    /\ \A b \in Bags : b \notin Holders(World, parent[b])
    /\ \A i \in Items :
         /\ Cardinality({n \in DOMAIN ground : ground[n] = i}) = IF parent[i] = Tile THEN 1 ELSE 0
         /\ parent[i] = Player <=> Cardinality({s \in Slots : inventory[s] = i}) = 1
         /\ \A b \in Bags :
              Cardinality({n \in DOMAIN content[b] : content[b][n] = i})
                = IF parent[i] = b THEN 1 ELSE 0

ContentWeight(w, b) ==
    SumFunctionOnSet([i \in Items |-> IF w.parent[i] = b THEN Weight(w, i) ELSE 0], Items)

\* The weight a bag keeps of its contents is what they weigh, through all the
\* bags in it; and the player is never charged for what he does not carry (he
\* may for a while not be charged for coins that were added to a stack).
WeightsAreSums ==
    /\ \A b \in Bags : totalWeight[b] = ContentWeight(World, b)
    /\ carried <= InventoryWeight(World)

\* Both through whatever sequence of moves, gifts and payments: the lists, the
\* parents and the cached weights go on telling the same.
ContentsAgree == PlacesAgree /\ WeightsAreSums

\* Whatever is moved, split, stacked or exchanged, no coin comes into being or
\* disappears (internalMoveItem removes, stacks and creates in three places).
MovesConserve == [][given' = given => Total(World)' = Total(World)]_vars

\* What was given and not taken is there, on the player or on the floor: no way
\* through internalAddItem, addMoney and removeMoney loses coins.
NothingIsLost == Total(World) >= given

=============================================================================
