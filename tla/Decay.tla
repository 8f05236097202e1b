------------------------------- MODULE Decay -------------------------------
(***************************************************************************)
(* Decaying items: Game::startDecay, internalDecayItem, checkDecay and     *)
(* cleanup of game.cpp with Item::setID, canDecay and copyAttributes of    *)
(* item.cpp.  All of it runs on the dispatcher thread, so a step here is a *)
(* step of a loop only inside checkDecay.                                  *)
(*                                                                         *)
(* Items that decay are listed in four buckets, of which checkDecay visits *)
(* the next one every 250 ms.  A list holds a reference to its item; the   *)
(* references are counted by hand and given back through releaseThings,    *)
(* which cleanup() empties.  Times are in milliseconds.                    *)
(***************************************************************************)
EXTENDS Integers, FiniteSets

CONSTANTS Items,          \* objects the program can have at one time
          NoItem,
          Kinds,          \* item types of items.xml
          NoKind,
          DecayTime,      \* [Kinds -> Nat], ItemType::decayTime, in seconds
          DecayTo,        \* [Kinds -> Kinds \cup {Vanish, Never}], its decayTo
          Vanish, Never,  \* decayTo = 0 and decayTo = -1
          StopTime,       \* SUBSET Kinds, those with stopTime
          Group,          \* [Kinds -> ...], ItemType::type
          Imported,       \* durations an item may be loaded with
          Sources,        \* bound: the origins the items may have
          MaxEntries      \* bound: entries one item may have in the lists

Interval == 250           \* EVENT_DECAYINTERVAL
Buckets == 4              \* EVENT_DECAYBUCKETS
Round == Interval * Buckets

\* Where an item comes from: "loaded" with the map or not, and with a unique id
\* or, a container, an action id ("named").
Origins == {"created", "loaded", "named"}

ASSUME KindsAssumption ==
    /\ NoItem \notin Items
    /\ NoKind \notin Kinds
    /\ Vanish \notin Kinds /\ Never \notin Kinds /\ Vanish # Never
    /\ DecayTime \in [Kinds -> Nat]
    /\ DecayTo \in [Kinds -> Kinds \cup {Vanish, Never}]
    /\ StopTime \subseteq Kinds
    /\ DOMAIN Group = Kinds
    /\ Imported \subseteq Nat
    /\ Sources \subseteq Origins
    /\ MaxEntries \in Nat

MayDecay(k) == DecayTo[k] # Never /\ DecayTime[k] # 0

\* Item::setID takes the time from a type that has none, keeps none and does not
\* decay.
LosesTime(k) ==
    DecayTime[k] = 0 /\ k \notin StopTime /\ DecayTo[k] = Never

VARIABLES
    kind,       \* kind[i]: the type of item i, NoKind when it is not allocated
    duration,   \* Item::duration
    decaying,   \* the attribute "decaying" is DECAYING_TRUE
    placed,     \* i has a parent: it is not removed
    origin,     \* loadedFromMap and the ids of an item
    refs,       \* Thing::refCount
    releases,   \* how often i is in Game::releaseThings
    fresh,      \* how often i is in Game::toDecayItems
    bucket,     \* bucket[b][i]: how often i is in Game::decayItems[b]
    last,       \* Game::lastBucket
    checking,   \* checkDecay is in its loop
    todo,       \* the entries of the bucket the loop has still to visit
    due,        \* the item internalDecayItem is called for, or NoItem
    left,       \* ghost: what is left of the time item i was listed with
    timed,      \* ghost: left[i] counts since i was listed, nobody meddled
    spent       \* ghost: whose decay ended but neither removed nor unmarked them

decayVars == <<kind, duration, decaying, placed, origin, refs, releases, fresh,
          bucket, last, checking, todo, due, left, timed, spent>>

lists == <<fresh, bucket, last, checking, todo>>

Zero == [i \in Items |-> 0]
After(b) == (b + 1) % Buckets

Entries(i) == fresh[i] + todo[i] + bucket[0][i] + bucket[1][i]
                       + bucket[2][i] + bucket[3][i]

CanDecay(i) == placed[i] /\ MayDecay(kind[i]) /\ origin[i] # "named"

\* The dispatcher thread runs a task of its own: no decay is under way.
AtRest == due = NoItem /\ ~checking

\* Bound: every placed item can be replaced once before the next cleanup.
Room ==
    Cardinality({i \in Items : placed[i]}) <= Cardinality({i \in Items : kind[i] = NoKind})

DecayTypeOK ==
    /\ kind \in [Items -> Kinds \cup {NoKind}]
    /\ duration \in [Items -> Int]
    /\ decaying \in [Items -> BOOLEAN]
    /\ placed \in [Items -> BOOLEAN]
    /\ origin \in [Items -> Origins]
    /\ refs \in [Items -> Nat]
    /\ releases \in [Items -> Nat]
    /\ fresh \in [Items -> Nat]
    /\ bucket \in [0 .. Buckets - 1 -> [Items -> Nat]]
    /\ last \in 0 .. Buckets - 1
    /\ checking \in BOOLEAN
    /\ todo \in [Items -> Nat]
    /\ due \in Items \cup {NoItem}
    /\ left \in [Items -> Int]
    /\ timed \in [Items -> BOOLEAN]
    /\ spent \subseteq Items

DecayInit ==
    /\ kind = [i \in Items |-> NoKind]
    /\ duration = Zero
    /\ decaying = [i \in Items |-> FALSE]
    /\ placed = [i \in Items |-> FALSE]
    /\ origin = [i \in Items |-> "created"]
    /\ refs = Zero
    /\ releases = Zero
    /\ fresh = Zero
    /\ bucket = [b \in 0 .. Buckets - 1 |-> Zero]
    /\ last = 0
    /\ checking = FALSE
    /\ todo = Zero
    /\ due = NoItem
    /\ left = Zero
    /\ timed = [i \in Items |-> FALSE]
    /\ spent = {}

-----------------------------------------------------------------------------
(* What happens to the items outside of the lists. *)

\* An item is created and placed, with the duration of its type or one that
\* was saved with it; who does so may start its decay later.
Create(i, k, d, o) ==
    /\ AtRest
    /\ kind[i] = NoKind
    /\ origin' = [origin EXCEPT ![i] = o]
    /\ kind' = [kind EXCEPT ![i] = k]
    /\ duration' = [duration EXCEPT ![i] = d]
    /\ placed' = [placed EXCEPT ![i] = TRUE]
    /\ refs' = [refs EXCEPT ![i] = 1]
    /\ UNCHANGED <<decaying, releases, lists, due, left, timed, spent>>

\* A script gives an item of the map an id or takes it away.
SetId(i) ==
    /\ AtRest
    /\ placed[i]
    /\ origin[i] # "created"
    /\ \E o \in {"loaded", "named"} \ {origin[i]} : origin' = [origin EXCEPT ![i] = o]
    /\ UNCHANGED <<kind, duration, decaying, placed, refs, releases, lists, due, left,
                   timed, spent>>

\* internalRemoveItem: the reference of the creator is to be released.
Removed(i) ==
    /\ placed' = [placed EXCEPT ![i] = FALSE]
    /\ releases' = [releases EXCEPT ![i] = @ + 1]

RemoveItem(i) ==
    /\ AtRest
    /\ placed[i]
    /\ Removed(i)
    /\ UNCHANGED <<kind, duration, decaying, origin, refs, lists, due, left, timed, spent>>

\* doItemSetDuration of the scripts, in whole seconds.
SetDuration(i, seconds) ==
    /\ AtRest
    /\ placed[i]
    /\ duration' = [duration EXCEPT ![i] = 1000 * seconds]
    /\ timed' = [timed EXCEPT ![i] = FALSE]
    /\ left' = [left EXCEPT ![i] = 0]
    /\ UNCHANGED <<kind, decaying, placed, origin, refs, releases, lists, due, spent>>

\* Item::setID: a type with a duration starts it afresh, unless the item
\* comes from a type that stops the time and has some left.
Restarts(i, k) ==
    DecayTime[k] > 0 /\ (kind[i] \notin StopTime \/ duration[i] = 0)

DurationAs(i, k) ==
    IF Restarts(i, k) THEN 1000 * DecayTime[k]
    ELSE IF LosesTime(k) THEN -1 ELSE duration[i]

KeepsTime(i, k) == ~Restarts(i, k) /\ ~LosesTime(k)

\* Mutant: the mark survives a new duration.
StaysDecaying(i, k) == decaying[i] /\ ~LosesTime(k)
DecayingAs(i, k) == decaying[i] /\ KeepsTime(i, k)

\* The branch of transformItem for types that differ: another item, with the
\* attributes copied but no duration, takes the place of the old one.
Replace(i, j, k) ==
    /\ kind[j] = NoKind
    /\ kind' = [kind EXCEPT ![j] = k]
    /\ duration' = [duration EXCEPT ![j] = 0]
    /\ placed' = [placed EXCEPT ![i] = FALSE, ![j] = TRUE]
    /\ origin' = [origin EXCEPT ![j] = "created"]
    /\ refs' = [refs EXCEPT ![j] = 1]
    /\ releases' = [releases EXCEPT ![i] = @ + 1]

\* Game::transformItem called by a script or by an item that is put on or off;
\* j is what it returns.
Transform(i, j, k) ==
    /\ AtRest
    /\ placed[i]
    /\ kind[i] # k
    /\ UNCHANGED <<lists, due>>
    /\ \/ /\ Group[kind[i]] = Group[k]
          /\ j = i
          /\ kind' = [kind EXCEPT ![i] = k]
          /\ duration' = [duration EXCEPT ![i] = DurationAs(i, k)]
          /\ decaying' = [decaying EXCEPT ![i] = DecayingAs(i, k)]
          /\ timed' = [timed EXCEPT ![i] = @ /\ KeepsTime(i, k)]
          /\ left' = [left EXCEPT ![i] = IF timed'[i] THEN @ ELSE 0]
          /\ spent' = IF KeepsTime(i, k) THEN spent ELSE spent \ {i}
          /\ UNCHANGED <<placed, origin, refs, releases>>
       \/ /\ Group[kind[i]] # Group[k]
          /\ Replace(i, j, k)
          /\ UNCHANGED <<decaying, left, timed, spent>>

-----------------------------------------------------------------------------
(* Game::startDecay *)

\* The item, with duration d, is put in the list of the new ones.
Listed(i, d) ==
    /\ refs' = [refs EXCEPT ![i] = @ + 1]
    /\ fresh' = [fresh EXCEPT ![i] = @ + 1]
    /\ timed' = [timed EXCEPT ![i] = Entries(i) = 0]
    /\ left' = [left EXCEPT ![i] = IF Entries(i) = 0 THEN d ELSE 0]

StartDecay(i) ==
    /\ AtRest /\ Room
    /\ CanDecay(i) /\ ~decaying[i]
    /\ Entries(i) < MaxEntries
    /\ \/ /\ duration[i] > 0
          /\ decaying' = [decaying EXCEPT ![i] = TRUE]
          /\ Listed(i, duration[i])
          /\ UNCHANGED due
       \/ /\ duration[i] <= 0
          /\ due' = i
          /\ UNCHANGED <<decaying, refs, fresh, timed, left>>
    /\ UNCHANGED <<kind, duration, placed, origin, releases, bucket, last, checking, todo,
                   spent>>

\* Game::internalDecayItem(due).  The item vanishes, or becomes the next type,
\* whose decay startDecay then starts, at once when it has no duration.
Vanishes ==
    /\ due # NoItem
    /\ DecayTo[kind[due]] = Vanish
    /\ Removed(due)
    /\ due' = NoItem
    /\ UNCHANGED <<kind, duration, decaying, origin, refs, lists, left, timed, spent>>

Unlisted(i) == timed' = [timed EXCEPT ![i] = FALSE] /\ left' = [left EXCEPT ![i] = 0]

\* No entry is left that could take the mark of item i away.
Spends(i) == spent' = IF decaying[i] /\ Entries(i) = 0 THEN spent \cup {i} ELSE spent

\* internalRemoveItem refuses, as for a bed or a depot: any item may be refused.
StaysPut ==
    /\ due # NoItem
    /\ DecayTo[kind[due]] = Vanish
    /\ Spends(due)
    /\ Unlisted(due)
    /\ due' = NoItem
    /\ UNCHANGED <<kind, duration, decaying, placed, origin, refs, releases, lists>>

NextKind == DecayTo[kind[due]]

\* The same object, with the identity of the next type.
Becomes(i) ==
    /\ due = i
    /\ NextKind \in Kinds
    /\ Group[kind[i]] = Group[NextKind]
    /\ LET d == DurationAs(i, NextKind)
           starts == MayDecay(NextKind) /\ origin[i] # "named" /\ ~DecayingAs(i, NextKind)
       IN  /\ kind' = [kind EXCEPT ![i] = NextKind]
           /\ duration' = [duration EXCEPT ![i] = d]
           /\ decaying' = [decaying EXCEPT ![i] = DecayingAs(i, NextKind) \/ (starts /\ d > 0)]
           /\ due' = IF starts /\ d <= 0 THEN i ELSE NoItem
           /\ \/ starts /\ d > 0 /\ Listed(i, d)
              \/ /\ ~(starts /\ d > 0)
                 /\ Unlisted(i)
                 /\ UNCHANGED <<refs, fresh>>
    /\ IF KeepsTime(i, NextKind) THEN Spends(i) ELSE UNCHANGED spent
    /\ UNCHANGED <<placed, origin, releases, bucket, last, checking, todo>>

\* Another object takes its place, without a duration: it decays at once.
IsReplaced(j) ==
    /\ due # NoItem
    /\ NextKind \in Kinds
    /\ Group[kind[due]] # Group[NextKind]
    /\ Replace(due, j, NextKind)
    /\ due' = IF MayDecay(NextKind) THEN j ELSE NoItem
    /\ UNCHANGED <<decaying, lists, left, timed, spent>>

-----------------------------------------------------------------------------
(* Game::checkDecay and Game::cleanup *)

BeginCheck ==
    /\ AtRest /\ Room
    /\ checking' = TRUE
    /\ todo' = bucket[After(last)]
    /\ bucket' = [bucket EXCEPT ![After(last)] = Zero]
    /\ left' = [i \in Items |-> IF timed[i] THEN left[i] - Interval ELSE 0]
    /\ UNCHANGED <<kind, duration, decaying, placed, origin, refs, releases, fresh, last,
                   due, timed, spent>>

\* The loop comes to an entry of item i.
Visits(i) ==
    /\ checking /\ due = NoItem
    /\ todo[i] > 0
    /\ todo' = [todo EXCEPT ![i] = @ - 1]
    /\ UNCHANGED <<kind, placed, origin, refs, fresh, last, checking, spent>>

\* An item that cannot decay any more leaves the list.
Drop(i) ==
    /\ Visits(i)
    /\ ~CanDecay(i)
    /\ decaying' = [decaying EXCEPT ![i] = FALSE]
    /\ releases' = [releases EXCEPT ![i] = @ + 1]
    /\ Unlisted(i)
    /\ UNCHANGED <<duration, bucket, due>>

\* The bucket of an item with less than a round left, and whether it is to decay
\* now.  Mutant: only an item whose time is over does.
ShortBucket(b, d) == (b + ((d + Interval \div 2) \div 1000)) % Buckets
IsOver(d) == d <= 0
IsDue(d) == d <= 0 \/ (d < Round /\ ShortBucket(0, d) = 0)

\* The list's reference is given back.  Mutant: it is not.
ReleasesNot(i) == releases' = releases
Releases(i) == releases' = [releases EXCEPT ![i] = @ + 1]

Pass(i) ==
    /\ Visits(i)
    /\ CanDecay(i)
    /\ LET now == After(last)
           rest == duration[i] - (IF duration[i] < Round THEN duration[i] ELSE Round)
           next == IF rest < Round THEN ShortBucket(now, rest) ELSE now
       IN  /\ duration' = [duration EXCEPT ![i] = rest]
           /\ \/ /\ IsDue(rest)
                 /\ due' = i
                 /\ Releases(i)
                 /\ UNCHANGED bucket
              \/ /\ ~IsDue(rest)
                 /\ bucket' = [bucket EXCEPT ![next][i] = @ + 1]
                 /\ UNCHANGED <<due, releases>>
    /\ UNCHANGED <<decaying, timed, left>>

\* cleanup(): releaseThings is emptied, new items get their bucket.
FreshBucket(b, d) == IF d >= Round THEN b ELSE (b + 1 + d \div 1000) % Buckets

Freed(i) == refs[i] > 0 /\ refs[i] <= releases[i]

Clean(b) ==
    /\ refs' = [i \in Items |-> refs[i] - releases[i]]
    /\ releases' = Zero
    /\ kind' = [i \in Items |-> IF Freed(i) THEN NoKind ELSE kind[i]]
    /\ duration' = [i \in Items |-> IF Freed(i) THEN 0 ELSE duration[i]]
    /\ decaying' = [i \in Items |-> decaying[i] /\ ~Freed(i)]
    /\ timed' = [i \in Items |-> timed[i] /\ ~Freed(i)]
    /\ left' = [i \in Items |-> IF Freed(i) THEN 0 ELSE left[i]]
    /\ bucket' = [c \in 0 .. Buckets - 1 |-> [i \in Items |->
                    bucket[c][i] + (IF c = FreshBucket(b, duration[i]) THEN fresh[i] ELSE 0)]]
    /\ fresh' = Zero
    /\ origin' = [i \in Items |-> IF Freed(i) THEN "created" ELSE origin[i]]
    /\ spent' = {i \in spent : ~Freed(i)}

EndCheck ==
    /\ checking /\ due = NoItem
    /\ todo = Zero
    /\ checking' = FALSE
    /\ last' = After(last)
    /\ Clean(After(last))
    /\ UNCHANGED <<placed, todo, due>>

\* checkCreatures, checkCreatureWalk and others end with a cleanup as well.
Cleanup ==
    /\ AtRest
    /\ Clean(last)
    /\ UNCHANGED <<placed, last, checking, todo, due>>

-----------------------------------------------------------------------------
DecayNext ==
    \/ \E i \in Items, k \in Kinds, o \in Sources :
          \E d \in Imported \cup {1000 * DecayTime[k]} : Create(i, k, d, o)
    \/ \E i \in Items : SetId(i)
    \/ \E i \in Items : RemoveItem(i)
    \/ \E i \in Items : SetDuration(i, 1)
    \/ \E i, j \in Items, k \in Kinds : Transform(i, j, k)
    \/ \E i \in Items : StartDecay(i)
    \/ Vanishes \/ StaysPut
    \/ \E i \in Items : Becomes(i)
    \/ \E j \in Items : IsReplaced(j)
    \/ BeginCheck
    \/ \E i \in Items : Drop(i)
    \/ \E i \in Items : Pass(i)
    \/ EndCheck
    \/ Cleanup

DecaySpec == DecayInit /\ [][DecayNext]_decayVars

-----------------------------------------------------------------------------
(* Properties *)

\* The references of an item are those that are held: by its place, by every
\* entry of the decay lists, and by releaseThings; who has none is freed, so no
\* list keeps a pointer to a freed item (freeThing in checkDecay, removals and
\* replacements of an item that decays).
RefsAreExact ==
    \A i \in Items :
       /\ refs[i] = (IF placed[i] THEN 1 ELSE 0) + Entries(i) + releases[i]
       /\ kind[i] = NoKind <=> refs[i] = 0

\* An item that is marked as decaying is in a list or is being decayed: else
\* startDecay would pass over it and it would stay for ever (setID and
\* checkDecay must take the mark away whenever they end a decay).  The code does
\* not for an item that should have vanished and could not be removed, and for
\* one that decayed to a type that stops the time or decays without a time: they
\* are the only ones, whatever scripts transform, replace or list in between.
DecayingIsListed ==
    \A i \in Items : placed[i] /\ decaying[i] => Entries(i) > 0 \/ due = i \/ i \in spent

\* An item that is listed once and left alone decays when its duration is over:
\* less than two intervals later (one, if it was listed with less than that and
\* no cleanup comes before the next check, and one for the check itself), and
\* less than a second earlier, though its bucket is chosen by three roundings
\* that differ (checkDecay and cleanup of game.cpp).
OnTime ==
    \A i \in Items : timed[i] => /\ left[i] > - 2 * Interval
                                 /\ due = i => left[i] < 1000

=============================================================================
