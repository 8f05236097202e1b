------------------------------ MODULE WaitList ------------------------------
(***************************************************************************)
(* The waiting list of a full server: WaitingList (waitlist.cpp) and its   *)
(* caller ProtocolGame::login.  A refused client is told after how many    *)
(* seconds to try again and does so by itself; its place is kept for 15    *)
(* seconds more.  Time is counted in steps of five seconds, and a time-out *)
(* is what is left of it.                                                  *)
(*                                                                         *)
(* Names and addresses of a player do not change, nor does what he paid.   *)
(***************************************************************************)
EXTENDS Naturals, Sequences, FiniteSets, SequencesExt

CONSTANTS
  Players,
  Premium,            \* the players with a premium account
  Privileged,         \* those with PlayerFlag_CanAlwaysLogin
  MaxPlayers,
  SkipWait,           \* PREMIUM_SKIP_WAIT
  Visits              \* bound: how often a player comes to the server

ASSUME WaitListAssumption ==
  /\ IsFiniteSet(Players)
  /\ Premium \cup Privileged \subseteq Players
  /\ MaxPlayers \in Nat
  /\ SkipWait \in BOOLEAN
  /\ Visits \in Nat

VARIABLES
  waitList,           \* the places, the first one in front
  client,             \* where the client of each player is
  retry,              \* when a waiting client tries again
  visits              \* how often a player has come

waitVars == <<waitList, client, retry, visits>>

\* WaitingList::getTime and getTimeout
Time(slot) ==
  CASE slot < 5                -> 1
    [] slot >= 5  /\ slot < 10 -> 2
    [] slot >= 10 /\ slot < 20 -> 4
    [] slot >= 20 /\ slot < 50 -> 12
    [] slot >= 50              -> 24

Timeout(slot) == Time(slot) + 3

WaitTypeOK ==
  /\ waitList \in Seq([who : Players, premium : BOOLEAN, timeout : 0..27])
  /\ client \in [Players -> {"away", "waiting", "online"}]
  /\ retry \in [Players -> 0..24]
  /\ visits \in [Players -> 0..Visits]

WaitInit ==
  /\ waitList = <<>>
  /\ client = [p \in Players |-> "away"]
  /\ retry = [p \in Players |-> 0]
  /\ visits = [p \in Players |-> 0]

----------------------------------------------------------------------------
(* The list                                                                *)

Online == Cardinality({p \in Players : client[p] = "online"})

Listed(p, list) == \E i \in DOMAIN list : list[i].who = p

\* find: counted from 1
Slot(p, list) == CHOOSE i \in DOMAIN list : list[i].who = p

\* Mutant: nothing is thrown away.
KeepAll(list) == list

\* cleanup
Valid(list) ==
  LET kept[i \in 0..Len(list)] ==
        IF i = 0 THEN <<>>
        ELSE IF list[i].timeout > 0 THEN Append(kept[i - 1], list[i]) ELSE kept[i - 1]
  IN  kept[Len(list)]

\* Mutant: only the number of places counts, not those in front.
RoomForOne(slot) == Online + 1 =< MaxPlayers

RoomFor(slot) == Online + slot =< MaxPlayers

\* Mutant: the time-out of a place runs on.
NotRefreshed(list, i) == list

Refreshed(list, i) == [list EXCEPT ![i].timeout = Timeout(i)]

\* Premium players come before the first one who is not, others at the end.
NewSlot(p, list) ==
  LET free == SelectInSeq(list, LAMBDA w : ~w.premium)
  IN  IF p \in Premium /\ free # 0 THEN free ELSE Len(list) + 1

HasPlace(p, list) == Listed(p, list)

Place(p, slot) == [who |-> p, premium |-> p \in Premium, timeout |-> Timeout(slot)]

----------------------------------------------------------------------------
(* ProtocolGame::login                                                     *)

\* A new visit, or the next try of a client that waits.
Tries(p) ==
  \/ client[p] = "away" /\ visits[p] < Visits /\ visits' = [visits EXCEPT ![p] = @ + 1]
  \/ client[p] = "waiting" /\ retry[p] = 0 /\ UNCHANGED visits

Passes(p) ==
  \/ p \in Privileged
  \/ waitList = <<>> /\ Online < MaxPlayers
  \/ SkipWait /\ p \in Premium

\* The character may still fail to load.
Enters(p) ==
  /\ \E where \in {"online", "away"} : client' = [client EXCEPT ![p] = where]
  /\ retry' = [retry EXCEPT ![p] = 0]

\* The client is told to wait.
IsRefused(p, slot) ==
  /\ client' = [client EXCEPT ![p] = "waiting"]
  /\ retry' = [retry EXCEPT ![p] = Time(slot)]

LoginAtOnce(p) ==
  /\ Tries(p)
  /\ Passes(p)
  /\ Enters(p)
  /\ UNCHANGED waitList

LoginFromList(p) ==
  LET list == Valid(waitList)
      slot == Slot(p, list)
  IN  /\ Tries(p)
      /\ ~Passes(p)
      /\ HasPlace(p, list)
      /\ RoomFor(slot)
      /\ waitList' = RemoveAt(list, slot)
      /\ Enters(p)

WaitLonger(p) ==
  LET list == Valid(waitList)
      slot == Slot(p, list)
  IN  /\ Tries(p)
      /\ ~Passes(p)
      /\ HasPlace(p, list)
      /\ ~RoomFor(slot)
      /\ waitList' = Refreshed(list, slot)
      /\ IsRefused(p, slot)

StartWaiting(p) ==
  LET list == Valid(waitList)
      slot == NewSlot(p, list)
  IN  /\ Tries(p)
      /\ ~Passes(p)
      /\ ~HasPlace(p, list)
      /\ waitList' = InsertAt(list, slot, Place(p, slot))
      /\ IsRefused(p, slot)

----------------------------------------------------------------------------
(* The players                                                             *)

LogsOut(p) ==
  /\ client[p] = "online"
  /\ client' = [client EXCEPT ![p] = "away"]
  /\ UNCHANGED <<waitList, retry, visits>>

GiveUp(p) ==
  /\ client[p] = "waiting"
  /\ client' = [client EXCEPT ![p] = "away"]
  /\ retry' = [retry EXCEPT ![p] = 0]
  /\ UNCHANGED <<waitList, visits>>

\* Five seconds pass; clients that wait try again when they were told to.
Less(n) == IF n = 0 THEN 0 ELSE n - 1

Tick ==
  /\ \A p \in Players : client[p] = "waiting" => retry[p] > 0
  /\ retry' = [p \in Players |-> Less(retry[p])]
  /\ waitList' = [i \in DOMAIN waitList |-> [waitList[i] EXCEPT !.timeout = Less(@)]]
  /\ UNCHANGED <<client, visits>>

Login(p) == LoginAtOnce(p) \/ LoginFromList(p) \/ WaitLonger(p) \/ StartWaiting(p)

WaitNext ==
  \/ \E p \in Players : Login(p) \/ LogsOut(p) \/ GiveUp(p)
  \/ Tick

WaitSpec == WaitInit /\ [][WaitNext]_waitVars

\* A waiting client tries again, nobody stays for ever, and time passes.
Fairness ==
  /\ \A p \in Players : WF_waitVars(client[p] = "waiting" /\ Login(p))
  /\ \A p \in Players : WF_waitVars(LogsOut(p))
  /\ WF_waitVars(Tick)

FairSpec == WaitSpec /\ Fairness

----------------------------------------------------------------------------
(* Properties                                                              *)

\* A client that tries again when it was told to never loses its place,
\* whoever is put in front of it.
WaitersKeepTheirPlace ==
  \A p \in Players : client[p] = "waiting" =>
    \E i \in DOMAIN waitList : waitList[i].who = p /\ waitList[i].timeout > 0

\* Whoever enters without a privilege leaves room for all the valid places that
\* were in front of him, or for all of them if he had none.
NobodyIsOvertaken ==
  [][\A p \in Players \ Privileged :
       ~(SkipWait /\ p \in Premium) /\ client[p] # "online" /\ client'[p] = "online" =>
         LET list  == Valid(waitList)
             ahead == IF Listed(p, list) THEN Slot(p, list) - 1 ELSE Len(list)
         IN  Online + 1 + ahead =< MaxPlayers]_waitVars

\* Who waits gets in, or gives up: places of players who went away do not block
\* the list.
WaitersEnter ==
  \A p \in Players : (client[p] = "waiting") ~> (client[p] # "waiting")
=============================================================================
