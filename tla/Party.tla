------------------------------- MODULE Party -------------------------------
(***************************************************************************)
(* Parties of players: class Party (party.cpp), the handlers of Game that  *)
(* call it (game.cpp), the players' half of it (player.cpp) and the        *)
(* channel of a party (chat.cpp).                                          *)
(*                                                                         *)
(* A party is an object at an address; the address of a deleted party may  *)
(* be given to a new one, and Chat::m_partyChannels is keyed by it.  The   *)
(* methods of Party are operators from the state g of all parties to a new *)
(* one, so that they can call each other as they do in the code; one       *)
(* action is one task of the dispatcher.  Levels, distances, recent        *)
(* activity and exhaustion are not modelled: canEnableSharedExperience of  *)
(* a party with members may answer either way.  Every player in the game   *)
(* has a client.                                                           *)
(***************************************************************************)
EXTENDS Naturals, Sequences, FiniteSets, SequencesExt

CONSTANTS
  NULL,
  Players,
  Addresses,          \* bound: where a Party can be allocated
  VocationIds         \* what getVocationId() % 4 may be

ASSUME PartyAssumption ==
  /\ NULL \notin Players \cup Addresses
  /\ VocationIds \subseteq 0..3

VARIABLES
  online,             \* the players in the game
  party,              \* the Party at each address, or NULL
  partyOf,            \* Player::party
  invited,            \* Player::invitePartyList
  channel,            \* the users of the party channel of each address
  vocation,           \* getVocationId() % 4 of each player
  stale               \* history: where the vocation of somebody in the party has
                      \* changed since sharedExpMultiplier was last counted

vars == <<online, party, partyOf, invited, channel, vocation, stale>>

Bonuses == {100, 120, 125, 160, 200}

\* The Party objects: sharedExpMultiplier is kept in percent.
Objects == [leader  : Players,
            members : Seq(Players),      \* memberList
            invites : SUBSET Players,    \* inviteList
            active  : BOOLEAN,           \* sharedExpActive
            enabled : BOOLEAN,           \* sharedExpEnabled
            bonus   : Bonuses]

ASSUME ObjectsAssumption == NULL \notin Objects

TypeOK ==
  /\ online \subseteq Players
  /\ party \in [Addresses -> Objects \cup {NULL}]
  /\ partyOf \in [Players -> Addresses \cup {NULL}]
  /\ invited \in [Players -> SUBSET Addresses]
  /\ channel \in [Addresses -> SUBSET Players]
  /\ vocation \in [Players -> VocationIds]
  /\ stale \subseteq Addresses

Init ==
  /\ online = Players
  /\ party = [a \in Addresses |-> NULL]
  /\ partyOf = [p \in Players |-> NULL]
  /\ invited = [p \in Players |-> {}]
  /\ channel = [a \in Addresses |-> {}]
  /\ vocation \in [Players -> VocationIds]
  /\ stale = {}

----------------------------------------------------------------------------
(* One party                                                               *)

Crew(x) == {x.leader} \cup ToSet(x.members)

\* std::find and erase; a list holds a player once.
Without(s, p) ==
  IF p \notin ToSet(s) THEN s
  ELSE LET i == CHOOSE i \in DOMAIN s : s[i] = p
       IN  [j \in 1..Len(s) - 1 |-> IF j < i THEN s[j] ELSE s[j + 1]]

Vocations(x) == Cardinality({vocation[p] : p \in Crew(x)})

\* The two counts: join pays a party of two vocations 120 %, leave 125 %.
BonusOnJoin(x)  == <<100, 120, 160, 200>>[Vocations(x)]
BonusOnLeave(x) == <<100, 125, 160, 200>>[Vocations(x)]

\* Mutant: who leaves is not counted out of the bonus.
KeepsBonus(x) == x

Recount(x) == [x EXCEPT !.bonus = BonusOnLeave(x)]

CanDisband(x) == x.members = <<>> /\ x.invites = {}

\* updateSharedExperience: able is what the levels and distances answer.
CanEnable(x, able) == able /\ x.members # <<>>
Update(x, able) ==
  IF x.active THEN [x EXCEPT !.enabled = CanEnable(x, able)] ELSE x

NewParty(p) == [leader |-> p, members |-> <<>>, invites |-> {},
                active |-> FALSE, enabled |-> FALSE, bonus |-> 100]

PassLeadership(x, p) ==
  [x EXCEPT !.leader = p, !.members = <<x.leader>> \o Without(@, p)]

----------------------------------------------------------------------------
(* The methods of Party                                                    *)

\* Mutant: disband does not tell the invited players.
TellsNobody(g, a, x) == g.invited

Uninvited(g, a, x) ==
  [p \in Players |-> IF p \in x.invites THEN g.invited[p] \ {a} ELSE g.invited[p]]

\* The channel is closed to those who still have the party when it is.
Disband(g, a, x) ==
  [party   |-> [g.party EXCEPT ![a] = NULL],
   partyOf |-> [p \in Players |-> IF p \in Crew(x) THEN NULL ELSE g.partyOf[p]],
   invited |-> Uninvited(g, a, x),
   channel |-> [g.channel EXCEPT ![a] = {p \in @ : p \notin Crew(x) \/ g.partyOf[p] # a}]]

\* Is there nobody left who could lead?
MissingLeader(x, p) ==
  p = x.leader /\ \/ x.members = <<>>
                  \/ Len(x.members) = 1 /\ x.invites = {}

\* Mutant: a leader who passed the leadership stays as a member.
LeftAsMember(x, p) ==
  IF p = x.leader /\ ~MissingLeader(x, p)
  THEN PassLeadership(x, Head(x.members))
  ELSE [x EXCEPT !.members = Without(@, p), !.invites = @ \ {p}]

\* The party without p, who hands the leadership to the first member.
Left(x, p) ==
  LET y == IF p = x.leader /\ ~MissingLeader(x, p)
           THEN PassLeadership(x, Head(x.members)) ELSE x
  IN  [y EXCEPT !.members = Without(@, p), !.invites = @ \ {p}]

\* leave: p loses the party first, and so keeps its channel.
Leave(g, p, able) ==
  LET a == g.partyOf[p]
      x == g.party[a]
      y == Update(Left(x, p), able)
      h == [g EXCEPT !.partyOf[p] = NULL]
  IN  IF MissingLeader(x, p) \/ CanDisband(y)
      THEN Disband(h, a, y)
      ELSE [h EXCEPT !.party[a] = Recount(y)]

\* removeInvite of player p, by each party of A.
RemoveInvites(g, p, A) ==
  LET without(a) == [g.party[a] EXCEPT !.invites = @ \ {p}]
      dead       == {a \in A : CanDisband(without(a))}
      leaders    == {g.party[a].leader : a \in dead}
  IN  [party   |-> [a \in Addresses |-> IF a \in dead THEN NULL
                                        ELSE IF a \in A THEN without(a) ELSE g.party[a]],
       partyOf |-> [q \in Players |-> IF q \in leaders THEN NULL ELSE g.partyOf[q]],
       invited |-> [g.invited EXCEPT ![p] = @ \ A],
       channel |-> [a \in Addresses |-> IF a \in dead
                                        THEN g.channel[a] \ {g.party[a].leader}
                                        ELSE g.channel[a]]]

Current == [party |-> party, partyOf |-> partyOf, invited |-> invited, channel |-> channel]

Become(g) ==
  /\ party' = g.party
  /\ partyOf' = g.partyOf
  /\ invited' = g.invited
  /\ channel' = g.channel

\* The vocations of the party at a are counted, or the party is deleted.
Counted(a) == stale' = stale \ {a}

----------------------------------------------------------------------------
(* The tasks                                                               *)

Leads(p) == partyOf[p] # NULL /\ party[partyOf[p]].leader = p

\* playerInviteToParty, by a leader or by a player who becomes one.
Invite(p, q) ==
  /\ {p, q} \subseteq online
  /\ p # q
  /\ partyOf[q] = NULL
  /\ \/ /\ Leads(p)
        /\ q \notin party[partyOf[p]].invites
        /\ party' = [party EXCEPT ![partyOf[p]].invites = @ \cup {q}]
        /\ invited' = [invited EXCEPT ![q] = @ \cup {partyOf[p]}]
        /\ UNCHANGED <<partyOf, stale>>
     \/ /\ partyOf[p] = NULL
        /\ \E a \in Addresses :
             /\ party[a] = NULL
             /\ party' = [party EXCEPT ![a] = [NewParty(p) EXCEPT !.invites = {q}]]
             /\ partyOf' = [partyOf EXCEPT ![p] = a]
             /\ invited' = [invited EXCEPT ![q] = @ \cup {a}]
             /\ Counted(a)
  /\ UNCHANGED <<online, channel, vocation>>

\* playerJoinParty
Join(p, a, able) ==
  /\ p \in online
  /\ party[a] # NULL
  /\ party[a].leader \in online
  /\ p \in party[a].invites
  /\ partyOf[p] = NULL
  /\ LET x == [party[a] EXCEPT !.members = Append(@, p), !.invites = @ \ {p}]
     IN  party' = [party EXCEPT ![a] = Update([x EXCEPT !.bonus = BonusOnJoin(x)], able)]
  /\ partyOf' = [partyOf EXCEPT ![p] = a]
  /\ invited' = [invited EXCEPT ![p] = @ \ {a}]
  /\ Counted(a)
  /\ UNCHANGED <<online, channel, vocation>>

\* playerRevokePartyInvitation
Revoke(p, q) ==
  /\ {p, q} \subseteq online
  /\ Leads(p)
  /\ q \in party[partyOf[p]].invites
  /\ Become(RemoveInvites(Current, q, {partyOf[p]}))
  /\ UNCHANGED <<online, vocation, stale>>

\* playerPassPartyLeadership
Pass(p, q, able) ==
  /\ {p, q} \subseteq online
  /\ Leads(p)
  /\ q # p
  /\ partyOf[q] = partyOf[p]
  /\ party' = [party EXCEPT ![partyOf[p]] = Update(PassLeadership(@, q), able)]
  /\ UNCHANGED <<online, partyOf, invited, channel, vocation, stale>>

\* playerLeaveParty
LeaveParty(p, able) ==
  /\ p \in online
  /\ partyOf[p] # NULL
  /\ Become(Leave(Current, p, able))
  /\ Counted(partyOf[p])
  /\ UNCHANGED <<online, vocation>>

\* setSharedExperience
Share(p, active, able) ==
  /\ p \in online
  /\ Leads(p)
  /\ LET x == party[partyOf[p]]
     IN  /\ x.active # active
         /\ party' = [party EXCEPT ![partyOf[p]] =
                        [x EXCEPT !.active = active,
                                  !.enabled = IF active THEN CanEnable(x, able) ELSE @]]
  /\ UNCHANGED <<online, partyOf, invited, channel, vocation, stale>>

\* addPlayerHealedMember, addPlayerDamageMonster
GainPoints(p, able) ==
  /\ p \in online
  /\ partyOf[p] # NULL
  /\ party' = [party EXCEPT ![partyOf[p]] = Update(@, able)]
  /\ UNCHANGED <<online, partyOf, invited, channel, vocation, stale>>

\* clearPartyInvitations, then leave: a logout, and becoming a ghost.
Withdrawn(p, able) ==
  LET g == RemoveInvites(Current, p, invited[p])
  IN  IF g.partyOf[p] # NULL THEN Leave(g, p, able) ELSE g

BecomeGhost(p, able) ==
  /\ p \in online
  /\ Become(Withdrawn(p, able))
  /\ Counted(partyOf[p])
  /\ UNCHANGED <<online, vocation>>

\* Chat::removeUserFromChannels
RemovedFrom(p, channels) == [a \in Addresses |-> channels[a] \ {p}]

\* onCreatureDisappear
Logout(p, able) ==
  /\ p \in online
  /\ online' = online \ {p}
  /\ LET g == Withdrawn(p, able)
     IN  Become([g EXCEPT !.channel = RemovedFrom(p, @)])
  /\ Counted(partyOf[p])
  /\ UNCHANGED vocation

Login(p) ==
  /\ p \notin online
  /\ online' = online \cup {p}
  /\ UNCHANGED <<party, partyOf, invited, channel, vocation, stale>>

\* playerOpenChannel and playerCloseChannel
OpenChannel(p) ==
  /\ p \in online
  /\ partyOf[p] # NULL
  /\ channel' = [channel EXCEPT ![partyOf[p]] = @ \cup {p}]
  /\ UNCHANGED <<online, party, partyOf, invited, vocation, stale>>

CloseChannel(p) ==
  /\ p \in online
  /\ partyOf[p] # NULL
  /\ channel' = [channel EXCEPT ![partyOf[p]] = @ \ {p}]
  /\ UNCHANGED <<online, party, partyOf, invited, vocation, stale>>

\* setVocation, by a script or a promotion.  Nothing is counted again.
SetVocation(p, v) ==
  /\ p \in online
  /\ v # vocation[p]
  /\ vocation' = [vocation EXCEPT ![p] = v]
  /\ stale' = stale \cup ({partyOf[p]} \ {NULL})
  /\ UNCHANGED <<online, party, partyOf, invited, channel>>

----------------------------------------------------------------------------
Next ==
  \/ \E p, q \in Players : Invite(p, q) \/ Revoke(p, q)
  \/ \E p \in Players, a \in Addresses, able \in BOOLEAN : Join(p, a, able)
  \/ \E p, q \in Players, able \in BOOLEAN : Pass(p, q, able)
  \/ \E p \in Players, able \in BOOLEAN :
       \/ LeaveParty(p, able)
       \/ \E active \in BOOLEAN : Share(p, active, able)
       \/ GainPoints(p, able)
       \/ BecomeGhost(p, able)
       \/ Logout(p, able)
  \/ \E p \in Players : Login(p) \/ OpenChannel(p) \/ CloseChannel(p)
  \/ \E p \in Players, v \in VocationIds : SetVocation(p, v)

Spec == Init /\ [][Next]_vars

----------------------------------------------------------------------------
(* Properties                                                              *)

Distinct(s) == \A i, j \in DOMAIN s : s[i] = s[j] => i = j

\* The pointers of the players and the lists of the parties agree: a player has
\* a party exactly if it is alive and lists him, once, as its leader or as a
\* member; nobody outside the game is in one.
MembershipAgrees ==
  /\ \A a \in Addresses : party[a] # NULL =>
       /\ Distinct(party[a].members)
       /\ party[a].leader \notin ToSet(party[a].members)
       /\ \A p \in Crew(party[a]) : partyOf[p] = a
  /\ \A p \in Players : partyOf[p] # NULL =>
       /\ p \in online
       /\ party[partyOf[p]] # NULL
       /\ p \in Crew(party[partyOf[p]])

\* A player lists an invitation exactly if the party is alive and lists him; so
\* clearPartyInvitations never follows a pointer to a deleted party.  Nobody who
\* is out of the game, and no one of the party, stays invited to it.
InvitationsAgree ==
  /\ \A p \in Players, a \in Addresses :
       a \in invited[p] <=> party[a] # NULL /\ p \in party[a].invites
  /\ \A a \in Addresses : party[a] # NULL =>
       party[a].invites \subseteq online \ Crew(party[a])

\* A party with no member and nobody invited is disbanded, whoever left it: the
\* last member, the leader, or the last player who was invited.
PartyIsUsed ==
  \A a \in Addresses : party[a] # NULL => party[a].members # <<>> \/ party[a].invites # {}

\* A leader alone never shares experience with himself, at a bonus.
SharingNeedsTwo ==
  \A a \in Addresses : party[a] # NULL =>
    (party[a].active /\ party[a].enabled => party[a].members # <<>>)

\* The bonus is that of the vocations in the party now, whoever joined or left
\* and whatever else has happened to the party, up to the two values for a party
\* of two vocations.  Only a change of the vocation of somebody in it leaves it
\* out of date, and no longer than to the next join or leave.
BonusIsCurrent ==
  \A a \in Addresses \ stale : party[a] # NULL =>
    party[a].bonus \in {BonusOnJoin(party[a]), BonusOnLeave(party[a])}

\* A channel refers to its users by pointer: they are in the game.
ListenersAreOnline ==
  \A a \in Addresses : channel[a] \subseteq online

=============================================================================
