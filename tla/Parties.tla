-------------------------------- MODULE Parties --------------------------------
(***************************************************************************)
(* Parties: apps/api/src/modules/parties/service.ts.                       *)
(*                                                                         *)
(* Every membership change is one transaction that locks the party rows it *)
(* touches and reads them again under the lock, so it is one action here.  *)
(* Only a join by invite link keeps what it read before the lock, because  *)
(* the link may be rotated and the player moved in between.  The set of    *)
(* players in an active match is given by the module that composes parties *)
(* with the queue, which also runs the change hook.                        *)
(*                                                                         *)
(* Bounds: Party is the number of parties ever created, MaxInvites the     *)
(* number of invite links a party ever has.                                *)
(***************************************************************************)
EXTENDS Naturals, FiniteSets, Sequences

CONSTANTS Player, Party, NoParty, NoPlayer, MaxPartySize, MaxInvites

ASSUME PartyAssumption == NoParty \notin Party /\ NoPlayer \notin Player
ASSUME PartyBounds == MaxPartySize \in Nat \ {0} /\ MaxInvites \in Nat

VARIABLES
    memberOf,   \* party_members: one row per user at most
    leader,     \* parties.leader_steam_id, NoPlayer before the party exists
    disbanded,  \* parties with disbanded_at set
    invite,     \* number of the invite link that is valid now
    usedLink,   \* the link each player came in with, 1 for the founder
    kicked      \* for each player and party, the link that was valid when he was last kicked, 0 for never

partyVars == <<memberOf, leader, disbanded, invite, usedLink, kicked>>

Members(g) == {p \in Player : memberOf[p] = g}
Unused == {g \in Party : leader[g] = NoPlayer}

PartyTypeOK ==
    /\ memberOf \in [Player -> Party \cup {NoParty}]
    /\ leader \in [Party -> Player \cup {NoPlayer}]
    /\ disbanded \subseteq Party
    /\ invite \in [Party -> Nat]
    /\ usedLink \in [Player -> Nat]
    /\ kicked \in [Player \X Party -> Nat]

\* Nobody has a party yet
PartyInit ==
    /\ memberOf = [p \in Player |-> NoParty]
    /\ leader = [g \in Party |-> NoPlayer]
    /\ disbanded = {}
    /\ invite = [g \in Party |-> 1]
    /\ usedLink = [p \in Player |-> 1]
    /\ kicked = [pg \in Player \X Party |-> 0]

-----------------------------------------------------------------------------
\* The party a request works with: the one the player is in, or a new one of his own
EnsureParty(p, g) ==
    IF memberOf[p] # NoParty
    THEN g = memberOf[p] /\ UNCHANGED partyVars
    ELSE /\ g \in Unused
         /\ memberOf' = [memberOf EXCEPT ![p] = g]
         /\ leader' = [leader EXCEPT ![g] = p]
         /\ usedLink' = [usedLink EXCEPT ![p] = 1]
         /\ UNCHANGED <<disbanded, invite, kicked>>

\* removeMember without promotion: a party may be left with a leader who is gone
RemoveMember_NoPromotion(p, g, to) ==
    /\ memberOf' = [memberOf EXCEPT ![p] = to]
    /\ disbanded' = IF Members(g) = {p} THEN disbanded \cup {g} ELSE disbanded
    /\ UNCHANGED leader

\* Someone else is promoted when the leader goes, and an empty party is disbanded.
\* The code promotes the one who joined first; any of the others stands for him
RemoveMember(p, g, to) ==
    /\ memberOf' = [memberOf EXCEPT ![p] = to]
    /\ disbanded' = IF Members(g) = {p} THEN disbanded \cup {g} ELSE disbanded
    /\ IF leader[g] = p /\ Members(g) # {p}
       THEN \E heir \in Members(g) \ {p} : leader' = [leader EXCEPT ![g] = heir]
       ELSE UNCHANGED leader

\* What join checks again under the lock of both parties. `link` and `from` are what was read before it
MayJoin_StaleLink(p, g, link, from, busy) ==
    /\ g \notin disbanded
    /\ memberOf[p] # g /\ memberOf[p] = from
    /\ Cardinality(Members(g)) < MaxPartySize
    /\ (Members(g) \cup {p} \cup {q \in Player : from # NoParty /\ memberOf[q] = from}) \cap busy = {}

MayJoin(p, g, link, from, busy) ==
    /\ g \notin disbanded
    /\ invite[g] = link
    /\ memberOf[p] # g /\ memberOf[p] = from
    /\ Cardinality(Members(g)) < MaxPartySize
    /\ (Members(g) \cup {p} \cup {q \in Player : from # NoParty /\ memberOf[q] = from}) \cap busy = {}

JoinParty(p, g, link, from) ==
    /\ IF from = NoParty
       THEN memberOf' = [memberOf EXCEPT ![p] = g] /\ UNCHANGED <<leader, disbanded>>
       ELSE RemoveMember(p, from, g)
    /\ usedLink' = [usedLink EXCEPT ![p] = link]
    /\ UNCHANGED <<invite, kicked>>

LeaveParty(p, g, busy) ==
    /\ memberOf[p] = g
    /\ Members(g) \cap busy = {}
    /\ RemoveMember(p, g, NoParty)
    /\ UNCHANGED <<invite, usedLink, kicked>>

SetLeader(p, g, target) ==
    /\ memberOf[p] = g /\ leader[g] = p
    /\ memberOf[target] = g
    /\ leader' = [leader EXCEPT ![g] = target]
    /\ UNCHANGED <<memberOf, disbanded, invite, usedLink, kicked>>

RotateInvite(p, g) ==
    /\ memberOf[p] = g /\ leader[g] = p
    /\ invite[g] < MaxInvites
    /\ invite' = [invite EXCEPT ![g] = @ + 1]
    /\ UNCHANGED <<memberOf, leader, disbanded, usedLink, kicked>>

\* The old link dies with the kick
Kick_SameLink(p, g, target, busy) ==
    /\ memberOf[p] = g /\ leader[g] = p
    /\ target # p /\ memberOf[target] = g
    /\ Members(g) \cap busy = {}
    /\ RemoveMember(target, g, NoParty)
    /\ kicked' = [kicked EXCEPT ![<<target, g>>] = invite[g]]
    /\ UNCHANGED <<invite, usedLink>>

Kick(p, g, target, busy) ==
    /\ memberOf[p] = g /\ leader[g] = p
    /\ target # p /\ memberOf[target] = g
    /\ Members(g) \cap busy = {}
    /\ invite[g] < MaxInvites
    /\ RemoveMember(target, g, NoParty)
    /\ kicked' = [kicked EXCEPT ![<<target, g>>] = invite[g]]
    /\ invite' = [invite EXCEPT ![g] = @ + 1]
    /\ UNCHANGED usedLink

-----------------------------------------------------------------------------
\* A party that exists and is not disbanded has members, its leader is one of them, and it has room for them;
\* a disbanded one has nobody. Joins, leaves, kicks and promotions of several players meet here
PartyIsLed ==
    \A g \in Party \ Unused :
        /\ (g \in disbanded) <=> (Members(g) = {})
        /\ Members(g) # {} => leader[g] \in Members(g)
        /\ Cardinality(Members(g)) <= MaxPartySize

\* Nobody is in a party through a link from before he was kicked out of it: a join that read the link
\* before the kick and moves the player after it is refused
KickedStaysOut ==
    \A p \in Player, g \in Party : memberOf[p] = g => usedLink[p] > kicked[<<p, g>>]

\* Both of them, for every order of joins, leaves, kicks and new links
PartiesStand == PartyIsLed /\ KickedStaysOut
=============================================================================
