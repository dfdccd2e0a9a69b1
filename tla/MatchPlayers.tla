---------------------------- MODULE MatchPlayers ----------------------------
(***************************************************************************)
(* The people of one match: the two rosters stored in matches.teams and    *)
(* the queue tickets their match_players rows point to.                    *)
(***************************************************************************)
CONSTANTS
    Player,     \* every player of the match
    TeamA, TeamB,
    Ticket,     \* queue tickets the match consumed
    TicketOf    \* TicketOf[p]: the ticket player p queued on

ASSUME TeamAssumption ==
    /\ TeamA \cup TeamB = Player
    /\ TeamA \cap TeamB = {}
ASSUME TicketOfAssumption == TicketOf \in [Player -> Ticket]

Team == {"A", "B"}
TeamOf(w) == IF w = "A" THEN TeamA ELSE TeamB
OtherTeam(p) == IF p \in TeamA THEN TeamB ELSE TeamA
Opponent(w) == IF w = "A" THEN "B" ELSE "A"

MembersOf(t) == {p \in Player : TicketOf[p] = t}
TicketsOfPlayers == {TicketOf[p] : p \in Player}
=============================================================================
