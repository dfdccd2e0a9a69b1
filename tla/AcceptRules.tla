----------------------------- MODULE AcceptRules -----------------------------
(***************************************************************************)
(* The two pure decisions of apps/api/src/modules/match/accept.ts: what an  *)
(* accept window resolves to, and who forfeits when players are missing.   *)
(* Arrays of players are sets here: the code only filters and counts them. *)
(***************************************************************************)
EXTENDS MatchPlayers

OutcomeKind == {"pending", "all_accepted", "failed"}
FailReason == {"none", "declined", "timeout"}

AcceptOutcome ==
    [kind : OutcomeKind, reason : FailReason, penalize : SUBSET Player,
     requeueTickets : SUBSET Ticket, dropTickets : SUBSET Ticket]

Unresolved(kind) ==
    [kind |-> kind, reason |-> "none", penalize |-> {}, requeueTickets |-> {}, dropTickets |-> {}]

\* On a decline only the decliners are at fault. On a timeout everyone who did not accept is
Offenders_NoAnswer(accepted, declined) == Player \ accepted

Offenders(accepted, declined) ==
    IF declined # {} THEN declined ELSE Player \ accepted

TicketsHit_Whole(players) == {t \in TicketsOfPlayers : MembersOf(t) \subseteq players}
TicketsHit(players) == {t \in TicketsOfPlayers : MembersOf(t) \cap players # {}}

AllIn_Answered(accepted, declined) == accepted \cup declined = Player
AllIn(accepted, declined) == accepted = Player /\ declined = {}

\* `accepted` and `declined` are the players whose row has the flag set. Both may hold:
\* a player who accepted can still decline
ResolveAccept(accepted, declined, timedOut) ==
    LET offenders == Offenders(accepted, declined)
    IN  IF AllIn(accepted, declined)
        THEN Unresolved("all_accepted")
        ELSE IF declined = {} /\ ~timedOut
        THEN Unresolved("pending")
        ELSE [kind |-> "failed",
              reason |-> IF declined # {} THEN "declined" ELSE "timeout",
              penalize |-> offenders,
              requeueTickets |-> TicketsOfPlayers \ TicketsHit(offenders),
              dropTickets |-> TicketsHit(offenders)]

ResolveAbandon_FirstTeam(missing) ==
    LET awayA == TeamA \cap missing
        awayB == TeamB \cap missing
    IN  CASE awayA # {} -> [kind |-> "forfeit", loser |-> "A", forfeiters |-> awayA]
          [] awayA = {} /\ awayB # {} -> [kind |-> "forfeit", loser |-> "B", forfeiters |-> awayB]
          [] OTHER -> [kind |-> "void", loser |-> "none", forfeiters |-> {}]

\* A team with missing players forfeits. When both teams are missing someone nobody gets rated
ResolveAbandon(missing) ==
    LET awayA == TeamA \cap missing
        awayB == TeamB \cap missing
    IN  CASE awayA # {} /\ awayB = {} -> [kind |-> "forfeit", loser |-> "A", forfeiters |-> awayA]
          [] awayB # {} /\ awayA = {} -> [kind |-> "forfeit", loser |-> "B", forfeiters |-> awayB]
          [] OTHER -> [kind |-> "void", loser |-> "none", forfeiters |-> awayA \cup awayB]

-----------------------------------------------------------------------------
\* accept.ts 24-43: the match goes on exactly when each player accepted and none took it back; a
\* window that fails blames someone, never a player who did what was asked while another refused,
\* and each ticket either goes back without an offender on it or is dropped with one
WindowIsJust(accepted, declined, timedOut) ==
    LET outcome == ResolveAccept(accepted, declined, timedOut)
    IN  /\ outcome.kind = "all_accepted" <=> \A p \in Player : p \in accepted \ declined
        /\ outcome.kind = "pending" => ~timedOut /\ declined = {}
        /\ outcome.kind = "failed" =>
              /\ outcome.penalize # {}
              /\ \A p \in outcome.penalize : p \in declined \/ (declined = {} /\ p \notin accepted)
              /\ outcome.dropTickets = {TicketOf[p] : p \in outcome.penalize}
              /\ outcome.requeueTickets = TicketsOfPlayers \ outcome.dropTickets

\* accept.ts 57-65: one team loses by forfeit, the one with everyone who is missing, and nobody when
\* both teams miss someone
ForfeitIsJust(missing) ==
    LET outcome == ResolveAbandon(missing)
    IN  /\ outcome.forfeiters = missing
        /\ outcome.kind = "forfeit" => missing # {} /\ missing \subseteq TeamOf(outcome.loser)
        /\ (missing \cap TeamA # {} /\ missing \cap TeamB # {}) => outcome.kind = "void"
=============================================================================
