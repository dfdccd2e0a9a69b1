----------------------------- MODULE GameServer -----------------------------
(***************************************************************************)
(* The game server of one single-map match as the API sees it: the match   *)
(* plugin (MatchController.cs) with its webhook queue, inside a process    *)
(* the host agent (manager.go) watches.                                    *)
(*                                                                         *)
(* The plugin sends its events from one first-in first-out queue and       *)
(* repeats the head until the API answers or ten attempts have failed, so  *)
(* an event can reach the API several times or never. The agent reports a  *)
(* crash on its own, outside that queue.                                   *)
(* Bounds: Rounds per match and MaxOutbox events in the plugin's queue.    *)
(***************************************************************************)
EXTENDS MatchPlayers, Sequences, Naturals

CONSTANTS Rounds, MaxOutbox

ASSUME GameBounds == Rounds \in Nat /\ MaxOutbox \in Nat

VARIABLES
    game,        \* "off", "boot", "warmup", "live", "over" (plugin is done) or "dead"
    present,     \* players on the server
    round,       \* rounds finished
    outbox,      \* events the plugin has still to deliver, oldest first
    crashReport  \* the agent reports a crashed process

gameVars == <<game, present, round, outbox, crashReport>>

ServerFault == {"server_crashed", "map_load_failed"}
PlayerFault == {"no_show", "disconnected"}

ServerReady == [type |-> "server_ready"]
PlayerConnected(p) == [type |-> "player_connected", steamId |-> p]
MatchStarted == [type |-> "match_started"]
RoundEnd(n) == [type |-> "round_end", round |-> n]
MatchEnd(w) == [type |-> "match_end", winnerTeam |-> w]
MatchAbandoned(reason, missing) ==
    [type |-> "match_abandoned", reason |-> reason, missingSteamIds |-> missing]
ServerCrashed == MatchAbandoned("server_crashed", {})

Winner == Team \cup {"draw"}
Event ==
    {ServerReady, MatchStarted}
        \cup {PlayerConnected(p) : p \in Player}
        \cup {RoundEnd(n) : n \in 1..Rounds}
        \cup {MatchEnd(w) : w \in Winner}
        \cup {MatchAbandoned(r, m) : r \in PlayerFault \cup ServerFault, m \in SUBSET Player}

GamePhase == {"off", "boot", "warmup", "live", "over", "dead"}
Running == game \in {"boot", "warmup", "live", "over"}
Playing == game \in {"warmup", "live"}

GameTypeOK ==
    /\ game \in GamePhase
    /\ present \in SUBSET Player
    /\ round \in 0..Rounds
    /\ outbox \in Seq(Event)
    /\ crashReport \in BOOLEAN

GameInit ==
    /\ game = "off" /\ present = {} /\ round = 0
    /\ outbox = <<>> /\ crashReport = FALSE

Enqueue(e) ==
    /\ Len(outbox) < MaxOutbox
    /\ outbox' = Append(outbox, e)

-----------------------------------------------------------------------------
\* The agent launches the process. It refuses a second server for the same match
StartServer ==
    /\ game' = IF game \in {"off", "dead"} THEN "boot" ELSE game
    /\ UNCHANGED <<present, round, outbox, crashReport>>

\* The agent stops the process and everything the plugin still held is lost
StopServer ==
    /\ game' = "off"
    /\ present' = {}
    /\ round' = 0
    /\ outbox' = <<>>
    /\ UNCHANGED crashReport

\* What the API may receive now
Deliverables ==
    (IF outbox = <<>> THEN {} ELSE {Head(outbox)}) \cup (IF crashReport THEN {ServerCrashed} ELSE {})

\* The head was answered, or given up after its last attempt
NextWebhook ==
    /\ outbox # <<>>
    /\ outbox' = Tail(outbox)
    /\ UNCHANGED <<game, present, round, crashReport>>

WarmupStart ==
    /\ game = "boot"
    /\ game' = "warmup"
    /\ Enqueue(ServerReady)
    /\ UNCHANGED <<present, round, crashReport>>

Connect(p) ==
    /\ Playing
    /\ p \notin present
    /\ present' = present \cup {p}
    /\ Enqueue(PlayerConnected(p))
    /\ UNCHANGED <<game, round, crashReport>>

\* player_disconnected only clears a flag no decision reads, so it is not queued
Disconnect(p) ==
    /\ Playing
    /\ p \in present
    /\ present' = present \ {p}
    /\ UNCHANGED <<game, round, outbox, crashReport>>

\* Valve's own start signal can fire with players missing
GoLive ==
    /\ game = "warmup"
    /\ present # {}
    /\ game' = "live"
    /\ Enqueue(MatchStarted)
    /\ UNCHANGED <<present, round, crashReport>>

EndRound ==
    /\ game = "live"
    /\ round < Rounds
    /\ round' = round + 1
    /\ Enqueue(RoundEnd(round + 1))
    /\ UNCHANGED <<game, present, crashReport>>

FinishMap(w) ==
    /\ game = "live"
    /\ round > 0
    /\ game' = "over"
    /\ Enqueue(MatchEnd(w))
    /\ UNCHANGED <<present, round, crashReport>>

\* A grace period ran out for someone: everyone who is away is reported missing
Abandon(reason) ==
    /\ Playing
    /\ present # Player
    /\ game' = "over"
    /\ Enqueue(MatchAbandoned(reason, Player \ present))
    /\ UNCHANGED <<present, round, crashReport>>

\* watch() sees a process that ended without being asked to. Its queue dies with it
ProcessCrash ==
    /\ Running
    /\ game' = "dead"
    /\ crashReport' = TRUE
    /\ outbox' = <<>>
    /\ present' = {}
    /\ UNCHANGED round
=============================================================================
