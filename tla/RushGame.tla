------------------------------ MODULE RushGame ------------------------------
(***************************************************************************)
(* One map of Rush on a game server: Valve's script with the block that     *)
(* takes the rooms of the veto (plugin/rush-script/rush_001.js), and the    *)
(* plugin beside it (MatchController.cs, StartCountdown.cs, ScoreTracker.cs *)
(* of RushsiteMatch.Core), which hands over the rooms, ends the warmup and  *)
(* keeps a score of its own by the events it sees.                          *)
(*                                                                         *)
(* The two talk through the console of the server, first in, first out. A   *)
(* round is a freeze time and the play after it; an event of the game       *)
(* reaches script and plugin before the next one. The engine ends the map   *)
(* at 8 wins, when the script says so, or after 15 rounds.                  *)
(*                                                                         *)
(* Rooms are seen by what the veto says of their slot: `astray` is the set  *)
(* of slots with another room than planned. Left out: who is on which side  *)
(* (`ready` says that everyone is in and in place), sending the rooms by    *)
(* hand, restarts of the game by an admin, and the maps of a series, which  *)
(* are in Series. Bounds: MaxFaults reloads, MaxDraws drawn rounds, and the *)
(* draws Draws of the script.                                              *)
(***************************************************************************)
EXTENDS Naturals, Sequences, FiniteSets

CONSTANTS Draws,      \* what a draw of the script may put astray: sets of slots from 1 to 5
          MaxFaults, MaxDraws

VARIABLES
    installed,  \* the script on the server: Valve's, ours, or one of ours that refuses the plan
    script,     \* its variables
    engine,     \* warmup, rounds played, and where the round is
    console,    \* commands of the server
    ready,      \* all players are in and on their side; of no use once the map is live
    plugin,     \* fields of MatchController
    snapshot,   \* MatchState on disk
    mapStart,   \* the timer that tells the plugin of a loaded map
    past        \* what has been reported and what has happened, for the properties

rushVars == <<installed, script, engine, console, ready, plugin, snapshot, mapStart, past>>

RoundsToWin == 8
MaxRounds == 15
StartRoom == 3
FinalRoom == [T |-> 6, CT |-> 0]     \* the enemy's, where a side wins the map
Side == {"T", "CT"}
Forward(slot, s) == IF s = "T" THEN slot + 1 ELSE slot - 1
NoWins == [s \in Side |-> 0]
Decider(wins) == \A s \in Side : wins[s] = RoundsToWin - 1

-----------------------------------------------------------------------------
\* The script

\* ResetGameState: rooms that were set are used again, others are drawn
Reset(forced, drawn) ==
    [forced |-> forced, astray |-> IF forced THEN {} ELSE drawn, room |-> StartRoom,
     convoy |-> FALSE, wins |-> NoWins, winner |-> "none"]

\* OnRoundEnd, MaybeSwapInDeciderRoom
RoundScored(s, winner) ==
    IF winner = "draw" THEN s
    ELSE LET wins == [s.wins EXCEPT ![winner] = @ + 1]
         IN  IF s.room = FinalRoom[winner]
             THEN [s EXCEPT !.wins = wins, !.winner = winner]
             ELSE [s EXCEPT !.wins = wins, !.room = Forward(@, winner), !.convoy = Decider(wins)]

\* The winner by the rules of the script: the castle's, then that of WinnerOnRoundsExhausted (which the
\* script states and does not call: the engine goes by the wins)
ScriptWinner(s) ==
    CASE s.winner # "none" -> s.winner
      [] s.winner = "none" /\ s.wins["T"] > s.wins["CT"] -> "T"
      [] s.winner = "none" /\ s.wins["T"] < s.wins["CT"] -> "CT"
      [] OTHER -> IF s.room > StartRoom THEN "T" ELSE IF s.room < StartRoom THEN "CT" ELSE "draw"

\* The engine ends the map at the script's word, after the last round, or at 8 wins
MapOver(s, rounds) == s.winner # "none" \/ rounds = MaxRounds \/ \E side \in Side : s.wins[side] = RoundsToWin
NextRound(e, over, winner) ==
    [e EXCEPT !.rounds = @ + 1, !.at = IF over THEN "over" ELSE "freeze", !.draws = IF winner = "draw" THEN @ + 1 ELSE @]

-----------------------------------------------------------------------------
\* The plugin

\* RushScoreTracker.RecordRound
RecordRound(p, winner) ==
    IF winner = "draw" \/ p.decided # "none" THEN p
    ELSE LET wins == [p.wins EXCEPT ![winner] = @ + 1]
             castle == p.front = FinalRoom[winner]
         IN  [p EXCEPT !.wins = wins,
                       !.front = IF castle THEN @ ELSE Forward(@, winner),
                       !.decided = IF castle \/ wins[winner] >= RoundsToWin THEN winner ELSE @]

MapDecided(p) == p.decided # "none" \/ p.round >= MaxRounds

\* FinishMap: the decided side, else the leading one
PluginWinner(p) ==
    CASE p.decided # "none" -> p.decided
      [] p.decided = "none" /\ p.wins["T"] > p.wins["CT"] -> "T"
      [] p.decided = "none" /\ p.wins["T"] < p.wins["CT"] -> "CT"
      [] OTHER -> "draw"

\* FireRushRooms; only the first sending differs from the others
Fire_KeepsConfirmed(p) == [p EXCEPT !.waiting = TRUE, !.resent = @ \/ p.sent, !.sent = TRUE]
Fire(p) == [p EXCEPT !.waiting = TRUE, !.resent = @ \/ p.sent, !.sent = TRUE, !.confirmed = FALSE]

\* FailRushRooms: the event is sent once for a map
Fail(p) == [p EXCEPT !.waiting = FALSE, !.confirmed = FALSE, !.failedSent = TRUE]

RushRoomsSettled_Always(p) == TRUE
RushRoomsSettled(p) == p.confirmed \/ p.failedSent

\* UpdateCountdown with StartCountdown.Update; "zero" is a deadline that has passed
Counted(p) ==
    LET step ==
            CASE p.phase # "Warmup" \/ p.countdown = "fired" -> p.countdown
              [] p.phase = "Warmup" /\ p.countdown # "fired" /\ ~ready -> "waiting"
              [] p.phase = "Warmup" /\ ready /\ p.countdown = "waiting" -> "running"
              [] p.phase = "Warmup" /\ ready /\ p.countdown = "zero" /\ RushRoomsSettled(p) -> "fired"
              [] OTHER -> p.countdown
    IN  [p EXCEPT !.countdown = step]
EndsWarmup(p) == p.countdown # "fired" /\ Counted(p).countdown = "fired"

\* SaveState with the fields that Restore reads
Snapshot(p) ==
    [phase |-> p.phase, round |-> p.round, front |-> p.front, wins |-> p.wins, decided |-> p.decided,
     confirmed |-> p.confirmed, failedSent |-> p.failedSent, mismatchSent |-> p.mismatchSent]

NewMatch ==
    [phase |-> "Warmup", round |-> 0, front |-> StartRoom, wins |-> NoWins, decided |-> "none",
     confirmed |-> FALSE, failedSent |-> FALSE, mismatchSent |-> FALSE,
     waiting |-> FALSE, sent |-> FALSE, resent |-> FALSE, countdown |-> "waiting"]

\* Restore, up to the rooms it sends in warmup
Restored_NoFront(s) ==
    [phase |-> s.phase, round |-> s.round, front |-> StartRoom, wins |-> s.wins, decided |-> s.decided,
     confirmed |-> s.confirmed, failedSent |-> s.failedSent, mismatchSent |-> s.mismatchSent,
     waiting |-> FALSE, sent |-> FALSE, resent |-> FALSE, countdown |-> IF s.phase = "Warmup" THEN "waiting" ELSE "fired"]
Restored(s) ==
    [phase |-> s.phase, round |-> s.round, front |-> s.front, wins |-> s.wins, decided |-> s.decided,
     confirmed |-> s.confirmed, failedSent |-> s.failedSent, mismatchSent |-> s.mismatchSent,
     waiting |-> FALSE, sent |-> FALSE, resent |-> FALSE, countdown |-> IF s.phase = "Warmup" THEN "waiting" ELSE "fired"]

\* OnRushMatchLive, GoLive. How often the rooms were sent is not asked again
GoLive(p) == [p EXCEPT !.phase = "Live", !.round = 0, !.countdown = "fired", !.sent = FALSE, !.resent = FALSE]

\* CheckRushRoom: the room of the front is expected, except in the decider, which is Valve's. No two slots
\* have the same room
ExpectsOther_InDecider(p, s) == p.front # s.room \/ s.convoy \/ s.room \in s.astray
ExpectsOther(p, s) == ~Decider(p.wins) /\ (p.front # s.room \/ s.convoy \/ s.room \in s.astray)

-----------------------------------------------------------------------------
\* Start, after the script has been activated. The timer of the map may still come (EnsureMatch)
RushInit ==
    /\ installed \in {"valve", "ours", "refuses"}
    /\ \E drawn \in Draws : script = Reset(FALSE, drawn)
    /\ engine = [warmup |-> TRUE, rounds |-> 0, at |-> "freeze", draws |-> 0]
    /\ console = <<"rooms">>
    /\ ready = FALSE
    /\ plugin = Fire(NewMatch)
    /\ snapshot = Snapshot(plugin)
    /\ mapStart \in BOOLEAN
    /\ past = [told |-> "nothing", unseen |-> FALSE, strayed |-> FALSE, ended |-> FALSE, faults |-> 0]

\* A handler of the plugin that ends in UpdateCountdown; EndRushWarmup writes the state
Handled(p, saves) ==
    /\ plugin' = Counted(p)
    /\ snapshot' = IF saves \/ EndsWarmup(p) THEN Snapshot(p) ELSE snapshot
    /\ past' = [past EXCEPT !.ended = @ \/ EndsWarmup(p)]
Ending(p) == IF EndsWarmup(p) THEN <<"warmup_end">> ELSE <<>>

LineupChanges ==
    /\ plugin.phase = "Warmup"
    /\ ready' = ~ready
    /\ UNCHANGED <<installed, script, engine, console, plugin, snapshot, mapStart, past>>

DeadlinePasses ==
    /\ plugin.phase = "Warmup" /\ plugin.countdown = "running"
    /\ plugin' = [plugin EXCEPT !.countdown = "zero"]
    /\ UNCHANGED <<installed, script, engine, console, ready, snapshot, mapStart, past>>

\* TickRushWarmup, or the lineup check of the next frame
CheckLineup ==
    /\ Counted(plugin) # plugin
    /\ Handled(plugin, FALSE)
    /\ console' = console \o Ending(plugin)
    /\ UNCHANGED <<installed, script, engine, ready, mapStart>>

\* TickRushRoomsReply, when the timeout has passed
ReplyOverdue ==
    /\ plugin.phase \in {"Warmup", "Live"} /\ plugin.waiting /\ ~RushRoomsSettled(plugin)
    /\ \/ /\ plugin.phase = "Warmup" /\ ~plugin.resent
          /\ plugin' = Fire(plugin)
          /\ console' = Append(console, "rooms")
          /\ UNCHANGED <<snapshot, past>>
       \/ /\ ~(plugin.phase = "Warmup" /\ ~plugin.resent)
          /\ Handled(Fail(plugin), TRUE)
          /\ console' = console \o Ending(Fail(plugin))
    /\ UNCHANGED <<installed, script, engine, ready, mapStart>>

\* OnPlayerChat, RushsiteApplyRooms: a bad set, or one that comes too late, leaves the rooms alone
RunRooms ==
    /\ console # <<>> /\ Head(console) = "rooms"
    /\ LET applies == installed = "ours" /\ (engine.warmup \/ engine.rounds = 0)
       IN  /\ script' = IF applies THEN Reset(TRUE, {}) ELSE script
           /\ console' = Tail(console) \o
                  (IF applies THEN <<"applied">> ELSE IF installed = "valve" THEN <<>> ELSE <<"rejected">>)
    /\ UNCHANGED <<installed, engine, ready, plugin, snapshot, mapStart, past>>

\* OnRushRoomsApplied, with the rooms in play; OnRushRoomsRejected
RunReply ==
    /\ console # <<>> /\ Head(console) \in {"applied", "rejected"}
    /\ LET p == IF Head(console) = "applied" THEN [plugin EXCEPT !.waiting = FALSE, !.confirmed = TRUE] ELSE Fail(plugin)
       IN  \/ /\ Head(console) = "applied" \/ ~plugin.failedSent
              /\ Handled(p, TRUE)
              /\ console' = Tail(console) \o Ending(p)
           \/ /\ Head(console) = "rejected" /\ plugin.failedSent
              /\ plugin' = p
              /\ console' = Tail(console)
              /\ UNCHANGED <<snapshot, past>>
    /\ UNCHANGED <<installed, script, engine, ready, mapStart>>

RunWarmupEnd ==
    /\ console # <<>> /\ Head(console) = "warmup_end"
    /\ engine' = [engine EXCEPT !.warmup = FALSE]
    /\ console' = Tail(console)
    /\ UNCHANGED <<installed, script, ready, plugin, snapshot, mapStart, past>>

\* A config that clears the hold of the warmup lets the engine end it by itself
EngineEndsWarmup ==
    /\ engine.warmup
    /\ engine' = [engine EXCEPT !.warmup = FALSE]
    /\ UNCHANGED <<installed, script, console, ready, plugin, snapshot, mapStart, past>>

Told(p) == IF p.confirmed THEN "confirmed" ELSE "unconfirmed"

\* round_announce_match_start or begin_new_match before the first freeze time ends
StartSignal ==
    /\ ~engine.warmup /\ plugin.phase = "Warmup"
    /\ plugin' = GoLive(plugin)
    /\ snapshot' = Snapshot(GoLive(plugin))
    /\ past' = [past EXCEPT !.told = Told(plugin), !.unseen = mapStart]
    /\ ready' = FALSE
    /\ UNCHANGED <<installed, script, engine, console, mapStart>>

\* OnRoundFreezeEnd; the arena cannot always be read (`seen`)
FreezeEnd(seen) ==
    /\ ~engine.warmup /\ engine.at = "freeze"
    /\ engine' = [engine EXCEPT !.at = "play"]
    /\ LET live == IF plugin.phase = "Warmup" THEN GoLive(plugin) ELSE plugin
           astray == script.room \in script.astray /\ ~script.convoy
           p == [live EXCEPT !.mismatchSent = @ \/ (seen /\ ExpectsOther(live, script))]
       IN  /\ plugin' = p
           /\ snapshot' = IF p # plugin THEN Snapshot(p) ELSE snapshot
           /\ past' = [past EXCEPT !.told = IF plugin.phase = "Warmup" THEN Told(plugin) ELSE @,
                                   !.unseen = IF plugin.phase = "Warmup" THEN mapStart ELSE @,
                                   !.strayed = @ \/ (seen /\ astray)]
    /\ ready' = FALSE
    /\ UNCHANGED <<installed, script, console, mapStart>>

\* round_end reaches the script and the plugin. A round is longer than the timer of a loaded
\* map and the commands of the console
RoundEnd(winner) ==
    /\ engine.at = "play" /\ ~mapStart /\ console = <<>>
    /\ winner = "draw" => engine.draws < MaxDraws
    /\ script' = RoundScored(script, winner)
    /\ engine' = NextRound(engine, MapOver(script', engine.rounds + 1), winner)
    /\ plugin' = IF plugin.phase = "Live" THEN RecordRound([plugin EXCEPT !.round = @ + 1], winner) ELSE plugin
    /\ snapshot' = IF plugin.phase = "Live" THEN Snapshot(plugin') ELSE snapshot
    /\ UNCHANGED <<installed, console, ready, mapStart, past>>

\* cs_win_panel_match, or the plugin's own count when the panel does not come
FinishMap ==
    /\ plugin.phase = "Live" /\ (engine.at = "over" \/ MapDecided(plugin))
    /\ plugin' = [plugin EXCEPT !.phase = "Ended"]
    /\ snapshot' = Snapshot(plugin')
    /\ UNCHANGED <<installed, script, engine, console, ready, mapStart, past>>

\* The map is loaded again in warmup, and the script with it
ReloadMap ==
    /\ past.faults < MaxFaults
    /\ engine.warmup /\ plugin.phase = "Warmup" /\ console = <<>>
    /\ \E drawn \in Draws : script' = Reset(FALSE, drawn)
    /\ mapStart' = TRUE
    /\ past' = [past EXCEPT !.faults = @ + 1]
    /\ UNCHANGED <<installed, engine, console, ready, plugin, snapshot>>

\* OnMapStart, a second later
MapStarts ==
    /\ mapStart
    /\ mapStart' = FALSE
    /\ \/ /\ plugin.phase = "Warmup"
          /\ plugin' = Fire(plugin)
          /\ console' = Append(console, "rooms")
       \/ /\ plugin.phase # "Warmup"
          /\ UNCHANGED <<plugin, console>>
    /\ UNCHANGED <<installed, script, engine, ready, snapshot, past>>

\* The plugin is loaded again, its timers with it, and restores what it snapshot
ReloadPlugin ==
    /\ past.faults < MaxFaults
    /\ plugin' = IF snapshot.phase = "Warmup" THEN Fire(Restored(snapshot)) ELSE Restored(snapshot)
    /\ console' = IF snapshot.phase = "Warmup" THEN Append(console, "rooms") ELSE console
    /\ snapshot' = Snapshot(plugin')
    /\ mapStart' = FALSE
    /\ past' = [past EXCEPT !.faults = @ + 1]
    /\ UNCHANGED <<installed, script, engine, ready>>

RushNext ==
    \/ LineupChanges \/ DeadlinePasses \/ CheckLineup \/ ReplyOverdue
    \/ RunRooms \/ RunReply \/ RunWarmupEnd \/ EngineEndsWarmup \/ StartSignal
    \/ \E seen \in BOOLEAN : FreezeEnd(seen)
    \/ \E winner \in Side \cup {"draw"} : RoundEnd(winner)
    \/ FinishMap \/ ReloadMap \/ MapStarts \/ ReloadPlugin

RushSpec == RushInit /\ [][RushNext]_rushVars

-----------------------------------------------------------------------------
\* ScoreTracker.cs 94-96: the plugin's count mirrors the script, across reloads: the same front, wins and
\* decider, the map decided in the same round, and for the same side
FrontAgrees ==
    plugin.phase \in {"Live", "Ended"} =>
        /\ plugin.front = script.room /\ plugin.wins = script.wins /\ plugin.round = engine.rounds
        /\ engine.at = "freeze" => (Decider(plugin.wins) <=> script.convoy)
        /\ MapDecided(plugin) <=> engine.at = "over"
        /\ engine.at = "over" => PluginWinner(plugin) = ScriptWinner(script)

\* docs/CONTRACTS.md 122-124: rooms told to be confirmed are in play, unless the map was loaded again in the
\* second before; and the mismatch is reported exactly when a round was seen in a room the veto did not
\* put there
RoomsAsTold ==
    /\ (past.told = "confirmed" /\ ~past.unseen) => script.astray = {}
    /\ plugin.mismatchSent <=> past.strayed

\* plugin/README.md 61: the plugin waits for the answer with a deadline, and when it has ended the warmup
\* the rooms are in play or reported to have failed
AnswerAwaited ==
    /\ (plugin.phase = "Warmup" /\ ~RushRoomsSettled(plugin)) => plugin.waiting
    /\ (past.ended /\ past.faults = 0) => script.forced \/ plugin.failedSent

RushIsMirrored == FrontAgrees /\ RoomsAsTold /\ AnswerAwaited
=============================================================================
