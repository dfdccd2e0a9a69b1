-------------------------------- MODULE Series --------------------------------
(***************************************************************************)
(* One bracket match played as a best-of series on one server: the plugin  *)
(* that plays the maps (MatchController.cs, SeriesTracker.cs), the match   *)
(* row and its map rows (match/flow.ts, match/series.ts) and the games the *)
(* bracket keeps (tournaments/bracket.ts).  A series whose server dies     *)
(* goes on in a new match, after the maps that are decided.                *)
(*                                                                         *)
(* A webhook is handled by one transaction and the listener calls after    *)
(* it, which are jobs that a restart of the API loses.  Claims, accept     *)
(* window and veto are in Tournament and MatchFlow.  What a server does    *)
(* after its match is over is dropped by handleEvent and left out.         *)
(***************************************************************************)
EXTENDS Naturals, FiniteSets, Sequences

CONSTANTS
    BestOf,
    Side,           \* the two sides of the bracket match, who are the teams of its matches
    MaxMatches,     \* bound: matches made for the bracket match
    MaxOutbox,      \* bound: webhooks waiting in the plugin
    MaxInFlight,    \* bound: webhooks being handled at once
    MaxFaults       \* bound: reloads of the plugin and restarts of the API

ASSUME SeriesAssumption ==
    /\ BestOf \in Nat \ {0} /\ {MaxMatches, MaxOutbox, MaxInFlight, MaxFaults} \subseteq Nat
    /\ Cardinality(Side) = 2 /\ {"draw", "none"} \cap Side = {}

Map == 1..BestOf
Match == 1..MaxMatches
None == 0
Level == "draw"
WinsNeeded == BestOf \div 2 + 1

\* `maps` names the winner of every map that is decided
MapWins(maps, s) == Cardinality({n \in DOMAIN maps : maps[n] = s})
WinsOf(maps) == [s \in Side |-> MapWins(maps, s)]
SeriesWinner(wins) == IF \E s \in Side : wins[s] >= WinsNeeded
                      THEN CHOOSE s \in Side : wins[s] >= WinsNeeded ELSE Level

\* One more map; and the maps of others where there is none
WithMap(maps, n, w) == [k \in DOMAIN maps \cup {n} |-> IF k = n THEN w ELSE maps[k]]
FillIn(maps, others) == [n \in DOMAIN maps \cup DOMAIN others |-> IF n \in DOMAIN maps THEN maps[n] ELSE others[n]]

VARIABLES
    bm,         \* the bracket match: status, games (map to winner), live match, winner
    match,      \* rows of matches: status, map rows that are done, gameNumber
    server,     \* the plugin on the server of the last match
    outbox,     \* webhooks of that plugin, oldest first
    job,        \* what webhook handlers have still to do after their commit
    reloads, crashes

vars == <<bm, match, server, outbox, job, reloads, crashes>>
counts == <<reloads, crashes>>
Fault == reloads + crashes < MaxFaults

Off == [match |-> None, phase |-> "off", map |-> 0, loading |-> FALSE, wins |-> WinsOf(<<>>), results |-> <<>>, over |-> FALSE]

Init ==
    /\ bm = [status |-> "ready", games |-> <<>>, live |-> None, winner |-> "none", how |-> "none"]
    /\ match = [m \in Match |-> [status |-> "none", maps |-> <<>>, from |-> 1]]
    /\ server = Off /\ outbox = <<>> /\ job = {}
    /\ reloads = 0 /\ crashes = 0

Terminal(m) == match[m].status \in {"finished", "abandoned", "cancelled"}
Unused == {m \in Match : match[m].status = "none"}
Playing == server.match # None /\ match[server.match].status = "serving"

-----------------------------------------------------------------------------
\* The scheduler, once the bracket match is ready: gameNumber and priorMaps come from its games

CreateMatch(m, from, prior) ==
    /\ bm.status = "ready" /\ m \in Unused /\ \A l \in Unused : m <= l
    /\ match' = [match EXCEPT ![m] = [status |-> "starting", maps |-> prior, from |-> from]]
    /\ bm' = [bm EXCEPT !.status = "live", !.live = m]
    /\ UNCHANGED <<server, outbox, job, counts>>

StartSeries_NoPriorMaps(m) == CreateMatch(m, Cardinality(DOMAIN bm.games) + 1, <<>>)

StartSeries(m) == CreateMatch(m, Cardinality(DOMAIN bm.games) + 1, bm.games)

Fresh(m, wins) ==
    [Off EXCEPT !.match = m, !.phase = "warmup", !.map = match[m].from, !.wins = wins]

Launch(m, wins) ==
    /\ match[m].status = "starting" /\ match[m].from <= BestOf
    /\ match' = [match EXCEPT ![m].status = "serving"]
    /\ server' = Fresh(m, wins) /\ outbox' = <<>>
    /\ UNCHANGED <<bm, job, counts>>

LaunchServer_NoWins(m) == Launch(m, WinsOf(<<>>))

\* The start request carries the wins of the map rows
LaunchServer(m) == Launch(m, WinsOf(match[m].maps))

-----------------------------------------------------------------------------
\* The plugin

Send(events) == Len(outbox) + Len(events) <= MaxOutbox /\ outbox' = outbox \o events

MapEnd(n, w) == [type |-> "map_end", map |-> n, winner |-> w, maps |-> <<>>]
MatchEnd(w, maps) == [type |-> "match_end", map |-> 0, winner |-> w, maps |-> maps]
MatchAbandoned(absent) == [type |-> "match_abandoned", map |-> 0, winner |-> absent, maps |-> <<>>]

\* Everyone is in and on their side
GoLive ==
    /\ Playing /\ server.phase = "warmup"
    /\ server' = [server EXCEPT !.phase = "live"]
    /\ UNCHANGED <<bm, match, outbox, job, counts>>

Leader(wins) == IF \E s \in Side : \A t \in Side \ {s} : wins[s] > wins[t]
                THEN CHOOSE s \in Side : \A t \in Side \ {s} : wins[s] > wins[t] ELSE Level

\* RecordMap: a drawn map credits nobody; the series is over with a majority or after the last map
FinishMap(w) ==
    /\ Playing /\ server.phase = "live"
    /\ LET wins == IF w = Level THEN server.wins ELSE [server.wins EXCEPT ![w] = @ + 1]
           results == WithMap(server.results, server.map, w)
           over == SeriesWinner(wins) # Level \/ server.map >= BestOf
       IN  /\ server' = [server EXCEPT !.wins = wins, !.results = results, !.over = over,
                                       !.phase = IF over THEN "ended" ELSE "between"]
           /\ Send(<<MapEnd(server.map, w)>> \o
                   IF over THEN <<MatchEnd(IF SeriesWinner(wins) # Level THEN SeriesWinner(wins) ELSE Leader(wins), results)>>
                   ELSE <<>>)
    /\ UNCHANGED <<bm, match, job, counts>>

\* absent: the sides that miss someone, or nobody when a map did not load
Abandon(absent) ==
    /\ server' = [server EXCEPT !.phase = "abandoned", !.loading = FALSE]
    /\ Send(<<MatchAbandoned(absent)>>)
    /\ UNCHANGED <<bm, match, job, counts>>

CheckAbandon(absent) ==
    /\ Playing /\ server.phase \in {"warmup", "live", "between"} /\ ~server.loading
    /\ Abandon(absent)

\* Advance, and the level change to the next map; without one the match is abandoned
LoadNextMap ==
    /\ Playing /\ server.phase = "between" /\ ~server.loading
    /\ IF server.over \/ server.map >= BestOf
       THEN Abandon({})
       ELSE /\ server' = [server EXCEPT !.map = @ + 1, !.loading = TRUE]
            /\ UNCHANGED <<bm, match, outbox, job, counts>>

OnMapStart ==
    /\ Playing /\ server.loading
    /\ server' = [server EXCEPT !.loading = FALSE, !.phase = "warmup"]
    /\ UNCHANGED <<bm, match, outbox, job, counts>>

LoadTimesOut == Playing /\ server.loading /\ Abandon({})

\* Restore from match_state.json, which every change above has written: what is not in it is that a
\* map is being loaded, and the webhooks that wait
Reload ==
    /\ Playing /\ Fault
    /\ reloads' = reloads + 1
    /\ server' = [server EXCEPT !.loading = FALSE]
    /\ outbox' = <<>>
    /\ UNCHANGED <<bm, match, job, crashes>>

-----------------------------------------------------------------------------
\* The transactions of a webhook, and what is left to do after them

Then(todo) == job' = job \cup todo

\* The listeners hear of the end: how it ended, the maps that count, the sides that forfeit
Result(m, how, winner, maps, absent) ==
    [match |-> m, todo |-> "result", how |-> how, winner |-> winner, maps |-> maps, absent |-> absent]

Decided(maps) == [n \in {n \in DOMAIN maps : maps[n] # Level} |-> maps[n]]

\* finishMatch with seriesOutcome: `maps` of the plugin fills in rows that are missing, the rows decide,
\* and the winner the plugin names counts only when they cannot.  `done` is the job this is part of
FinishMatch(m, winner, maps, done) ==
    IF Terminal(m) THEN job' = job \ done /\ UNCHANGED match
    ELSE LET rows == FillIn(match[m].maps, maps)
             byRows == SeriesWinner(WinsOf(rows))
             w == IF byRows # Level THEN byRows ELSE winner
         IN  /\ match' = [match EXCEPT ![m].status = "finished", ![m].maps = rows]
             /\ job' = (job \ done) \cup {Result(m, "completed", w, Decided(rows), {})}

RecordRow(m, n, w) ==
    LET rows == WithMap(match[m].maps, n, w)
    IN  /\ match' = [match EXCEPT ![m].maps = rows]
        /\ Then({[match |-> m, todo |-> "map", map |-> n, winner |-> w, decided |-> SeriesWinner(WinsOf(rows))]})

EndSeriesMap_Again(m, n, w) ==
    IF Terminal(m) THEN UNCHANGED <<match, job>> ELSE RecordRow(m, n, w)

\* A map that is decided stays as it is
EndSeriesMap(m, n, w) ==
    IF Terminal(m) \/ n \in DOMAIN match[m].maps THEN UNCHANGED <<match, job>> ELSE RecordRow(m, n, w)

EndUnplayed(m, status, absent) ==
    IF Terminal(m) THEN UNCHANGED <<match, job>>
    ELSE /\ match' = [match EXCEPT ![m].status = status]
         /\ Then({Result(m, status, Level, <<>>, absent)})

Handle(m, e) ==
    CASE e.type = "map_end" -> EndSeriesMap(m, e.map, e.winner)
      [] e.type = "match_end" -> FinishMatch(m, e.winner, e.maps, {})
      [] OTHER -> EndUnplayed(m, IF e.winner = {} THEN "cancelled" ELSE "abandoned", e.winner)

\* The oldest webhook is handled; it is sent again when its answer did not arrive
Deliver(answered) ==
    /\ Playing /\ outbox # <<>> /\ Cardinality(job) < MaxInFlight
    /\ outbox' = IF answered THEN Tail(outbox) ELSE outbox
    /\ Handle(server.match, Head(outbox))
    /\ UNCHANGED <<bm, server, counts>>

\* Given up after the last attempt
GiveUp ==
    /\ Playing /\ outbox # <<>>
    /\ outbox' = Tail(outbox)
    /\ UNCHANGED <<bm, match, server, job, counts>>

\* The server crashed, was not to be had, refused the map number, or an admin cancelled the match
EndsUnplayed(m) ==
    /\ match[m].status \in {"starting", "serving"}
    /\ EndUnplayed(m, "cancelled", {})
    /\ UNCHANGED <<bm, server, outbox, counts>>

-----------------------------------------------------------------------------
\* The bracket

Live(m) == bm.status = "live" /\ bm.live = m


RecordMap(j) == IF j.map \in DOMAIN bm.games THEN bm ELSE [bm EXCEPT !.games = WithMap(@, j.map, j.winner)]

\* handleMapResult, then finishMatch when the map decided the series
MapResult(j) ==
    /\ j.todo = "map"
    /\ bm' = IF j.winner # Level /\ Live(j.match) THEN RecordMap(j) ELSE bm
    /\ IF j.decided # Level THEN FinishMatch(j.match, j.decided, <<>>, {j})
       ELSE job' = job \ {j} /\ UNCHANGED match
    /\ UNCHANGED <<server, outbox, counts>>

Finish(winner, how) == [bm EXCEPT !.status = "done", !.live = None, !.winner = winner, !.how = how]

\* recordSeries, replaySeries, forfeit or cancelGame
ApplyResult(j) ==
    CASE j.how = "completed" /\ j.winner \in Side -> [Finish(j.winner, "played") EXCEPT !.games = FillIn(bm.games, j.maps)]
      [] j.how = "completed" /\ j.winner = Level -> [bm EXCEPT !.status = "ready", !.live = None, !.games = <<>>]
      [] j.absent = Side -> Finish("none", "double_forfeit")
      [] j.absent # {} /\ j.absent # Side -> Finish(CHOOSE s \in Side : s \notin j.absent, "forfeit")
      [] OTHER -> [bm EXCEPT !.status = "ready", !.live = None]

HandleResult(j) ==
    /\ j.todo = "result"
    /\ bm' = IF Live(j.match) THEN ApplyResult(j) ELSE bm
    /\ job' = job \ {j}
    /\ UNCHANGED <<match, server, outbox, counts>>

Crash ==
    /\ Fault
    /\ crashes' = crashes + 1
    /\ job' = {}
    /\ UNCHANGED <<bm, match, server, outbox, reloads>>

-----------------------------------------------------------------------------
Plugin ==
    \/ GoLive \/ LoadNextMap \/ OnMapStart \/ LoadTimesOut \/ Reload
    \/ \E w \in Side \cup {Level} : FinishMap(w)
    \/ \E absent \in (SUBSET Side) \ {{}} : CheckAbandon(absent)

Next ==
    \/ Plugin \/ GiveUp \/ Crash
    \/ \E m \in Match : StartSeries(m) \/ LaunchServer(m) \/ EndsUnplayed(m)
    \/ \E answered \in BOOLEAN : Deliver(answered)
    \/ \E j \in job : MapResult(j) \/ HandleResult(j)

Spec == Init /\ [][Next]_vars

-----------------------------------------------------------------------------
\* Every variable keeps its type
TypeOK ==
    /\ bm.status \in {"ready", "live", "done"} /\ DOMAIN bm.games \subseteq Map
    /\ bm.status = "live" <=> bm.live \in Match
    /\ \A m \in Match : DOMAIN match[m].maps \subseteq Map
    /\ server.phase \in {"off", "warmup", "live", "between", "ended", "abandoned"} /\ server.map \in 0..BestOf
    /\ Len(outbox) <= MaxOutbox /\ Cardinality(job) <= MaxInFlight + MaxMatches

NoHole(maps) == DOMAIN maps = 1..Cardinality(DOMAIN maps)

\* CONTRACTS.md 163: the map rows decide a series.  Over restarts, lost webhooks, reloads and a change of
\* server, who wins a series that was played has more maps than the other, unless a map was drawn or
\* its result was lost
WinnerHasMoreMaps ==
    bm.how = "played" /\ NoHole(bm.games) =>
        \A s \in Side : s # bm.winner => MapWins(bm.games, bm.winner) > MapWins(bm.games, s)

\* bracket.ts recordMap, flow.ts endSeriesMap: no step changes or forgets the winner of a map that is
\* decided, in the bracket or in a match, except that a series that ended level is played again
DecidedStays ==
    [][/\ \A n \in DOMAIN bm.games :
            \/ n \in DOMAIN bm'.games /\ bm'.games[n] = bm.games[n]
            \/ bm.status = "live" /\ bm'.status = "ready" /\ bm'.games = <<>>
       /\ \A m \in Match : \A n \in DOMAIN match[m].maps :
            n \in DOMAIN match'[m].maps /\ match'[m].maps[n] = match[m].maps[n]]_vars

\* CONTRACTS.md 163: when the API ends a series on a map, the server that played it holds it for over too
\* and names the same winner, so no map is cut off (unless an earlier result was lost)
ServerAgrees ==
    \A m \in Match :
        server.match = m /\ match[m].status = "finished" /\ NoHole(match[m].maps) =>
            /\ server.phase = "ended"
            /\ SeriesWinner(WinsOf(match[m].maps)) \in {SeriesWinner(server.wins), Level}

\* plugin/README.md 154: a reload between maps goes on to the next map.  Every map from the first one
\* of the server up to the one that is on has a result
NoMapSkipped ==
    Playing => \A n \in match[server.match].from..(server.map - 1) : n \in DOMAIN server.results
=============================================================================
