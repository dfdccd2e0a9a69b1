------------------------------ MODULE Series_proofs ------------------------------
(***************************************************************************)
(* Proofs about a series, for any number of maps, matches, webhooks under  *)
(* way, reloads and restarts: a decided map stays decided, the winner of a *)
(* series that was played has won more maps, and the server that played it *)
(* agrees with the rows of the maps.                                       *)
(*                                                                         *)
(* What is decided is counted four times: in the games of the bracket, the *)
(* rows of the match, the results of the server and its wins.  The         *)
(* inductive invariant says how they follow each other.  A match that went *)
(* on after maps with a hole among them keeps the hole: of its counts      *)
(* nothing is claimed, and nothing needs to be.                            *)
(***************************************************************************)
EXTENDS Series, TLAPS, FiniteSetTheorems, SequenceTheorems

Outcome == Side \cup {Level}
Games == UNION {[D -> Outcome] : D \in SUBSET Map}

BracketMatch ==
    [status : {"ready", "live", "done"}, games : Games, live : Match \cup {None}, winner : Outcome \cup {"none"},
     how : {"none", "played", "forfeit", "double_forfeit"}]
Rows == [status : {"none", "starting", "serving", "finished", "abandoned", "cancelled"}, maps : Games, from : Nat]
Servers ==
    [match : Match \cup {None}, phase : {"off", "warmup", "live", "between", "ended", "abandoned"}, map : 0..BestOf,
     loading : BOOLEAN, wins : [Side -> Nat], results : Games, over : BOOLEAN]
OverEvent == [type : {"map_end", "match_end"}, map : 0..BestOf, winner : Outcome, maps : Games]
AbandonEvent == [type : {"match_abandoned"}, map : {0}, winner : SUBSET Side, maps : Games]
Event == OverEvent \cup AbandonEvent
MapJob == [match : Match, todo : {"map"}, map : Map, winner : Outcome, decided : Outcome]
ResultJob ==
    [match : Match, todo : {"result"}, how : {"completed", "cancelled", "abandoned"}, winner : Outcome, maps : Games,
     absent : SUBSET Side]

StoresOK ==
    /\ bm \in BracketMatch
    /\ match \in [Match -> Rows]
    /\ server \in Servers
    /\ outbox \in Seq(Event)
    /\ job \subseteq MapJob \cup ResultJob
    /\ reloads \in Nat /\ crashes \in Nat

-----------------------------------------------------------------------------
\* The maps of f are decided alike in g
Within(f, g) == \A n \in DOMAIN f : n \in DOMAIN g /\ g[n] = f[n]
NoDraws(f) == \A n \in DOMAIN f : f[n] \in Side
HasMore(f, w) == \A s \in Side : s # w => MapWins(f, w) > MapWins(f, s)
HasBegun(m) == match[m].status \notin {"none", "starting"}

\* The rows of a match, and those it started with: all the maps before its first, or there is a hole among
\* them that no map of this match fills
Holed(maps, from) ==
    \E q \in 1..(from - 1), p \in DOMAIN maps : q \notin DOMAIN maps /\ p >= from /\ maps[p] \in Side
Whole(maps, from) == 1..(from - 1) \subseteq DOMAIN maps

MatchInv(m) ==
    /\ match[m].status = "none" => DOMAIN match[m].maps = {}
    /\ match[m].status # "none" =>
          /\ match[m].from >= 1
          /\ Holed(match[m].maps, match[m].from) \/ Whole(match[m].maps, match[m].from)
    /\ match[m].status = "starting" =>
          Holed(match[m].maps, match[m].from) \/ DOMAIN match[m].maps = 1..(match[m].from - 1)

\* The games of the bracket are among the rows of its live match
BracketInv ==
    /\ NoDraws(bm.games)
    /\ bm.status = "live" =>
          bm.live \in Match /\ match[bm.live].status # "none" /\ Within(bm.games, match[bm.live].maps)
    /\ bm.how = "played" => bm.status = "done"

\* The rows of a match are among its first maps and the results of its server, and the server counts both
CountInv(m) ==
    Whole(match[m].maps, match[m].from) =>
        /\ \A n \in DOMAIN match[m].maps : n >= match[m].from =>
              n \in DOMAIN server.results /\ server.results[n] = match[m].maps[n]
        /\ server.wins = WinsOf(FillIn(match[m].maps, server.results))

ServerInv ==
    server.match # None =>
        LET m == server.match
        IN  /\ HasBegun(m)
            /\ server.map >= match[m].from
            /\ \A n \in DOMAIN server.results : match[m].from <= n /\ n <= server.map
            /\ server.phase \in {"warmup", "live"} \/ server.loading => server.map \notin DOMAIN server.results
            /\ server.loading => server.phase = "between"
            /\ DOMAIN server.results # {} /\ SeriesWinner(server.wins) # Level => server.phase = "ended"
            /\ CountInv(m)

\* What the server told is what it holds
EventInv(e) ==
    /\ e.type = "map_end" =>
          e.map \in DOMAIN server.results /\ e.winner = server.results[e.map]
    /\ e.type = "match_end" =>
          /\ e.maps = server.results /\ server.phase = "ended"
          /\ e.winner = IF SeriesWinner(server.wins) # Level THEN SeriesWinner(server.wins) ELSE Leader(server.wins)
OutboxInv == server.match # None => \A i \in 1..Len(outbox) : EventInv(outbox[i])

\* What is left to do for a webhook agrees with the rows, which have only grown since
JobInv(j) ==
    /\ j.todo = "map" =>
          /\ HasBegun(j.match)
          /\ j.map \in DOMAIN match[j.match].maps /\ match[j.match].maps[j.map] = j.winner
          /\ match[j.match].from <= j.map
          /\ j.decided # Level => SeriesWinner(WinsOf(match[j.match].maps)) = j.decided
    /\ j.todo = "result" =>
          /\ Terminal(j.match)
          /\ j.how = "completed" =>
                /\ j.maps = Decided(match[j.match].maps) /\ j.absent = {}
                /\ j.winner \in Side /\ NoHole(j.maps) => HasMore(j.maps, j.winner)

IInv ==
    /\ StoresOK
    /\ \A m \in Match : MatchInv(m)
    /\ BracketInv /\ ServerInv /\ OutboxInv
    /\ \A j \in job : JobInv(j)
    /\ WinnerHasMoreMaps /\ ServerAgrees

-----------------------------------------------------------------------------
(* Maps that are decided, and how they are counted                         *)

\* Games are the functions from some maps to outcomes
LEMMA GamesFacts ==
    /\ \A f \in Games : f \in [DOMAIN f -> Outcome] /\ DOMAIN f \subseteq Map
    /\ \A f : f \in [DOMAIN f -> Outcome] /\ DOMAIN f \subseteq Map => f \in Games
BY DEF Games

\* Before the first map, SeriesTracker and the rows are empty
LEMMA NoGames == <<>> \in Games /\ DOMAIN <<>> = {}
<1>1. DOMAIN <<>> = {}
    OBVIOUS
<1>2. <<>> \in [{} -> Outcome]
    OBVIOUS
<1> QED BY <1>1, <1>2 DEF Games

\* A series is of one map or more
LEMMA BestOfNat == BestOf \in Nat /\ BestOf >= 1
BY SeriesAssumption

\* What WithMap and FillIn make of games
LEMMA WithMapFacts ==
    ASSUME NEW f \in Games, NEW n \in Map, NEW w \in Outcome
    PROVE  /\ WithMap(f, n, w) \in Games
           /\ DOMAIN WithMap(f, n, w) = DOMAIN f \cup {n}
           /\ WithMap(f, n, w)[n] = w
           /\ \A k \in DOMAIN f : k # n => WithMap(f, n, w)[k] = f[k]
BY GamesFacts DEF WithMap

\* FillIn keeps what is decided, and adds only what was not
LEMMA FillInFacts ==
    ASSUME NEW f \in Games, NEW g \in Games
    PROVE  /\ FillIn(f, g) \in Games
           /\ DOMAIN FillIn(f, g) = DOMAIN f \cup DOMAIN g
           /\ \A n \in DOMAIN f : FillIn(f, g)[n] = f[n]
           /\ \A n \in DOMAIN g : n \notin DOMAIN f => FillIn(f, g)[n] = g[n]
BY GamesFacts DEF FillIn

\* Decided drops the maps that ended level, and nothing else
LEMMA DecidedFacts ==
    ASSUME NEW f \in Games
    PROVE  /\ Decided(f) \in Games /\ NoDraws(Decided(f))
           /\ DOMAIN Decided(f) = {n \in DOMAIN f : f[n] # Level}
           /\ \A n \in DOMAIN Decided(f) : Decided(f)[n] = f[n]
BY GamesFacts DEF Decided, NoDraws, Outcome

\* Sides are told from draws
LEMMA SideFacts == Level \notin Side /\ "none" \notin Side
BY SeriesAssumption DEF Level

\* The maps that a side won
WonBy(f, s) == {n \in DOMAIN f : f[n] = s}

\* The maps a side won are finitely many, and MapWins counts them
LEMMA CountType ==
    ASSUME NEW f \in Games, NEW s
    PROVE  IsFiniteSet(WonBy(f, s)) /\ MapWins(f, s) = Cardinality(WonBy(f, s)) /\ MapWins(f, s) \in Nat
<1>1. WonBy(f, s) \subseteq 1..BestOf
    BY GamesFacts DEF WonBy, Map
<1>2. IsFiniteSet(1..BestOf)
    BY SeriesAssumption, FS_Interval
<1>3. IsFiniteSet(WonBy(f, s))
    BY <1>1, <1>2, FS_Subset
<1> QED BY <1>3, FS_CardinalityType DEF MapWins, WonBy

\* winsFromMaps: a count for each side
LEMMA WinsType ==
    ASSUME NEW f \in Games
    PROVE  WinsOf(f) \in [Side -> Nat] /\ \A s \in Side : WinsOf(f)[s] = MapWins(f, s)
BY CountType DEF WinsOf

\* More maps, no fewer wins
LEMMA CountGrows ==
    ASSUME NEW f \in Games, NEW g \in Games, Within(f, g), NEW s
    PROVE  MapWins(f, s) <= MapWins(g, s)
<1>1. WonBy(f, s) \subseteq WonBy(g, s)
    BY DEF Within, WonBy
<1> QED BY <1>1, CountType, FS_Subset

\* The wins depend on the maps that a side won only
LEMMA CountSame ==
    ASSUME NEW f \in Games, NEW g \in Games, NEW s, WonBy(f, s) = WonBy(g, s)
    PROVE  MapWins(f, s) = MapWins(g, s)
BY CountType

\* A map that ended level counts for nobody
LEMMA CountDecided ==
    ASSUME NEW f \in Games, NEW s \in Side
    PROVE  MapWins(Decided(f), s) = MapWins(f, s)
<1>1. WonBy(Decided(f), s) = WonBy(f, s)
    BY DecidedFacts, SideFacts DEF WonBy
<1> QED BY <1>1, DecidedFacts, CountSame

\* A map more is a win more for its winner
LEMMA CountWithMap ==
    ASSUME NEW f \in Games, NEW n \in Map, n \notin DOMAIN f, NEW w \in Outcome, NEW s
    PROVE  MapWins(WithMap(f, n, w), s) = IF s = w THEN MapWins(f, s) + 1 ELSE MapWins(f, s)
<1>1. CASE s = w
    <2>1. WonBy(WithMap(f, n, w), s) = WonBy(f, s) \cup {n}
        BY <1>1 DEF WonBy, WithMap
    <2>2. n \notin WonBy(f, s)
        BY DEF WonBy
    <2>3. Cardinality(WonBy(f, s) \cup {n}) = Cardinality(WonBy(f, s)) + 1
        BY <2>2, CountType, FS_AddElement
    <2>4. WithMap(f, n, w) \in Games
        BY WithMapFacts
    <2>5. /\ MapWins(WithMap(f, n, w), s) = Cardinality(WonBy(WithMap(f, n, w), s))
          /\ MapWins(f, s) = Cardinality(WonBy(f, s))
        BY <2>4, CountType
    <2> QED BY <1>1, <2>1, <2>3, <2>5
<1>2. CASE s # w
    <2>1. WonBy(WithMap(f, n, w), s) = WonBy(f, s)
        BY <1>2 DEF WonBy, WithMap
    <2> QED BY <1>2, <2>1, WithMapFacts, CountSame
<1> QED BY <1>1, <1>2

\* No map is won twice
LEMMA CountBoth ==
    ASSUME NEW f \in Games, NEW s, NEW t, s # t
    PROVE  MapWins(f, s) + MapWins(f, t) <= BestOf
<1>1. WonBy(f, s) \cap WonBy(f, t) = {}
    BY DEF WonBy
<1>2. IsFiniteSet(WonBy(f, s)) /\ IsFiniteSet(WonBy(f, t))
    BY CountType
<1>3. Cardinality(WonBy(f, s) \cup WonBy(f, t)) = MapWins(f, s) + MapWins(f, t)
    BY <1>1, <1>2, FS_Union, FS_EmptySet, CountType
<1>4. WonBy(f, s) \cup WonBy(f, t) \subseteq 1..BestOf
    BY GamesFacts DEF WonBy, Map
<1>5. IsFiniteSet(1..BestOf) /\ Cardinality(1..BestOf) = BestOf
    BY BestOfNat, FS_Interval
<1> QED BY <1>3, <1>4, <1>5, FS_Subset

-----------------------------------------------------------------------------
(* Majorities                                                              *)

\* flow.ts winsNeeded: two sides cannot both reach it in one series
LEMMA Majority == WinsNeeded \in Nat /\ 2 * WinsNeeded > BestOf
BY SeriesAssumption DEF WinsNeeded

\* series.ts seriesWinner: the winner has a majority, and there is one when a side has a majority
LEMMA WinnerFacts ==
    ASSUME NEW wins \in [Side -> Nat]
    PROVE  /\ SeriesWinner(wins) \in Outcome
           /\ SeriesWinner(wins) # Level => SeriesWinner(wins) \in Side /\ wins[SeriesWinner(wins)] >= WinsNeeded
           /\ SeriesWinner(wins) = Level => \A s \in Side : ~(wins[s] >= WinsNeeded)
BY SideFacts DEF SeriesWinner, Outcome

\* Only one side can have it
LEMMA OneWinner ==
    ASSUME NEW f \in Games, NEW s \in Side, MapWins(f, s) >= WinsNeeded
    PROVE  SeriesWinner(WinsOf(f)) = s /\ HasMore(f, s)
<1>1. \A t \in Side : t # s => MapWins(f, t) < WinsNeeded
    <2> SUFFICES ASSUME NEW t \in Side, t # s PROVE MapWins(f, t) < WinsNeeded
        OBVIOUS
    <2>1. MapWins(f, s) + MapWins(f, t) <= BestOf
        BY CountBoth
    <2> QED BY <2>1, Majority, CountType, SeriesAssumption
<1>2. HasMore(f, s)
    BY <1>1, CountType, Majority DEF HasMore
<1>3. SeriesWinner(WinsOf(f)) # Level
    BY WinsType, WinnerFacts
<1>4. /\ SeriesWinner(WinsOf(f)) \in Side
      /\ MapWins(f, SeriesWinner(WinsOf(f))) >= WinsNeeded
    BY <1>3, WinsType, WinnerFacts
<1>5. SeriesWinner(WinsOf(f)) = s
    BY <1>1, <1>4, CountType, Majority
<1> QED BY <1>2, <1>5

\* A series that is decided stays decided for the same side when maps are added
LEMMA WinnerStays ==
    ASSUME NEW f \in Games, NEW g \in Games, Within(f, g), SeriesWinner(WinsOf(f)) # Level
    PROVE  SeriesWinner(WinsOf(g)) = SeriesWinner(WinsOf(f))
<1> DEFINE s == SeriesWinner(WinsOf(f))
<1>1. s \in Side /\ MapWins(f, s) >= WinsNeeded
    BY WinsType, WinnerFacts
<1>2. MapWins(g, s) >= WinsNeeded
    BY <1>1, CountGrows, CountType, Majority
<1> QED BY <1>1, <1>2, OneWinner

\* Who has a majority has won more maps than the other side
LEMMA MajorityHasMore ==
    ASSUME NEW f \in Games, SeriesWinner(WinsOf(f)) # Level
    PROVE  SeriesWinner(WinsOf(f)) \in Side /\ HasMore(f, SeriesWinner(WinsOf(f)))
BY WinsType, WinnerFacts, OneWinner

\* SeriesTracker.Leader: without a majority, the side that has more
LEMMA LeaderFacts ==
    ASSUME NEW wins \in [Side -> Nat]
    PROVE  /\ Leader(wins) \in Outcome
           /\ Leader(wins) \in Side => \A t \in Side : t # Leader(wins) => wins[Leader(wins)] > wins[t]
BY SideFacts DEF Leader, Outcome

-----------------------------------------------------------------------------
(* Holes                                                                   *)

\* provision: a match goes on at the number of decided maps plus one. Either these are the maps before it, or
\* one of them is missing and a later one is decided
LEMMA HoleOrWhole ==
    ASSUME NEW f \in Games, NoDraws(f), NEW from, from = Cardinality(DOMAIN f) + 1
    PROVE  from \in Nat /\ from >= 1 /\ (Holed(f, from) \/ DOMAIN f = 1..(from - 1))
<1>1. DOMAIN f \subseteq 1..BestOf /\ IsFiniteSet(1..BestOf)
    BY GamesFacts, BestOfNat, FS_Interval DEF Map
<1>2. IsFiniteSet(DOMAIN f)
    BY <1>1, FS_Subset
<1>3. from \in Nat /\ from >= 1
    BY <1>2, FS_CardinalityType
<1>4. PICK k \in Nat : k = Cardinality(DOMAIN f) /\ from - 1 = k
    BY <1>2, FS_CardinalityType
<1>8. IsFiniteSet(1..k) /\ Cardinality(1..k) = k
    BY FS_Interval
<1>5. ASSUME DOMAIN f \subseteq 1..(from - 1)
      PROVE  DOMAIN f = 1..(from - 1)
    BY <1>4, <1>5, <1>8, FS_Subset
<1>6. ASSUME 1..(from - 1) \subseteq DOMAIN f
      PROVE  DOMAIN f = 1..(from - 1)
    BY <1>2, <1>4, <1>6, <1>8, FS_Subset
<1>7. ASSUME ~(DOMAIN f \subseteq 1..(from - 1)), ~(1..(from - 1) \subseteq DOMAIN f)
      PROVE  Holed(f, from)
    <2>1. PICK q \in 1..(from - 1) : q \notin DOMAIN f
        BY <1>7
    <2>2. PICK p \in DOMAIN f : p \notin 1..(from - 1)
        BY <1>7
    <2>3. p \in Nat /\ p >= 1
        BY <2>2, <1>1
    <2>4. p >= from
        BY <2>2, <2>3, <1>3
    <2> QED BY <2>1, <2>2, <2>4 DEF Holed, NoDraws
<1> QED BY <1>3, <1>5, <1>6, <1>7

\* A hole before the first map of a match stays: its server fills in later maps only
LEMMA HoleStays ==
    ASSUME NEW f \in Games, NEW g \in Games, NEW from \in Nat, Holed(f, from), Within(f, g),
           \A n \in DOMAIN g : n \in DOMAIN f \/ n >= from
    PROVE  Holed(g, from)
BY DEF Holed, Within

\* A hole among the maps of a match is seen by the check of the API, whether or not a later map was level
LEMMA HoleSeen ==
    ASSUME NEW f \in Games, NEW from \in Nat, Holed(f, from)
    PROVE  ~NoHole(f) /\ ~NoHole(Decided(f))
<1>1. PICK q \in 1..(from - 1), p \in DOMAIN f : q \notin DOMAIN f /\ p >= from /\ f[p] \in Side
    BY DEF Holed
<1>2. p \in DOMAIN Decided(f) /\ q \notin DOMAIN Decided(f)
    BY <1>1, DecidedFacts, SideFacts
<1>3. ASSUME NEW D, p \in D, q \notin D, NEW k, IsFiniteSet(D), k = Cardinality(D)
      PROVE  D # 1..k
    <2>1. k \in Nat
        BY <1>3, FS_CardinalityType
    <2> QED BY <1>1, <1>3, <2>1
<1>4. DOMAIN f \subseteq 1..BestOf /\ DOMAIN Decided(f) \subseteq 1..BestOf
    BY GamesFacts, DecidedFacts DEF Map
<1>6. IsFiniteSet(1..BestOf)
    BY BestOfNat, FS_Interval
<1>5. IsFiniteSet(DOMAIN f) /\ IsFiniteSet(DOMAIN Decided(f))
    BY <1>4, <1>6, FS_Subset
<1> QED BY <1>1, <1>2, <1>3, <1>5 DEF NoHole

-----------------------------------------------------------------------------
(* The plugin                                                              *)

\* A bracket match that nobody has begun, and a server that is off
LEMMA InitInv == Init => IInv
<1> SUFFICES ASSUME Init PROVE IInv
    OBVIOUS
<1>1. WinsOf(<<>>) \in [Side -> Nat]
    BY NoGames, WinsType
<1>2. StoresOK
    BY <1>1, NoGames, BestOfNat
       DEF Init, Off, StoresOK, BracketMatch, Rows, Servers, None
<1>3. server.match = None /\ outbox = <<>> /\ job = {}
    BY DEF Init, Off
<1>4. \A m \in Match : MatchInv(m)
    BY NoGames DEF Init, MatchInv
<1>5. BracketInv
    BY NoGames DEF Init, BracketInv, NoDraws
<1>6. WinnerHasMoreMaps /\ ServerAgrees
    BY <1>3 DEF Init, WinnerHasMoreMaps, ServerAgrees, Match, None
<1> QED BY <1>2, <1>3, <1>4, <1>5, <1>6 DEF IInv, ServerInv, OutboxInv

\* What the plugin does does not touch the match that is played
LEMMA PluginKeeps ==
    ASSUME IInv, Playing, UNCHANGED <<bm, match, job>>, server'.match = server.match, StoresOK', ServerInv', OutboxInv'
    PROVE  IInv'
<1>1. (\A m \in Match : MatchInv(m)') /\ BracketInv'
    BY DEF IInv, MatchInv, BracketInv
<1>2. \A j \in job' : JobInv(j)'
    BY DEF IInv, JobInv, HasBegun, Terminal
<1>3. WinnerHasMoreMaps'
    BY DEF IInv, WinnerHasMoreMaps
<1>4. ServerAgrees'
    BY DEF ServerAgrees, Playing
<1> QED BY <1>1, <1>2, <1>3, <1>4 DEF IInv

\* Nor, between two maps, what it holds of the maps
Moves ==
    /\ server' \in Servers
    /\ server'.match = server.match /\ server'.wins = server.wins /\ server'.results = server.results
    /\ server.map <= server'.map
    /\ server'.phase \in {"warmup", "live"} \/ server'.loading => server'.map \notin DOMAIN server.results
    /\ server'.loading => server'.phase = "between"
    /\ server.phase = "ended" => server'.phase = "ended"

\* A step that moves the server on and decides nothing keeps what is said of it and of its webhooks
LEMMA MovesKeep ==
    ASSUME IInv, Playing, Moves, UNCHANGED match
    PROVE  ServerInv' /\ \A e : EventInv(e) => EventInv(e)'
<1> DEFINE m == server.match
<1>1. ServerInv'
    <2>1. m # None /\ m \in Match /\ match[m].from \in Nat /\ server.map \in Nat /\ server'.map \in Nat
        BY DEF IInv, StoresOK, Servers, Rows, Moves, Playing
    <2>2. \A n \in DOMAIN server.results : n \in Nat
        BY GamesFacts DEF IInv, StoresOK, Servers, Map
    <2>3. HasBegun(m)' /\ server'.map >= match[m].from /\ CountInv(m)'
        BY <2>1 DEF IInv, ServerInv, Moves, HasBegun, CountInv
    <2>4. \A n \in DOMAIN server.results : match[m].from <= n /\ n <= server'.map
        BY <2>1, <2>2 DEF IInv, ServerInv, Moves
    <2>5. DOMAIN server.results # {} /\ SeriesWinner(server.wins) # Level => server'.phase = "ended"
        BY <2>1 DEF IInv, ServerInv, Moves
    <2> QED BY <2>3, <2>4, <2>5 DEF ServerInv, Moves
<1>2. \A e : EventInv(e) => EventInv(e)'
    BY DEF Moves, EventInv
<1> QED BY <1>1, <1>2

\* A webhook more in the queue
LEMMA SendFacts ==
    ASSUME NEW events \in Seq(Event), outbox \in Seq(Event), Send(events)
    PROVE  /\ outbox' \in Seq(Event)
           /\ \A i \in 1..Len(outbox') :
                 (i \in 1..Len(outbox) /\ outbox'[i] = outbox[i]) \/ \E k \in 1..Len(events) : outbox'[i] = events[k]
<1>1. outbox' = outbox \o events /\ Len(outbox) \in Nat /\ Len(events) \in Nat
    BY DEF Send
<1>2. outbox' \in Seq(Event) /\ Len(outbox') = Len(outbox) + Len(events)
    BY <1>1
<1>3. ASSUME NEW i \in 1..Len(outbox'), i > Len(outbox)
      PROVE  (i - Len(outbox)) \in 1..Len(events) /\ outbox'[i] = events[i - Len(outbox)]
    BY <1>1, <1>2, <1>3
<1>4. ASSUME NEW i \in 1..Len(outbox'), i <= Len(outbox)
      PROVE  i \in 1..Len(outbox) /\ outbox'[i] = outbox[i]
    BY <1>1, <1>2, <1>4
<1> QED BY <1>1, <1>2, <1>3, <1>4

\* What GoLive, LoadNextMap, OnMapStart and Restore have in common: they tell nobody
LEMMA QuietPlugin ==
    ASSUME IInv, Playing, Moves, UNCHANGED <<bm, match, job>>, outbox' = outbox \/ outbox' = <<>>,
           reloads' \in Nat, crashes' \in Nat
    PROVE  IInv'
<1>1. ServerInv' /\ \A e : EventInv(e) => EventInv(e)'
    BY MovesKeep
<1>2. OutboxInv'
    BY <1>1 DEF IInv, OutboxInv, Playing, Moves
<1>3. outbox' \in Seq(Event)
    <2>1. outbox \in Seq(Event) /\ <<>> \in Seq(Event)
        BY DEF IInv, StoresOK
    <2> QED BY <2>1
<1>4. StoresOK'
    BY <1>3 DEF IInv, StoresOK, Moves
<1> QED BY <1>1, <1>2, <1>4, PluginKeeps DEF Moves

\* RushMode.GoLive: warmup ends
LEMMA GoLiveInv == IInv /\ GoLive => IInv'
<1> SUFFICES ASSUME IInv, GoLive PROVE IInv'
    OBVIOUS
<1>1. server' = [server EXCEPT !.phase = "live"] /\ server \in Servers /\ server.phase = "warmup" /\ Playing
    BY DEF IInv, StoresOK, GoLive
<1>2. ~server.loading /\ server.map \notin DOMAIN server.results /\ server.map <= server.map
    BY <1>1 DEF IInv, ServerInv, Playing, Servers
<1>3. Moves
    BY <1>1, <1>2, BestOfNat DEF Moves, Servers
<1> QED BY <1>1, <1>3, QuietPlugin DEF GoLive, IInv, StoresOK, counts

\* RushMode.Abandon: the server gives the match up and tells the API who was absent
LEMMA AbandonInv ==
    ASSUME IInv, Playing, server.phase # "ended", NEW absent \in SUBSET Side, Abandon(absent)
    PROVE  IInv'
<1>1. server' = [server EXCEPT !.phase = "abandoned", !.loading = FALSE] /\ server \in Servers
    BY DEF Abandon, IInv, StoresOK
<1>2. Moves
    <2>1. server' \in Servers
        BY <1>1 DEF Servers
    <2>2. /\ server'.match = server.match /\ server'.wins = server.wins /\ server'.results = server.results
          /\ server'.phase = "abandoned" /\ server'.map = server.map /\ server'.loading = FALSE /\ server.map \in Nat
        BY <1>1, BestOfNat DEF Servers
    <2> QED BY <2>1, <2>2 DEF Moves
<1>3. ServerInv' /\ \A e : EventInv(e) => EventInv(e)'
    BY <1>2, MovesKeep DEF Abandon
<1>4. MatchAbandoned(absent) \in Event /\ EventInv(MatchAbandoned(absent))'
    BY NoGames DEF MatchAbandoned, Event, AbandonEvent, EventInv
<1>5. <<MatchAbandoned(absent)>> \in Seq(Event)
    BY <1>4
<1>6. /\ outbox' \in Seq(Event)
      /\ \A i \in 1..Len(outbox') :
            (i \in 1..Len(outbox) /\ outbox'[i] = outbox[i])
            \/ \E k \in 1..Len(<<MatchAbandoned(absent)>>) : outbox'[i] = <<MatchAbandoned(absent)>>[k]
    BY <1>5, SendFacts DEF IInv, StoresOK, Abandon
<1>7. OutboxInv'
    BY <1>3, <1>4, <1>6 DEF IInv, OutboxInv, Playing
<1>8. StoresOK'
    BY <1>2, <1>6 DEF Abandon, IInv, StoresOK, Moves, counts
<1> QED BY <1>2, <1>3, <1>7, <1>8, PluginKeeps DEF Abandon, Moves

\* MatchController.CheckAbandon and the timeout of a map that does not load
LEMMA AbandonsInv ==
    /\ \A absent \in SUBSET Side : IInv /\ CheckAbandon(absent) => IInv'
    /\ IInv /\ LoadTimesOut => IInv'
<1>1. ASSUME NEW absent \in SUBSET Side, IInv, CheckAbandon(absent)
      PROVE  IInv'
    BY <1>1, AbandonInv DEF CheckAbandon
<1>2. ASSUME IInv, LoadTimesOut
      PROVE  IInv'
    <2>1. server.phase = "between"
        BY <1>2 DEF LoadTimesOut, IInv, ServerInv, Playing
    <2> QED BY <1>2, <2>1, AbandonInv DEF LoadTimesOut
<1> QED BY <1>1, <1>2

\* RushMode.LoadNextMap: the next map, or none is left and the match is abandoned
LEMMA LoadNextMapInv == IInv /\ LoadNextMap => IInv'
<1> SUFFICES ASSUME IInv, LoadNextMap PROVE IInv'
    OBVIOUS
<1>1. CASE server.over \/ server.map >= BestOf
    BY <1>1, AbandonInv DEF LoadNextMap
<1>2. CASE ~(server.over \/ server.map >= BestOf)
    <2>1. /\ server' = [server EXCEPT !.map = server.map + 1, !.loading = TRUE] /\ server \in Servers
          /\ server.phase = "between" /\ Playing
        BY <1>2 DEF IInv, StoresOK, LoadNextMap
    <2>2. server.map \in Nat /\ server.map + 1 \in 0..BestOf
        BY <1>2, <2>1, BestOfNat DEF Servers
    <2>3. \A n \in DOMAIN server.results : n \in Nat /\ n <= server.map
        <3>1. \A n \in DOMAIN server.results : n \in Nat
            BY <2>1, GamesFacts DEF Servers, Map
        <3> QED BY <2>1, <3>1 DEF IInv, ServerInv, Playing
    <2>4. server.map + 1 \notin DOMAIN server.results
        BY <2>2, <2>3
    <2>5. Moves
        <3>1. server' \in Servers
            BY <2>1, <2>2 DEF Servers
        <3>2. /\ server'.match = server.match /\ server'.wins = server.wins /\ server'.results = server.results
              /\ server'.phase = "between" /\ server'.map = server.map + 1 /\ server'.loading = TRUE /\ server.map \in Nat
            BY <2>1, <2>2, BestOfNat DEF Servers
        <3> QED BY <2>1, <3>1, <3>2, <2>4 DEF Moves
    <2> QED BY <1>2, <2>1, <2>5, QuietPlugin DEF LoadNextMap, IInv, StoresOK, counts
<1> QED BY <1>1, <1>2

\* RushMode.OnMapStart: the map has loaded
LEMMA OnMapStartInv == IInv /\ OnMapStart => IInv'
<1> SUFFICES ASSUME IInv, OnMapStart PROVE IInv'
    OBVIOUS
<1>1. server' = [server EXCEPT !.loading = FALSE, !.phase = "warmup"] /\ server \in Servers /\ server.loading /\ Playing
    BY DEF IInv, StoresOK, OnMapStart
<1>2. server.phase = "between" /\ server.map \notin DOMAIN server.results
    BY <1>1 DEF IInv, ServerInv, Playing
<1>3. Moves
    <2>1. server' \in Servers
        BY <1>1 DEF Servers
    <2>2. /\ server'.match = server.match /\ server'.wins = server.wins /\ server'.results = server.results
          /\ server'.phase = "warmup" /\ server'.map = server.map /\ server'.loading = FALSE /\ server.map \in Nat
        BY <1>1, BestOfNat DEF Servers
    <2> QED BY <1>1, <1>2, <2>1, <2>2 DEF Moves
<1> QED BY <1>1, <1>3, QuietPlugin DEF OnMapStart, IInv, StoresOK, counts

\* A plugin that is loaded again goes on from the map the server runs
LEMMA ReloadInv == IInv /\ Reload => IInv'
<1> SUFFICES ASSUME IInv, Reload PROVE IInv'
    OBVIOUS
<1>1. server' = [server EXCEPT !.loading = FALSE] /\ server \in Servers /\ Playing
    BY DEF IInv, StoresOK, Reload
<1>2. server.phase \in {"warmup", "live"} => server.map \notin DOMAIN server.results
    BY <1>1 DEF IInv, ServerInv, Playing
<1>3. Moves
    <2>1. server' \in Servers
        BY <1>1 DEF Servers
    <2>2. /\ server'.match = server.match /\ server'.wins = server.wins /\ server'.results = server.results
          /\ server'.phase = server.phase /\ server'.map = server.map /\ server'.loading = FALSE /\ server.map \in Nat
        BY <1>1, BestOfNat DEF Servers
    <2> QED BY <1>1, <1>2, <2>1, <2>2 DEF Moves
<1> QED BY <1>1, <1>3, QuietPlugin DEF Reload, IInv, StoresOK

\* WebhookDispatcher: given up after the last attempt
LEMMA GiveUpInv == IInv /\ GiveUp => IInv'
<1> SUFFICES ASSUME IInv, GiveUp PROVE IInv'
    OBVIOUS
<1>1. outbox \in Seq(Event) /\ outbox # <<>> /\ outbox' = Tail(outbox)
    BY DEF GiveUp, IInv, StoresOK
<1>2. /\ outbox' \in Seq(Event)
      /\ \A i \in 1..Len(outbox') : i + 1 \in 1..Len(outbox) /\ outbox'[i] = outbox[i + 1]
    BY <1>1
<1>3. OutboxInv'
    BY <1>2 DEF GiveUp, IInv, OutboxInv, EventInv
<1>4. StoresOK'
    BY <1>2 DEF GiveUp, IInv, StoresOK, counts
<1>5. ServerInv'
    BY DEF GiveUp, IInv, ServerInv, HasBegun, CountInv
<1> QED BY <1>3, <1>4, <1>5, PluginKeeps DEF GiveUp

-----------------------------------------------------------------------------
(* A map is over                                                           *)

\* What the plugin holds of the maps after one more, RecordMap
LEMMA FinishedMap ==
    ASSUME IInv, Playing, server.phase = "live", NEW w \in Outcome, NEW wins, NEW over,
           wins = (IF w = Level THEN server.wins ELSE [server.wins EXCEPT ![w] = @ + 1])
    PROVE  /\ wins \in [Side -> Nat]
           /\ CountInv(server.match) /\ Whole(match[server.match].maps, match[server.match].from) =>
                wins = WinsOf(FillIn(match[server.match].maps, WithMap(server.results, server.map, w)))
<1> DEFINE m == server.match
           maps == match[m].maps
           held == server.results
           f == FillIn(maps, held)
           g == FillIn(maps, WithMap(held, server.map, w))
<1>1. /\ m \in Match /\ m # None /\ server \in Servers /\ held \in Games /\ server.wins \in [Side -> Nat]
      /\ maps \in Games /\ match[m].from \in Nat /\ server.map \in 0..BestOf
    BY DEF IInv, StoresOK, Servers, Rows, Playing
<1>2. wins \in [Side -> Nat]
    BY <1>1, SideFacts DEF Outcome
<1>3. ASSUME CountInv(m), Whole(maps, match[m].from)
      PROVE  wins = WinsOf(g)
    <2>1. /\ server.map \notin DOMAIN held /\ server.map >= match[m].from
          /\ server.wins = WinsOf(f)
          /\ \A n \in DOMAIN maps : n >= match[m].from => n \in DOMAIN held
        BY <1>1, <1>3 DEF IInv, ServerInv, CountInv
    <2>2. server.map \notin DOMAIN maps
        BY <2>1
    <2>3. server.map \in Map
        <3>1. match[m].from >= 1
            BY <1>1 DEF IInv, ServerInv, HasBegun, MatchInv
        <3> QED BY <1>1, <2>1, <3>1, BestOfNat DEF Map
    <2> HIDE DEF maps, held
    <2>10. f \in Games /\ DOMAIN f = DOMAIN maps \cup DOMAIN held
        BY <1>1, FillInFacts
    <2>4. f \in Games /\ server.map \notin DOMAIN f
        BY <2>1, <2>2, <2>10
    <2>5. g = WithMap(f, server.map, w)
        BY <2>1, <2>2 DEF FillIn, WithMap
    <2>6. g \in Games
        <3> HIDE DEF f
        <3>1. WithMap(f, server.map, w) \in Games
            BY <2>3, <2>4, WithMapFacts
        <3> QED BY <2>5, <3>1
    <2>7. \A s \in Side : WinsOf(g)[s] = IF s = w THEN server.wins[s] + 1 ELSE server.wins[s]
        BY <2>1, <2>3, <2>4, <2>5, <2>6, CountWithMap, WinsType
    <2> HIDE DEF g, f
    <2>8. WinsOf(g) \in [Side -> Nat]
        BY <2>6, WinsType
    <2>9. \A s \in Side : WinsOf(g)[s] = wins[s]
        BY <1>1, <2>7, SideFacts DEF Outcome
    <2> QED BY <1>2, <2>8, <2>9
<1> QED BY <1>2, <1>3

\* RushMode.FinishMap: a map is decided, and the series with it or not
LEMMA FinishMapInv ==
    ASSUME IInv, NEW w \in Outcome, FinishMap(w)
    PROVE  IInv'
<1>22. PICK m \in Match : m = server.match
    BY DEF FinishMap, Playing, IInv, StoresOK, Servers
<1>23. PICK held \in Games : held = server.results
    BY DEF IInv, StoresOK, Servers
<1>1. PICK wins : wins = IF w = Level THEN server.wins ELSE [server.wins EXCEPT ![w] = @ + 1]
    OBVIOUS
<1>2. PICK results : results = WithMap(held, server.map, w)
    OBVIOUS
<1>3. PICK over \in BOOLEAN : over = (SeriesWinner(wins) # Level \/ server.map >= BestOf)
    OBVIOUS
<1>4. PICK winner : winner = IF SeriesWinner(wins) # Level THEN SeriesWinner(wins) ELSE Leader(wins)
    OBVIOUS
<1>5. /\ Playing /\ server.phase = "live"
      /\ server' = [server EXCEPT !.wins = wins, !.results = results, !.over = over,
                                  !.phase = IF over THEN "ended" ELSE "between"]
      /\ Send(<<MapEnd(server.map, w)>> \o IF over THEN <<MatchEnd(winner, results)>> ELSE <<>>)
      /\ UNCHANGED <<bm, match, job, counts>>
    BY <1>1, <1>2, <1>3, <1>4, <1>23 DEF FinishMap
<1>6. /\ m # None /\ server \in Servers /\ server.wins \in [Side -> Nat]
      /\ match[m].maps \in Games /\ match[m].from \in Nat /\ server.map \in 0..BestOf
    BY <1>5, <1>22 DEF IInv, StoresOK, Servers, Rows, Playing
<1>7. /\ wins \in [Side -> Nat]
      /\ CountInv(m) /\ Whole(match[m].maps, match[m].from) => wins = WinsOf(FillIn(match[m].maps, results))
    BY <1>1, <1>2, <1>5, <1>22, <1>23, FinishedMap
<1>8. /\ match[m].from >= 1 /\ HasBegun(m) /\ server.map >= match[m].from /\ CountInv(m)
      /\ server.map \notin DOMAIN held /\ ~server.loading
      /\ \A n \in DOMAIN held : match[m].from <= n /\ n <= server.map
    BY <1>5, <1>6, <1>22, <1>23 DEF IInv, ServerInv, HasBegun, MatchInv
<1>9. server.map \in Map
    BY <1>6, <1>8, BestOfNat DEF Map
<1>10. /\ results \in Games /\ DOMAIN results = DOMAIN held \cup {server.map} /\ results[server.map] = w
       /\ \A n \in DOMAIN held : results[n] = held[n]
    BY <1>2, <1>8, <1>9, WithMapFacts
<1>11. winner \in Outcome
    BY <1>4, <1>7, WinnerFacts, LeaderFacts
<1>12. /\ server' \in Servers
       /\ server'.match = m /\ server'.wins = wins /\ server'.results = results /\ server'.map = server.map
       /\ ~server'.loading /\ server'.phase = IF over THEN "ended" ELSE "between"
    BY <1>5, <1>6, <1>7, <1>8, <1>10, <1>22 DEF Servers
<1>13. ServerInv'
    <2>1. CountInv(m)'
        <3> SUFFICES ASSUME Whole(match[m].maps, match[m].from)
                     PROVE  /\ \A n \in DOMAIN match[m].maps :
                                  n >= match[m].from => n \in DOMAIN results /\ results[n] = match[m].maps[n]
                            /\ wins = WinsOf(FillIn(match[m].maps, results))
            BY <1>5, <1>12 DEF CountInv
        <3> QED BY <1>7, <1>8, <1>10, <1>23 DEF CountInv
    <2>2. SeriesWinner(wins) # Level => server'.phase = "ended"
        BY <1>3, <1>12
    <2>3. \A n \in DOMAIN results : match[m].from <= n /\ n <= server.map
        <3>1. \A n \in DOMAIN held : n \in Nat
            BY GamesFacts DEF Map
        <3> QED BY <1>6, <1>8, <1>10, <3>1, BestOfNat
    <2>4. HasBegun(m)'
        BY <1>5, <1>8 DEF HasBegun
    <2> QED BY <1>5, <1>8, <1>12, <2>1, <2>2, <2>3, <2>4 DEF ServerInv
<1>14. \A e : EventInv(e) => EventInv(e)'
    BY <1>5, <1>10, <1>12, <1>23 DEF EventInv
<1>24. PICK x : x = MapEnd(server.map, w)
    OBVIOUS
<1>25. PICK y : y = MatchEnd(winner, results)
    OBVIOUS
<1>15. x \in Event /\ EventInv(x)'
    BY <1>6, <1>10, <1>12, <1>24, NoGames DEF MapEnd, Event, OverEvent, EventInv
<1>16. over => y \in Event /\ EventInv(y)'
    BY <1>4, <1>10, <1>11, <1>12, <1>25, BestOfNat DEF MatchEnd, Event, OverEvent, EventInv
<1>17. PICK events : events = <<MapEnd(server.map, w)>> \o IF over THEN <<MatchEnd(winner, results)>> ELSE <<>>
    OBVIOUS
<1>18. events \in Seq(Event) /\ \A k \in 1..Len(events) : EventInv(events[k])'
    <2>1. CASE over
        <3>1. x \in Event /\ y \in Event /\ EventInv(x)' /\ EventInv(y)'
            BY <1>15, <1>16, <2>1
        <3>3. events = <<x>> \o <<y>>
            BY <1>17, <1>24, <1>25, <2>1
        <3>2. events \in Seq(Event) /\ Len(events) = 2 /\ events[1] = x /\ events[2] = y
            BY <3>1, <3>3
        <3> QED BY <3>1, <3>2
    <2>2. CASE ~over
        <3>1. events = <<x>> /\ x \in Event /\ EventInv(x)'
            BY <1>15, <1>17, <1>24, <2>2
        <3>2. events \in Seq(Event) /\ Len(events) = 1 /\ events[1] = x
            BY <3>1
        <3> QED BY <3>1, <3>2
    <2> QED BY <2>1, <2>2
<1>19. /\ outbox' \in Seq(Event)
       /\ \A i \in 1..Len(outbox') :
             (i \in 1..Len(outbox) /\ outbox'[i] = outbox[i]) \/ \E k \in 1..Len(events) : outbox'[i] = events[k]
    BY <1>5, <1>17, <1>18, SendFacts DEF IInv, StoresOK
<1>20. OutboxInv'
    BY <1>5, <1>6, <1>14, <1>18, <1>19 DEF IInv, OutboxInv
<1>21. StoresOK'
    BY <1>5, <1>12, <1>19 DEF IInv, StoresOK, counts
<1> QED BY <1>5, <1>12, <1>13, <1>20, <1>21, <1>22, PluginKeeps

-----------------------------------------------------------------------------
(* A match is made, and its server starts                                  *)

\* A match for the bracket match starts with the maps the bracket has decided
LEMMA StartSeriesInv ==
    ASSUME IInv, NEW m \in Match, StartSeries(m)
    PROVE  IInv'
<1>1. PICK prior \in Games : prior = bm.games
    BY DEF IInv, StoresOK, BracketMatch
<1>2. PICK from : from = Cardinality(DOMAIN prior) + 1
    OBVIOUS
<1>3. /\ bm.status = "ready" /\ match[m].status = "none"
      /\ match' = [match EXCEPT ![m] = [status |-> "starting", maps |-> prior, from |-> from]]
      /\ bm' = [bm EXCEPT !.status = "live", !.live = m]
      /\ UNCHANGED <<server, outbox, job, counts>>
    BY <1>1, <1>2 DEF StartSeries, CreateMatch, Unused
<1>4. bm \in BracketMatch /\ match \in [Match -> Rows] /\ NoDraws(prior)
    BY <1>1 DEF IInv, StoresOK, BracketInv
<1>5. from \in Nat /\ from >= 1 /\ (Holed(prior, from) \/ DOMAIN prior = 1..(from - 1))
    BY <1>2, <1>4, HoleOrWhole
<1>6. /\ match' \in [Match -> Rows]
      /\ match'[m].status = "starting" /\ match'[m].maps = prior /\ match'[m].from = from
      /\ \A k \in Match \ {m} : match'[k] = match[k]
    BY <1>3, <1>4, <1>5 DEF Rows
<1>7. bm' \in BracketMatch /\ bm'.status = "live" /\ bm'.live = m /\ bm'.games = prior /\ bm'.how = bm.how
    BY <1>1, <1>3, <1>4 DEF BracketMatch
<1>8. StoresOK'
    BY <1>3, <1>6, <1>7 DEF IInv, StoresOK, counts
<1>9. \A k \in Match : MatchInv(k)'
    BY <1>5, <1>6 DEF IInv, MatchInv, Whole
<1>10. bm.how # "played"
    BY <1>3 DEF IInv, BracketInv
<1>11. BracketInv'
    BY <1>4, <1>6, <1>7, <1>10 DEF BracketInv, Within
<1>12. server.match # None => server.match \in Match \ {m} /\ ~(match[m].status \notin {"none", "starting"})
    BY <1>3 DEF IInv, StoresOK, Servers, ServerInv, HasBegun
<1>13. ServerInv' /\ OutboxInv'
    BY <1>3, <1>6, <1>12 DEF IInv, ServerInv, OutboxInv, EventInv, HasBegun, CountInv
<1>14. ASSUME NEW j \in job
       PROVE  JobInv(j)'
    <2>1. j.match \in Match /\ HasBegun(j.match)
        BY DEF IInv, StoresOK, MapJob, ResultJob, JobInv, Terminal, HasBegun
    <2>2. match'[j.match] = match[j.match]
        BY <1>3, <1>6, <2>1 DEF HasBegun
    <2> QED BY <2>2 DEF IInv, JobInv, HasBegun, Terminal
<1>15. WinnerHasMoreMaps'
    BY <1>7, <1>10 DEF WinnerHasMoreMaps
<1>16. ServerAgrees'
    BY <1>3, <1>6, <1>12 DEF IInv, ServerAgrees, None
<1> QED BY <1>3, <1>8, <1>9, <1>11, <1>13, <1>14, <1>15, <1>16 DEF IInv

\* The server starts with the wins of the rows and no results of its own
LEMMA LaunchServerInv ==
    ASSUME IInv, NEW m \in Match, LaunchServer(m)
    PROVE  IInv'
<1>1. PICK maps \in Games : maps = match[m].maps
    BY DEF IInv, StoresOK, Rows
<1>2. PICK from \in Nat : from = match[m].from
    BY DEF IInv, StoresOK, Rows
<1>3. /\ match[m].status = "starting" /\ from <= BestOf
      /\ match' = [match EXCEPT ![m].status = "serving"]
      /\ server' = [Off EXCEPT !.match = m, !.phase = "warmup", !.map = from, !.wins = WinsOf(maps)]
      /\ outbox' = <<>> /\ UNCHANGED <<bm, job, counts>>
    BY <1>1, <1>2 DEF LaunchServer, Launch, Fresh
<1>4. bm \in BracketMatch /\ match \in [Match -> Rows] /\ WinsOf(maps) \in [Side -> Nat] /\ m # None
    BY WinsType DEF IInv, StoresOK, Match, None
<1>5. /\ match' \in [Match -> Rows]
      /\ match'[m].status = "serving" /\ match'[m].maps = maps /\ match'[m].from = from
      /\ \A k \in Match \ {m} : match'[k] = match[k]
    BY <1>1, <1>2, <1>3, <1>4 DEF Rows
<1>6. /\ server' \in Servers
      /\ server'.match = m /\ server'.phase = "warmup" /\ server'.map = from /\ server'.wins = WinsOf(maps)
      /\ server'.results = <<>> /\ ~server'.loading
    <2>1. WinsOf(<<>>) \in [Side -> Nat]
        BY NoGames, WinsType
    <2>2. Off \in Servers /\ Off.results = <<>> /\ ~Off.loading
        BY <2>1, NoGames, BestOfNat DEF Servers, Off
    <2>3. from \in 0..BestOf
        BY <1>3, BestOfNat
    <2> QED BY <1>3, <1>4, <2>2, <2>3 DEF Servers
<1>7. StoresOK'
    BY <1>3, <1>5, <1>6 DEF IInv, StoresOK, counts
<1>8. from >= 1 /\ (Holed(maps, from) \/ DOMAIN maps = 1..(from - 1))
    BY <1>1, <1>2, <1>3 DEF IInv, MatchInv
<1>9. \A k \in Match : MatchInv(k)'
    BY <1>5, <1>8 DEF IInv, MatchInv, Whole
<1>10. BracketInv'
    <2>1. bm.status = "live" => bm.live \in Match /\ match'[bm.live].status # "none" /\ match'[bm.live].maps = match[bm.live].maps
        BY <1>1, <1>5 DEF IInv, BracketInv
    <2> QED BY <1>3, <2>1 DEF IInv, BracketInv, Within
<1>11. CountInv(m)'
    <2> SUFFICES ASSUME Whole(maps, from)
                 PROVE  /\ \A n \in DOMAIN maps : ~(n >= from)
                        /\ WinsOf(maps) = WinsOf(FillIn(maps, <<>>))
        BY <1>5, <1>6 DEF CountInv
    <2>1. DOMAIN maps = 1..(from - 1)
        BY <1>8 DEF Whole, Holed
    <2>2. FillIn(maps, <<>>) = maps
        <3>1. maps = [n \in DOMAIN maps |-> maps[n]]
            BY GamesFacts
        <3> QED BY <3>1, NoGames DEF FillIn
    <2> QED BY <2>1, <2>2
<1>12. ServerInv' /\ OutboxInv'
    <2>1. HasBegun(m)'
        BY <1>5 DEF HasBegun
    <2>2. ServerInv'
        BY <1>5, <1>6, <1>11, <2>1, NoGames DEF ServerInv
    <2> QED BY <1>3, <2>2 DEF OutboxInv
<1>13. ASSUME NEW j \in job
       PROVE  JobInv(j)'
    <2>1. j.match \in Match /\ HasBegun(j.match)
        BY DEF IInv, StoresOK, MapJob, ResultJob, JobInv, Terminal, HasBegun
    <2>2. match'[j.match] = match[j.match]
        BY <1>3, <1>5, <2>1 DEF HasBegun
    <2> QED BY <2>2 DEF IInv, JobInv, HasBegun, Terminal
<1>14. WinnerHasMoreMaps' /\ ServerAgrees'
    BY <1>3, <1>5, <1>6 DEF IInv, WinnerHasMoreMaps, ServerAgrees
<1> QED BY <1>3, <1>7, <1>9, <1>10, <1>12, <1>13, <1>14 DEF IInv

-----------------------------------------------------------------------------
(* Webhooks: the rows of a match grow until it is over                     *)

\* A map that is new in the rows is a result of the server that plays the match
NewIsHeld(m, rows) ==
    \A n \in DOMAIN rows :
        \/ n \in DOMAIN match[m].maps
        \/ /\ n >= match[m].from
           /\ server.match = m /\ Whole(match[m].maps, match[m].from) =>
                n \in DOMAIN server.results /\ server.results[n] = rows[n]

\* What the steps of a match under way leave to be shown
Kept ==
    /\ \A k \in Match : MatchInv(k)' /\ Within(match[k].maps, match'[k].maps)
    /\ ServerInv'
    /\ \A j \in job : JobInv(j)'
    /\ bm.status = "live" => match'[bm.live].status # "none" /\ Within(bm.games, match'[bm.live].maps)

\* A match that gets rows its server holds agrees with server, jobs and bracket as before
LEMMA RowsGrow ==
    ASSUME IInv, NEW m \in Match, NEW rows \in Games, NEW status \in {"serving", "finished", "abandoned", "cancelled"},
           match[m].status \in {"starting", "serving"},
           match' = [match EXCEPT ![m].status = status, ![m].maps = rows],
           Within(match[m].maps, rows), NewIsHeld(m, rows), UNCHANGED server
    PROVE  /\ match' \in [Match -> Rows] /\ match'[m].status = status /\ match'[m].maps = rows
           /\ \A k \in Match \ {m} : match'[k] = match[k]
           /\ Kept
           /\ status # "finished" => ServerAgrees'
<1>1. PICK maps \in Games : maps = match[m].maps
    BY DEF IInv, StoresOK, Rows
<1>2. PICK from \in Nat : from = match[m].from
    BY DEF IInv, StoresOK, Rows
<1>3. /\ match' \in [Match -> Rows] /\ match'[m].status = status /\ match'[m].maps = rows /\ match'[m].from = from
      /\ \A k \in Match \ {m} : match'[k] = match[k]
    BY <1>2 DEF IInv, StoresOK, Rows
<1>4. Within(maps, rows) /\ from >= 1 /\ (Holed(maps, from) \/ Whole(maps, from))
    BY <1>1, <1>2 DEF IInv, MatchInv
<1>5. \A n \in DOMAIN rows : n \in DOMAIN maps \/ n >= from
    BY <1>1, <1>2 DEF NewIsHeld
<1>6. Holed(rows, from) \/ Whole(rows, from)
    BY <1>4, <1>5, HoleStays DEF Whole, Within
<1>7. \A k \in Match : MatchInv(k)'
    BY <1>3, <1>4, <1>6 DEF IInv, MatchInv
<1>8. ServerInv'
    <2>1. CASE server.match # m
        BY <1>3, <2>1 DEF IInv, StoresOK, Servers, ServerInv, HasBegun, CountInv
    <2>2. CASE server.match = m
        <3>1. PICK held \in Games : held = server.results
            BY DEF IInv, StoresOK, Servers
        <3>2. m # None
            BY DEF Match, None
        <3>3. ASSUME Whole(rows, from)
              PROVE  /\ \A n \in DOMAIN rows : n >= from => n \in DOMAIN held /\ held[n] = rows[n]
                     /\ server.wins = WinsOf(FillIn(rows, held))
            <4>1. Whole(maps, from)
                <5> SUFFICES ASSUME NEW n \in 1..(from - 1) PROVE n \in DOMAIN maps
                    BY DEF Whole
                <5>1. n \in DOMAIN rows /\ ~(n >= from)
                    BY <3>3 DEF Whole
                <5> QED BY <5>1, <1>5
            <4>2. /\ \A n \in DOMAIN maps : n >= from => n \in DOMAIN held /\ held[n] = maps[n]
                  /\ server.wins = WinsOf(FillIn(maps, held))
                BY <1>1, <1>2, <2>2, <3>1, <3>2, <4>1 DEF IInv, ServerInv, CountInv
            <4>3. \A n \in DOMAIN rows : n \in DOMAIN maps \/ (n \in DOMAIN held /\ held[n] = rows[n])
                BY <1>1, <1>2, <2>2, <3>1, <4>1 DEF NewIsHeld
            <4>4. FillIn(rows, held) = FillIn(maps, held)
                BY <1>4, <4>3 DEF FillIn, Within
            <4>5. \A n \in DOMAIN rows : n >= from => n \in DOMAIN held /\ held[n] = rows[n]
                BY <1>4, <4>2, <4>3 DEF Within
            <4> QED BY <4>2, <4>4, <4>5
        <3>4. CountInv(m)' /\ HasBegun(m)'
            BY <1>3, <3>1, <3>3 DEF CountInv, HasBegun
        <3> QED BY <1>2, <1>3, <2>2, <3>2, <3>4 DEF IInv, ServerInv
    <2> QED BY <2>1, <2>2
<1>9. ASSUME NEW j \in job
      PROVE  JobInv(j)'
    <2>1. JobInv(j) /\ j.match \in Match /\ (j \in MapJob \/ j \in ResultJob)
        BY DEF IInv, StoresOK, MapJob, ResultJob
    <2>2. CASE j.match # m
        BY <1>3, <2>1, <2>2 DEF JobInv, HasBegun, Terminal
    <2>3. CASE j.match = m /\ j \in MapJob
        <3>1. j.todo = "map"
            BY <2>3 DEF MapJob
        <3>2. j.decided # Level => SeriesWinner(WinsOf(rows)) = j.decided
            BY <1>1, <1>4, <2>1, <2>3, <3>1, WinnerStays DEF JobInv
        <3>3. j.map \in DOMAIN rows /\ rows[j.map] = j.winner /\ from <= j.map
            BY <1>1, <1>2, <1>4, <2>1, <2>3, <3>1 DEF JobInv, Within
        <3> QED BY <1>3, <2>3, <3>1, <3>2, <3>3 DEF JobInv, HasBegun
    <2>4. CASE j.match = m /\ j \in ResultJob
        <3>1. Terminal(m)
            BY <2>1, <2>4 DEF JobInv, ResultJob
        <3> QED BY <3>1 DEF Terminal
    <2> QED BY <2>1, <2>2, <2>3, <2>4
<1>10. bm.status = "live" => match'[bm.live].status # "none" /\ Within(bm.games, match'[bm.live].maps)
    <2> SUFFICES ASSUME bm.status = "live"
                 PROVE  match'[bm.live].status # "none" /\ Within(bm.games, match'[bm.live].maps)
        OBVIOUS
    <2>1. bm.live \in Match /\ match[bm.live].status # "none" /\ Within(bm.games, match[bm.live].maps)
        BY DEF IInv, BracketInv
    <2>2. CASE bm.live = m
        BY <1>1, <1>3, <1>4, <2>1, <2>2 DEF Within
    <2>3. CASE bm.live # m
        BY <1>3, <2>1, <2>3
    <2> QED BY <2>2, <2>3
<1>11. status # "finished" => ServerAgrees'
    BY <1>3 DEF IInv, ServerAgrees
<1>12. \A k \in Match : Within(match[k].maps, match'[k].maps)
    BY <1>3 DEF Within
<1> QED BY <1>3, <1>7, <1>8, <1>9, <1>10, <1>11, <1>12 DEF Kept

\* finishMatch with seriesOutcome
LEMMA FinishMatchKeeps ==
    ASSUME IInv, NEW m \in Match, match[m].status = "serving", NEW winner \in Outcome, NEW given \in Games, NEW done,
           FinishMatch(m, winner, given, done), UNCHANGED server, NewIsHeld(m, given),
           NEW rows, rows = FillIn(match[m].maps, given),
           SeriesWinner(WinsOf(rows)) = Level /\ winner \in Side /\ NoHole(Decided(rows)) => HasMore(Decided(rows), winner),
           server.match = m /\ NoHole(rows) =>
                server.phase = "ended" /\ SeriesWinner(WinsOf(rows)) \in {SeriesWinner(server.wins), Level}
    PROVE  /\ match' \in [Match -> Rows]
           /\ job' \subseteq MapJob \cup ResultJob /\ \A j \in job' : JobInv(j)'
           /\ Kept /\ ServerAgrees'
<1>1. PICK maps \in Games : maps = match[m].maps
    BY DEF IInv, StoresOK, Rows
<1>2. PICK w : w = IF SeriesWinner(WinsOf(rows)) # Level THEN SeriesWinner(WinsOf(rows)) ELSE winner
    OBVIOUS
<1>3. PICK j : j = Result(m, "completed", w, Decided(rows), {})
    OBVIOUS
<1>4. match' = [match EXCEPT ![m].status = "finished", ![m].maps = rows] /\ job' = (job \ done) \cup {j}
    BY <1>2, <1>3 DEF FinishMatch, Terminal
<1>5. rows \in Games /\ Within(maps, rows)
    BY <1>1, FillInFacts DEF Within
<1>6. NewIsHeld(m, rows)
    <2>1. \A n \in DOMAIN rows : n \in DOMAIN maps \/ (n \in DOMAIN given /\ rows[n] = given[n])
        BY <1>1 DEF FillIn
    <2> QED BY <1>1, <2>1 DEF NewIsHeld
<1>7. /\ match' \in [Match -> Rows] /\ match'[m].status = "finished" /\ match'[m].maps = rows
      /\ \A k \in Match \ {m} : match'[k] = match[k]
      /\ Kept
    BY <1>1, <1>4, <1>5, <1>6, RowsGrow
<1>8. w \in Outcome /\ (w \in Side /\ NoHole(Decided(rows)) => HasMore(Decided(rows), w))
    <2>1. CASE SeriesWinner(WinsOf(rows)) # Level
        <3>1. w \in Side /\ HasMore(rows, w)
            BY <1>2, <1>5, <2>1, MajorityHasMore
        <3>2. HasMore(Decided(rows), w)
            BY <1>5, <3>1, CountDecided DEF HasMore
        <3> QED BY <3>1, <3>2 DEF Outcome
    <2>2. CASE SeriesWinner(WinsOf(rows)) = Level
        BY <1>2, <2>2
    <2> QED BY <2>1, <2>2
<1>9. j \in ResultJob
    BY <1>3, <1>5, <1>8, DecidedFacts DEF Result, ResultJob
<1>10. JobInv(j)'
    BY <1>3, <1>7, <1>8 DEF Result, JobInv, Terminal
<1>11. ServerAgrees'
    BY <1>7 DEF IInv, ServerAgrees
<1> QED BY <1>1, <1>4, <1>5, <1>7, <1>9, <1>10, <1>11 DEF IInv, StoresOK, Kept

\* A match that ends unplayed keeps its rows
LEMMA EndUnplayedKeeps ==
    ASSUME IInv, NEW m \in Match, match[m].status \in {"starting", "serving"}, NEW status \in {"abandoned", "cancelled"},
           NEW absent \in SUBSET Side, EndUnplayed(m, status, absent), UNCHANGED server
    PROVE  /\ match' \in [Match -> Rows]
           /\ job' \subseteq MapJob \cup ResultJob /\ \A j \in job' : JobInv(j)'
           /\ Kept /\ ServerAgrees'
<1>1. PICK maps \in Games : maps = match[m].maps
    BY DEF IInv, StoresOK, Rows
<1>2. PICK j : j = Result(m, status, Level, <<>>, absent)
    OBVIOUS
<1>3. match' = [match EXCEPT ![m].status = status] /\ job' = job \cup {j}
    BY <1>2 DEF EndUnplayed, Terminal, Then
<1>4. match \in [Match -> Rows]
    BY DEF IInv, StoresOK
<1>5. match' = [match EXCEPT ![m].status = status, ![m].maps = maps]
    BY <1>1, <1>3, <1>4 DEF Rows
<1>6. Within(match[m].maps, maps) /\ NewIsHeld(m, maps)
    BY <1>1 DEF Within, NewIsHeld
<1>7. /\ match' \in [Match -> Rows] /\ match'[m].status = status /\ match'[m].maps = maps
      /\ \A k \in Match \ {m} : match'[k] = match[k]
      /\ Kept /\ ServerAgrees'
    BY <1>5, <1>6, RowsGrow
<1>8. j \in ResultJob /\ JobInv(j)'
    BY <1>2, <1>7, NoGames DEF Result, ResultJob, Outcome, JobInv, Terminal
<1> QED BY <1>3, <1>6, <1>7, <1>8 DEF IInv, StoresOK, Kept

\* The crash of a server, a start that failed, a cancel
LEMMA EndsUnplayedInv ==
    ASSUME IInv, NEW m \in Match, EndsUnplayed(m)
    PROVE  IInv'
<1>1. /\ match[m].status \in {"starting", "serving"} /\ EndUnplayed(m, "cancelled", {})
      /\ UNCHANGED <<bm, server, outbox, counts>>
    BY DEF EndsUnplayed
<1>2. /\ match' \in [Match -> Rows] /\ job' \subseteq MapJob \cup ResultJob /\ \A j \in job' : JobInv(j)'
      /\ Kept /\ ServerAgrees'
    BY <1>1, EndUnplayedKeeps
<1>3. BracketInv' /\ WinnerHasMoreMaps'
    BY <1>1, <1>2 DEF IInv, BracketInv, WinnerHasMoreMaps, Kept
<1>4. StoresOK' /\ OutboxInv'
    BY <1>1, <1>2 DEF IInv, StoresOK, OutboxInv, EventInv, counts
<1> QED BY <1>2, <1>3, <1>4 DEF IInv, Kept

-----------------------------------------------------------------------------
(* Deliver                                                                 *)

\* endSeriesMap: the row of a map the server has finished
LEMMA EndSeriesMapKeeps ==
    ASSUME IInv, Playing, NEW e \in Event, e.type = "map_end", EventInv(e), EndSeriesMap(server.match, e.map, e.winner),
           UNCHANGED server
    PROVE  /\ match' \in [Match -> Rows]
           /\ job' \subseteq MapJob \cup ResultJob /\ \A j \in job' : JobInv(j)'
           /\ Kept /\ ServerAgrees'
<1>1. PICK m \in Match : m = server.match
    BY DEF Playing, IInv, StoresOK, Servers
<1>2. PICK maps \in Games : maps = match[m].maps
    BY DEF IInv, StoresOK, Rows
<1>3. PICK held \in Games : held = server.results
    BY DEF IInv, StoresOK, Servers
<1>4. PICK n : n = e.map
    OBVIOUS
<1>5. PICK w \in Outcome : w = e.winner
    BY DEF Event, OverEvent, AbandonEvent
<1>6. n \in DOMAIN held /\ held[n] = w /\ n \in Map
    BY <1>3, <1>4, <1>5, GamesFacts DEF EventInv
<1>7. match[m].status = "serving" /\ m # None
    BY <1>1 DEF Playing
<1>8. match[m].from <= n
    BY <1>1, <1>3, <1>6, <1>7 DEF IInv, ServerInv
<1>9. CASE n \in DOMAIN maps
    <2>1. match' = match /\ job' = job
        BY <1>1, <1>2, <1>4, <1>9 DEF EndSeriesMap
    <2>2. Kept
        <3>1. \A k \in Match : MatchInv(k)'
            BY <2>1 DEF IInv, MatchInv
        <3>2. ServerInv'
            BY <2>1 DEF IInv, ServerInv, HasBegun, CountInv
        <3>3. \A j \in job : JobInv(j)'
            BY <2>1 DEF IInv, JobInv, HasBegun, Terminal
        <3> QED BY <2>1, <3>1, <3>2, <3>3 DEF IInv, BracketInv, Within, Kept
    <2>3. ServerAgrees'
        BY <2>1 DEF IInv, ServerAgrees
    <2> QED BY <2>1, <2>2, <2>3 DEF IInv, StoresOK, Kept
<1>10. CASE n \notin DOMAIN maps
    <2>1. PICK rows : rows = WithMap(maps, n, w)
        OBVIOUS
    <2>2. PICK j : j = [match |-> m, todo |-> "map", map |-> n, winner |-> w, decided |-> SeriesWinner(WinsOf(rows))]
        OBVIOUS
    <2>3. match' = [match EXCEPT ![m].maps = rows] /\ job' = job \cup {j}
        BY <1>1, <1>2, <1>4, <1>5, <1>7, <1>10, <2>1, <2>2 DEF EndSeriesMap, RecordRow, Then, Terminal
    <2>4. /\ rows \in Games /\ DOMAIN rows = DOMAIN maps \cup {n} /\ rows[n] = w
          /\ \A k \in DOMAIN maps : rows[k] = maps[k]
        <3>1. rows \in Games /\ DOMAIN rows = DOMAIN maps \cup {n} /\ rows[n] = w
            BY <1>6, <2>1, WithMapFacts
        <3>2. \A k \in DOMAIN maps : rows[k] = maps[k]
            BY <1>10, <2>1 DEF WithMap
        <3> QED BY <3>1, <3>2
    <2>5. match \in [Match -> Rows]
        BY DEF IInv, StoresOK
    <2>6. match' = [match EXCEPT ![m].status = "serving", ![m].maps = rows]
        BY <1>7, <2>3, <2>5 DEF Rows
    <2>7. Within(match[m].maps, rows) /\ NewIsHeld(m, rows)
        BY <1>2, <1>3, <1>6, <1>8, <2>4 DEF Within, NewIsHeld
    <2>8. /\ match' \in [Match -> Rows] /\ match'[m].status = "serving" /\ match'[m].maps = rows
          /\ \A k \in Match \ {m} : match'[k] = match[k]
          /\ Kept /\ ServerAgrees'
        BY <1>7, <2>4, <2>6, <2>7, RowsGrow
    <2>9. match'[m].from = match[m].from
        BY <2>3, <2>5 DEF Rows
    <2>10. j \in MapJob
        BY <1>6, <2>2, <2>4, WinsType, WinnerFacts DEF MapJob
    <2>11. JobInv(j)'
        BY <1>8, <2>2, <2>4, <2>8, <2>9 DEF JobInv, HasBegun
    <2> QED BY <1>1, <2>3, <2>7, <2>8, <2>10, <2>11 DEF IInv, StoresOK, Kept
<1> QED BY <1>9, <1>10

\* finishMatch on match_end: the rows are then what the server holds
LEMMA MatchEndKeeps ==
    ASSUME IInv, Playing, NEW e \in Event, e.type = "match_end", EventInv(e), FinishMatch(server.match, e.winner, e.maps, {}),
           UNCHANGED server
    PROVE  /\ match' \in [Match -> Rows]
           /\ job' \subseteq MapJob \cup ResultJob /\ \A j \in job' : JobInv(j)'
           /\ Kept /\ ServerAgrees'
<1>1. PICK m \in Match : m = server.match
    BY DEF Playing, IInv, StoresOK, Servers
<1>2. PICK maps \in Games : maps = match[m].maps
    BY DEF IInv, StoresOK, Rows
<1>3. PICK held \in Games : held = server.results
    BY DEF IInv, StoresOK, Servers
<1>4. PICK from \in Nat : from = match[m].from
    BY DEF IInv, StoresOK, Rows
<1>5. PICK w \in Outcome : w = e.winner
    BY DEF Event, OverEvent, AbandonEvent
<1>6. /\ server.phase = "ended" /\ e.maps = held
      /\ w = IF SeriesWinner(server.wins) # Level THEN SeriesWinner(server.wins) ELSE Leader(server.wins)
    BY <1>3, <1>5 DEF EventInv
<1>7. match[m].status = "serving" /\ m # None
    BY <1>1 DEF Playing
<1>8. /\ \A n \in DOMAIN held : from <= n
      /\ Whole(maps, from) => server.wins = WinsOf(FillIn(maps, held))
      /\ Holed(maps, from) \/ Whole(maps, from)
    BY <1>1, <1>2, <1>3, <1>4, <1>7 DEF IInv, ServerInv, CountInv, MatchInv
<1>9. NewIsHeld(m, held)
    BY <1>3, <1>4, <1>8 DEF NewIsHeld
<1>10. PICK rows : rows = FillIn(maps, held)
    OBVIOUS
<1>11. rows \in Games /\ Within(maps, rows) /\ \A n \in DOMAIN rows : n \in DOMAIN maps \/ n >= from
    <2>1. /\ rows \in Games /\ DOMAIN rows = DOMAIN maps \cup DOMAIN held
          /\ \A n \in DOMAIN maps : rows[n] = maps[n]
        BY <1>10, FillInFacts
    <2> QED BY <1>8, <2>1 DEF Within
<1>12. NoHole(rows) \/ NoHole(Decided(rows)) => server.wins = WinsOf(rows)
    BY <1>8, <1>10, <1>11, HoleStays, HoleSeen
<1>13. server.wins \in [Side -> Nat]
    BY DEF IInv, StoresOK, Servers
<1>14. ASSUME SeriesWinner(WinsOf(rows)) = Level, w \in Side, NoHole(Decided(rows))
       PROVE  HasMore(Decided(rows), w)
    <2>1. w = Leader(server.wins) /\ server.wins = WinsOf(rows)
        BY <1>6, <1>12, <1>14
    <2>2. \A s \in Side : s # w => server.wins[w] > server.wins[s]
        BY <1>13, <1>14, <2>1, LeaderFacts
    <2>3. \A s \in Side : server.wins[s] = MapWins(Decided(rows), s)
        BY <1>11, <2>1, WinsType, CountDecided
    <2> QED BY <1>14, <2>2, <2>3 DEF HasMore
<1>15. NoHole(rows) =>
            server.phase = "ended" /\ SeriesWinner(WinsOf(rows)) \in {SeriesWinner(server.wins), Level}
    BY <1>6, <1>12
<1>16. FinishMatch(m, w, held, {})
    BY <1>1, <1>5, <1>6
<1>17. rows = FillIn(match[m].maps, held)
    BY <1>2, <1>10
<1> QED BY <1>1, <1>7, <1>9, <1>14, <1>15, <1>16, <1>17, FinishMatchKeeps

\* The webhook that is handled, in the match
LEMMA DeliverMatch ==
    ASSUME IInv, NEW answered \in BOOLEAN, Deliver(answered)
    PROVE  /\ match' \in [Match -> Rows] /\ job' \subseteq MapJob \cup ResultJob /\ \A j \in job' : JobInv(j)'
           /\ Kept /\ ServerAgrees'
<1>1. PICK m \in Match : m = server.match
    BY DEF Deliver, Playing, IInv, StoresOK, Servers
<1>2. PICK e : e = Head(outbox)
    OBVIOUS
<1>3. Playing /\ outbox # <<>> /\ Handle(m, e) /\ UNCHANGED server
    BY <1>1, <1>2 DEF Deliver
<1>4. match[m].status = "serving" /\ m # None
    BY <1>1, <1>3 DEF Playing
<1>5. outbox \in Seq(Event) /\ \A i \in 1..Len(outbox) : EventInv(outbox[i])
    BY <1>1, <1>4 DEF IInv, StoresOK, OutboxInv
<1>6. e \in Event /\ EventInv(e)
    BY <1>2, <1>3, <1>5
<1>7. CASE e.type = "map_end"
    <2>1. EndSeriesMap(server.match, e.map, e.winner)
        BY <1>1, <1>3, <1>7 DEF Handle
    <2> QED BY <1>3, <1>6, <1>7, <2>1, EndSeriesMapKeeps
<1>8. CASE e.type = "match_end"
    <2>1. FinishMatch(server.match, e.winner, e.maps, {})
        BY <1>1, <1>3, <1>8 DEF Handle
    <2> QED BY <1>3, <1>6, <1>8, <2>1, MatchEndKeeps
<1>9. CASE e.type = "match_abandoned"
    <2>1. EndUnplayed(m, IF e.winner = {} THEN "cancelled" ELSE "abandoned", e.winner)
        BY <1>3, <1>9 DEF Handle
    <2>2. e.winner \in SUBSET Side
        BY <1>6, <1>9 DEF Event, OverEvent, AbandonEvent
    <2>3. PICK status \in {"abandoned", "cancelled"} : EndUnplayed(m, status, e.winner)
        BY <2>1
    <2> QED BY <1>3, <1>4, <2>2, <2>3, EndUnplayedKeeps
<1> QED BY <1>6, <1>7, <1>8, <1>9 DEF Event, OverEvent, AbandonEvent

\* And those that wait behind it
LEMMA DeliverInv ==
    ASSUME IInv, NEW answered \in BOOLEAN, Deliver(answered)
    PROVE  IInv'
<1>1. /\ match' \in [Match -> Rows] /\ job' \subseteq MapJob \cup ResultJob /\ \A j \in job' : JobInv(j)'
      /\ Kept /\ ServerAgrees'
    BY DeliverMatch
<1>2. /\ Playing /\ outbox # <<>> /\ outbox' = (IF answered THEN Tail(outbox) ELSE outbox)
      /\ UNCHANGED <<bm, server, counts>>
    BY DEF Deliver
<1>3. outbox \in Seq(Event) /\ \A i \in 1..Len(outbox) : EventInv(outbox[i])
    BY <1>2 DEF IInv, StoresOK, OutboxInv, Playing
<1>4. /\ outbox' \in Seq(Event)
      /\ \A i \in 1..Len(outbox') : \E k \in 1..Len(outbox) : outbox'[i] = outbox[k]
    <2>1. CASE answered
        <3>1. /\ Tail(outbox) \in Seq(Event)
              /\ \A i \in 1..Len(Tail(outbox)) : i + 1 \in 1..Len(outbox) /\ Tail(outbox)[i] = outbox[i + 1]
            BY <1>2, <1>3
        <3> QED BY <1>2, <2>1, <3>1
    <2>2. CASE ~answered
        BY <1>2, <1>3, <2>2
    <2> QED BY <2>1, <2>2
<1>5. OutboxInv'
    BY <1>2, <1>3, <1>4 DEF OutboxInv, EventInv
<1>6. BracketInv' /\ WinnerHasMoreMaps'
    BY <1>1, <1>2 DEF IInv, BracketInv, WinnerHasMoreMaps, Kept
<1>7. StoresOK'
    BY <1>1, <1>2, <1>4 DEF IInv, StoresOK, counts
<1> QED BY <1>1, <1>5, <1>6, <1>7 DEF IInv, Kept

-----------------------------------------------------------------------------
(* The bracket hears of a map, and of the end                              *)

\* handleMapResult: finishMatch then finds a majority in the rows, and the server agrees
LEMMA MapResultMatch ==
    ASSUME IInv, NEW j \in job, MapResult(j)
    PROVE  /\ match' \in [Match -> Rows]
           /\ job' \subseteq MapJob \cup ResultJob /\ \A i \in job' : JobInv(i)'
           /\ Kept /\ ServerAgrees'
<1>1. j \in MapJob /\ JobInv(j) /\ UNCHANGED <<server, outbox, counts>>
    BY DEF IInv, StoresOK, ResultJob, MapResult
<1>2. PICK m \in Match : m = j.match
    BY <1>1 DEF MapJob
<1>3. PICK maps \in Games : maps = match[m].maps
    BY DEF IInv, StoresOK, Rows
<1>4. HasBegun(m) /\ (j.decided # Level => SeriesWinner(WinsOf(maps)) = j.decided)
    BY <1>1, <1>2, <1>3 DEF MapJob, JobInv
<1>5. CASE match' = match /\ job' \subseteq job
    <2>1. Kept
        <3>1. \A k \in Match : MatchInv(k)'
            BY <1>5 DEF IInv, MatchInv
        <3>2. ServerInv'
            BY <1>1, <1>5 DEF IInv, ServerInv, HasBegun, CountInv
        <3>3. \A i \in job : JobInv(i)'
            BY <1>5 DEF IInv, JobInv, HasBegun, Terminal
        <3> QED BY <1>5, <3>1, <3>2, <3>3 DEF IInv, BracketInv, Within, Kept
    <2>2. ServerAgrees'
        BY <1>1, <1>5 DEF IInv, ServerAgrees
    <2> QED BY <1>5, <2>1, <2>2 DEF IInv, StoresOK, Kept
<1>6. CASE j.decided # Level /\ ~Terminal(m)
    <2>1. match[m].status = "serving"
        BY <1>4, <1>6 DEF HasBegun, Terminal, IInv, StoresOK, Rows
    <2>2. FinishMatch(m, j.decided, <<>>, {j}) /\ j.decided \in Outcome
        BY <1>1, <1>2, <1>6 DEF MapResult, MapJob
    <2>3. PICK rows : rows = FillIn(maps, <<>>)
        OBVIOUS
    <2>4. rows = maps
        <3>1. maps = [n \in DOMAIN maps |-> maps[n]]
            BY GamesFacts
        <3> QED BY <2>3, <3>1, NoGames DEF FillIn
    <2>5. NewIsHeld(m, <<>>)
        BY NoGames DEF NewIsHeld
    <2>6. SeriesWinner(WinsOf(rows)) = j.decided
        BY <1>4, <1>6, <2>4
    <2>7. ASSUME server.match = m, NoHole(rows)
          PROVE  server.phase = "ended" /\ SeriesWinner(WinsOf(rows)) \in {SeriesWinner(server.wins), Level}
        <3>1. PICK held \in Games : held = server.results
            BY DEF IInv, StoresOK, Servers
        <3>2. PICK from \in Nat : from = match[m].from
            BY DEF IInv, StoresOK, Rows
        <3>3. m # None
            BY DEF Match, None
        <3>4. Whole(maps, from)
            <4>1. Holed(maps, from) \/ Whole(maps, from)
                BY <1>3, <2>1, <3>2 DEF IInv, MatchInv
            <4> QED BY <2>4, <2>7, <4>1, HoleSeen
        <3>5. /\ \A n \in DOMAIN maps : n >= from => n \in DOMAIN held
              /\ server.wins = WinsOf(FillIn(maps, held))
              /\ DOMAIN held # {} /\ SeriesWinner(server.wins) # Level => server.phase = "ended"
            BY <1>3, <2>7, <3>1, <3>2, <3>3, <3>4 DEF IInv, ServerInv, CountInv
        <3>6. j.map \in DOMAIN maps /\ from <= j.map /\ j.map \in Nat
            BY <1>1, <1>2, <1>3, <3>2 DEF JobInv, MapJob, Map
        <3>7. Within(maps, FillIn(maps, held)) /\ FillIn(maps, held) \in Games
            BY FillInFacts DEF Within
        <3>8. SeriesWinner(server.wins) = SeriesWinner(WinsOf(maps))
            BY <1>6, <2>4, <2>6, <3>5, <3>7, WinnerStays
        <3> QED BY <1>6, <2>4, <2>6, <3>5, <3>6, <3>8
    <2>8. rows = FillIn(match[m].maps, <<>>)
        BY <1>3, <2>3
    <2> QED BY <1>1, <1>6, <2>1, <2>2, <2>5, <2>6, <2>7, <2>8, NoGames, FinishMatchKeeps
<1>7. (match' = match /\ job' \subseteq job) \/ (j.decided # Level /\ ~Terminal(m))
    BY <1>2 DEF MapResult, FinishMatch
<1> QED BY <1>5, <1>6, <1>7

\* onMapResult: a map that the API heard of is passed on to the bracket
LEMMA MapResultInv ==
    ASSUME IInv, NEW j \in job, MapResult(j)
    PROVE  IInv'
<1>1. /\ match' \in [Match -> Rows] /\ job' \subseteq MapJob \cup ResultJob /\ \A i \in job' : JobInv(i)'
      /\ Kept /\ ServerAgrees'
    BY MapResultMatch
<1>2. /\ j \in MapJob /\ JobInv(j) /\ JobInv(j)' /\ j.todo = "map" /\ UNCHANGED <<server, outbox, counts>>
      /\ bm' = IF j.winner # Level /\ Live(j.match) THEN RecordMap(j) ELSE bm
    BY <1>1 DEF IInv, StoresOK, ResultJob, MapResult, Kept
<1>3. bm \in BracketMatch
    BY DEF IInv, StoresOK
<1>4. CASE bm' = bm
    <2>1. BracketInv' /\ WinnerHasMoreMaps'
        BY <1>1, <1>4 DEF IInv, BracketInv, WinnerHasMoreMaps, Kept
    <2>2. StoresOK' /\ OutboxInv'
        BY <1>1, <1>2, <1>4 DEF IInv, StoresOK, OutboxInv, EventInv, counts
    <2> QED BY <1>1, <2>1, <2>2 DEF IInv, Kept
<1>5. CASE j.winner # Level /\ Live(j.match) /\ j.map \notin DOMAIN bm.games
    <2>1. PICK games \in Games : games = bm.games
        BY <1>3 DEF BracketMatch
    <2>3. j.winner \in Side /\ j.map \in Map /\ j.match \in Match
        BY <1>2, <1>5 DEF MapJob, Outcome
    <2>12. PICK n \in Map : n = j.map
        BY <2>3
    <2>13. PICK w \in Outcome : w = j.winner
        BY <2>3 DEF Outcome
    <2>2. PICK more : more = WithMap(games, n, w)
        OBVIOUS
    <2>4. bm' = [bm EXCEPT !.games = more]
        BY <1>2, <1>5, <2>1, <2>2, <2>12, <2>13 DEF RecordMap
    <2>5. more \in Games /\ DOMAIN more = DOMAIN games \cup {j.map} /\ more[j.map] = j.winner
        <3>1. more \in Games /\ DOMAIN more = DOMAIN games \cup {n} /\ more[n] = w
            BY <2>2, WithMapFacts
        <3> QED BY <2>12, <2>13, <3>1
    <2>6. \A k \in DOMAIN games : more[k] = games[k]
        BY <1>5, <2>1, <2>2, <2>12 DEF WithMap
    <2>7. bm' \in BracketMatch /\ bm'.games = more /\ bm'.status = "live" /\ bm'.live = j.match /\ bm'.how = bm.how
        BY <1>3, <1>5, <2>4, <2>5 DEF BracketMatch, Live
    <2>8. Within(more, match'[j.match].maps) /\ match'[j.match].status # "none"
        <3>1. Within(games, match'[j.match].maps) /\ match'[j.match].status # "none"
            BY <1>1, <1>5, <2>1 DEF Kept, Live
        <3>2. j.map \in DOMAIN match'[j.match].maps /\ match'[j.match].maps[j.map] = j.winner
            BY <1>2 DEF JobInv
        <3> QED BY <2>5, <2>6, <3>1, <3>2 DEF Within
    <2>9. bm.how # "played" /\ NoDraws(more)
        BY <1>5, <2>1, <2>3, <2>5, <2>6 DEF IInv, BracketInv, Live, NoDraws
    <2>10. BracketInv' /\ WinnerHasMoreMaps'
        BY <2>3, <2>7, <2>8, <2>9 DEF BracketInv, WinnerHasMoreMaps
    <2>11. StoresOK' /\ OutboxInv'
        BY <1>1, <1>2, <2>7 DEF IInv, StoresOK, OutboxInv, EventInv, counts
    <2> QED BY <1>1, <2>10, <2>11 DEF IInv, Kept
<1> QED BY <1>2, <1>4, <1>5 DEF RecordMap

\* What recordSeries, replaySeries, forfeit and cancelGame make of the games: only a replay forgets them
LEMMA ApplyFacts ==
    ASSUME IInv, NEW j \in ResultJob, j.how = "completed" => j.absent = {}, bm.status = "live"
    PROVE  /\ ApplyResult(j) \in BracketMatch /\ ApplyResult(j).status # "live"
           /\ ApplyResult(j).how = "played" => ApplyResult(j).status = "done"
           /\ \/ /\ j.how = "completed" /\ j.winner \in Side
                 /\ ApplyResult(j).games = FillIn(bm.games, j.maps) /\ ApplyResult(j).winner = j.winner
              \/ ApplyResult(j).games = <<>> /\ ApplyResult(j).status = "ready" /\ ApplyResult(j).how # "played"
              \/ ApplyResult(j).games = bm.games /\ ApplyResult(j).how # "played"
<1>1. bm \in BracketMatch /\ bm.how # "played"
    BY DEF IInv, StoresOK, BracketInv
<1>2. bm.games \in Games /\ j.maps \in Games
    BY <1>1 DEF BracketMatch, ResultJob
<1>3. j.how \in {"completed", "cancelled", "abandoned"} /\ j.winner \in Side \cup {Level} /\ j.absent \in SUBSET Side
    BY DEF ResultJob, Outcome
<1>4. ASSUME NEW winner \in Outcome \cup {"none"}, NEW how \in {"played", "forfeit", "double_forfeit"}
      PROVE  /\ Finish(winner, how) \in BracketMatch /\ Finish(winner, how).status = "done"
             /\ Finish(winner, how).how = how /\ Finish(winner, how).games = bm.games
             /\ Finish(winner, how).winner = winner
    BY <1>1, <1>4 DEF Finish, BracketMatch
<1>5. FillIn(bm.games, j.maps) \in Games
    BY <1>2, FillInFacts
<1>9. Side # {}
    BY SeriesAssumption, FS_EmptySet
<1>6. CASE j.how = "completed" /\ j.winner \in Side
    <2>1. ApplyResult(j) = [Finish(j.winner, "played") EXCEPT !.games = FillIn(bm.games, j.maps)]
        BY <1>6, <1>9, SideFacts DEF ApplyResult
    <2> QED BY <1>4, <1>5, <1>6, <2>1 DEF Outcome, BracketMatch
<1>7. CASE j.how = "completed" /\ j.winner = Level
    <2>1. ApplyResult(j) = [bm EXCEPT !.status = "ready", !.live = None, !.games = <<>>]
        BY <1>7, <1>9, SideFacts DEF ApplyResult
    <2> QED BY <1>1, <2>1, NoGames DEF BracketMatch
<1>8. CASE j.how # "completed"
    <2>1. CASE j.absent = Side
        <3>1. ApplyResult(j) = Finish("none", "double_forfeit")
            BY <1>8, <2>1 DEF ApplyResult
        <3> QED BY <1>4, <3>1
    <2>2. CASE j.absent # {} /\ j.absent # Side
        <3>1. ApplyResult(j) = Finish(CHOOSE s \in Side : s \notin j.absent, "forfeit")
            BY <1>8, <2>2 DEF ApplyResult
        <3>2. (CHOOSE s \in Side : s \notin j.absent) \in Side
            BY <1>3, <2>2
        <3> QED BY <1>4, <3>1, <3>2 DEF Outcome
    <2>3. CASE j.absent = {} /\ j.absent # Side
        <3>1. ApplyResult(j) = [bm EXCEPT !.status = "ready", !.live = None]
            BY <1>8, <2>3 DEF ApplyResult
        <3> QED BY <1>1, <3>1 DEF BracketMatch
    <2> QED BY <2>1, <2>2, <2>3
<1> QED BY <1>3, <1>6, <1>7, <1>8

\* onResult: the end of a match reaches the bracket, and counts if the match is still its match
LEMMA HandleResultInv ==
    ASSUME IInv, NEW j \in job, HandleResult(j)
    PROVE  IInv'
<1>1. /\ j \in ResultJob /\ JobInv(j) /\ j.todo = "result" /\ UNCHANGED <<match, server, outbox, counts>>
      /\ job' = job \ {j} /\ bm' = IF Live(j.match) THEN ApplyResult(j) ELSE bm
    BY DEF IInv, StoresOK, MapJob, HandleResult
<1>2. \A i \in job' : JobInv(i)'
    BY <1>1 DEF IInv, JobInv, HasBegun, Terminal
<1>3. (\A m \in Match : MatchInv(m)') /\ ServerInv' /\ OutboxInv' /\ ServerAgrees'
    <2>1. \A m \in Match : MatchInv(m)'
        BY <1>1 DEF IInv, MatchInv
    <2>2. ServerInv'
        BY <1>1 DEF IInv, ServerInv, HasBegun, CountInv
    <2>3. OutboxInv' /\ ServerAgrees'
        BY <1>1 DEF IInv, OutboxInv, EventInv, ServerAgrees
    <2> QED BY <2>1, <2>2, <2>3
<1>4. bm' \in BracketMatch /\ BracketInv' /\ WinnerHasMoreMaps'
    <2>1. CASE ~Live(j.match)
        BY <1>1, <2>1 DEF IInv, StoresOK, BracketInv, WinnerHasMoreMaps
    <2>2. CASE Live(j.match)
        <3>1. PICK b : b = ApplyResult(j)
            OBVIOUS
        <3>2. bm' = b /\ bm.status = "live" /\ bm.live = j.match
            BY <1>1, <2>2, <3>1 DEF Live
        <3>3. /\ b \in BracketMatch /\ b.status # "live" /\ (b.how = "played" => b.status = "done")
              /\ \/ j.how = "completed" /\ j.winner \in Side /\ b.games = FillIn(bm.games, j.maps) /\ b.winner = j.winner
                 \/ b.games = <<>> /\ b.status = "ready" /\ b.how # "played"
                 \/ b.games = bm.games /\ b.how # "played"
            BY <1>1, <3>1, <3>2, ApplyFacts DEF JobInv
        <3>4. CASE b.how # "played" /\ (b.games = <<>> \/ b.games = bm.games)
            BY <3>2, <3>3, <3>4, NoGames DEF IInv, BracketInv, WinnerHasMoreMaps, NoDraws
        <3>5. CASE j.how = "completed" /\ j.winner \in Side /\ b.games = FillIn(bm.games, j.maps) /\ b.winner = j.winner
            <4>1. PICK rows \in Games : rows = match[j.match].maps
                BY <1>1 DEF IInv, StoresOK, Rows, ResultJob
            <4>2. /\ j.maps = Decided(rows)
                  /\ NoHole(j.maps) => HasMore(j.maps, j.winner)
                BY <1>1, <3>5, <4>1 DEF JobInv
            <4>3. PICK games \in Games : games = bm.games
                BY DEF IInv, StoresOK, BracketMatch
            <4>4. NoDraws(games) /\ Within(games, rows)
                BY <3>2, <4>1, <4>3 DEF IInv, BracketInv
            <4>5. Decided(rows) \in Games /\ NoDraws(Decided(rows)) /\ Within(games, Decided(rows))
                BY <4>4, DecidedFacts, SideFacts DEF Within, NoDraws
            <4>6. FillIn(games, Decided(rows)) = Decided(rows)
                <5>1. Decided(rows) = [n \in DOMAIN Decided(rows) |-> Decided(rows)[n]]
                    BY <4>5, GamesFacts
                <5> QED BY <4>5, <5>1 DEF FillIn, Within
            <4>7. b.games = j.maps
                BY <3>5, <4>2, <4>3, <4>6
            <4>8. BracketInv'
                BY <3>2, <3>3, <4>2, <4>5, <4>7 DEF BracketInv
            <4>9. WinnerHasMoreMaps'
                BY <3>2, <3>5, <4>2, <4>7 DEF WinnerHasMoreMaps, HasMore
            <4> QED BY <3>2, <3>3, <4>8, <4>9
        <3> QED BY <3>3, <3>4, <3>5
    <2> QED BY <2>1, <2>2
<1>5. StoresOK'
    BY <1>1, <1>4 DEF IInv, StoresOK, counts
<1> QED BY <1>2, <1>3, <1>4, <1>5 DEF IInv

\* A restart of the API loses the calls under way
LEMMA CrashInv == IInv /\ Crash => IInv'
<1> SUFFICES ASSUME IInv, Crash PROVE IInv'
    OBVIOUS
<1>1. job' = {} /\ crashes' \in Nat /\ UNCHANGED <<bm, match, server, outbox, reloads>>
    BY DEF IInv, StoresOK, Crash
<1>2. StoresOK'
    BY <1>1 DEF IInv, StoresOK
<1>3. (\A m \in Match : MatchInv(m)') /\ BracketInv'
    BY <1>1 DEF IInv, MatchInv, BracketInv
<1>4. ServerInv' /\ OutboxInv'
    BY <1>1 DEF IInv, ServerInv, HasBegun, CountInv, OutboxInv, EventInv
<1>5. WinnerHasMoreMaps' /\ ServerAgrees'
    BY <1>1 DEF IInv, WinnerHasMoreMaps, ServerAgrees
<1> QED BY <1>1, <1>2, <1>3, <1>4, <1>5 DEF IInv

-----------------------------------------------------------------------------
\* Every step keeps the invariant
LEMMA NextInv == IInv /\ [Next]_vars => IInv'
<1> SUFFICES ASSUME IInv, [Next]_vars PROVE IInv'
    OBVIOUS
<1>1. CASE Plugin
    <2>1. ASSUME NEW w \in Side \cup {Level}, FinishMap(w) PROVE IInv'
        BY <2>1, FinishMapInv DEF Outcome
    <2>2. ASSUME NEW absent \in (SUBSET Side) \ {{}}, CheckAbandon(absent) PROVE IInv'
        BY <2>2, AbandonsInv
    <2> QED BY <1>1, <2>1, <2>2, GoLiveInv, LoadNextMapInv, OnMapStartInv, AbandonsInv, ReloadInv DEF Plugin
<1>2. CASE GiveUp \/ Crash
    BY <1>2, GiveUpInv, CrashInv
<1>3. ASSUME NEW m \in Match, StartSeries(m) \/ LaunchServer(m) \/ EndsUnplayed(m) PROVE IInv'
    BY <1>3, StartSeriesInv, LaunchServerInv, EndsUnplayedInv
<1>4. ASSUME NEW answered \in BOOLEAN, Deliver(answered) PROVE IInv'
    BY <1>4, DeliverInv
<1>5. ASSUME NEW j \in job, MapResult(j) \/ HandleResult(j) PROVE IInv'
    BY <1>5, MapResultInv, HandleResultInv
<1>6. CASE UNCHANGED vars
    <2>1. UNCHANGED <<bm, match, server, outbox, job, reloads, crashes>>
        BY <1>6 DEF vars
    <2>2. StoresOK'
        BY <2>1 DEF IInv, StoresOK
    <2>3. (\A m \in Match : MatchInv(m)') /\ BracketInv'
        BY <2>1 DEF IInv, MatchInv, BracketInv
    <2>4. ServerInv' /\ OutboxInv'
        BY <2>1 DEF IInv, ServerInv, HasBegun, CountInv, OutboxInv, EventInv
    <2>5. \A j \in job' : JobInv(j)'
        BY <2>1 DEF IInv, JobInv, HasBegun, Terminal
    <2>6. WinnerHasMoreMaps' /\ ServerAgrees'
        BY <2>1 DEF IInv, WinnerHasMoreMaps, ServerAgrees
    <2> QED BY <2>2, <2>3, <2>4, <2>5, <2>6 DEF IInv
<1> QED BY <1>1, <1>2, <1>3, <1>4, <1>5, <1>6 DEF Next

\* What is decided of a series in the bracket, the rows, the webhooks and the server hangs together for ever
THEOREM Invariance == Spec => []IInv
BY InitInv, NextInv, PTL DEF Spec

\* Over restarts, lost webhooks and a change of server, who won a series that was played won more maps
THEOREM WinnerCorrect == Spec => []WinnerHasMoreMaps
<1>1. IInv => WinnerHasMoreMaps
    BY DEF IInv
<1> QED BY <1>1, Invariance, PTL

\* The API ends a series only when the server that played it holds it for over, and for the same side
THEOREM EndCorrect == Spec => []ServerAgrees
<1>1. IInv => ServerAgrees
    BY DEF IInv
<1> QED BY <1>1, Invariance, PTL

-----------------------------------------------------------------------------
(* What is decided stays                                                   *)

\* endSeriesMap and seriesOutcome: rows that are done are not written again
LEMMA RowsStay ==
    ASSUME IInv, Next, NEW k \in Match
    PROVE  Within(match[k].maps, match'[k].maps)
<1>1. CASE UNCHANGED match
    BY <1>1 DEF Within
<1>2. CASE Plugin \/ GiveUp \/ Crash
    BY <1>1, <1>2
       DEF Plugin, GiveUp, Crash, GoLive, LoadNextMap, OnMapStart, LoadTimesOut,
           Reload, FinishMap, CheckAbandon, Abandon
<1>3. ASSUME NEW m \in Match, StartSeries(m)
      PROVE  Within(match[k].maps, match'[k].maps)
    <2>1. match[m].status = "none" /\ \E new : match' = [match EXCEPT ![m] = new]
        BY <1>3 DEF StartSeries, CreateMatch, Unused
    <2>2. DOMAIN match[m].maps = {} /\ (k # m => match'[k] = match[k])
        BY <2>1 DEF IInv, StoresOK, MatchInv
    <2> QED BY <2>2 DEF Within
<1>4. ASSUME NEW m \in Match, LaunchServer(m)
      PROVE  Within(match[k].maps, match'[k].maps)
    <2>1. match' = [match EXCEPT ![m].status = "serving"] /\ match \in [Match -> Rows]
        BY <1>4 DEF LaunchServer, Launch, IInv, StoresOK
    <2>2. match'[k].maps = match[k].maps
        BY <2>1 DEF Rows
    <2> QED BY <2>2 DEF Within
<1>5. ASSUME NEW m \in Match, EndsUnplayed(m)
      PROVE  Within(match[k].maps, match'[k].maps)
    BY <1>5, EndUnplayedKeeps DEF EndsUnplayed, Kept
<1>6. ASSUME NEW answered \in BOOLEAN, Deliver(answered)
      PROVE  Within(match[k].maps, match'[k].maps)
    BY <1>6, DeliverMatch DEF Kept
<1>7. ASSUME NEW j \in job, MapResult(j) \/ HandleResult(j)
      PROVE  Within(match[k].maps, match'[k].maps)
    BY <1>1, <1>7, MapResultMatch DEF Kept, HandleResult
<1> QED BY <1>2, <1>3, <1>4, <1>5, <1>6, <1>7 DEF Next

\* recordMap and recordSeries: only a replay forgets games
Forgets == bm.status = "live" /\ bm'.status = "ready" /\ bm'.games = <<>>

\* The bracket forgets no game and changes none, but for a replay
LEMMA GamesStay ==
    ASSUME IInv, Next
    PROVE  Within(bm.games, bm'.games) \/ Forgets
<1>1. bm \in BracketMatch
    BY DEF IInv, StoresOK
<1>2. CASE bm'.games = bm.games
    BY <1>2 DEF Within
<1>3. CASE Plugin \/ GiveUp \/ Crash \/ \E answered \in BOOLEAN : Deliver(answered)
    BY <1>2, <1>3
       DEF Plugin, GiveUp, Crash, GoLive, LoadNextMap, OnMapStart, LoadTimesOut,
           Reload, FinishMap, CheckAbandon, Abandon,
           Deliver
<1>4. ASSUME NEW m \in Match, StartSeries(m) \/ LaunchServer(m) \/ EndsUnplayed(m)
      PROVE  bm'.games = bm.games
    BY <1>1, <1>4 DEF StartSeries, CreateMatch, LaunchServer, Launch, EndsUnplayed, BracketMatch
<1>5. ASSUME NEW j \in job, MapResult(j)
      PROVE  Within(bm.games, bm'.games)
    <2>1. bm' = bm \/ (j.map \notin DOMAIN bm.games /\ bm' = [bm EXCEPT !.games = WithMap(bm.games, j.map, j.winner)])
        BY <1>5 DEF MapResult, RecordMap
    <2>2. bm'.games = bm.games \/ (j.map \notin DOMAIN bm.games /\ bm'.games = WithMap(bm.games, j.map, j.winner))
        BY <1>1, <2>1 DEF BracketMatch
    <2> QED BY <2>2 DEF WithMap, Within
<1>6. ASSUME NEW j \in job, HandleResult(j)
      PROVE  Within(bm.games, bm'.games) \/ Forgets
    <2>1. j \in ResultJob /\ JobInv(j) /\ j.todo = "result"
        BY <1>6 DEF HandleResult, IInv, StoresOK, MapJob
    <2>2. CASE Live(j.match)
        <3>1. bm' = ApplyResult(j) /\ bm.status = "live"
            BY <1>6, <2>2 DEF HandleResult, Live
        <3>2. \/ bm'.games = FillIn(bm.games, j.maps)
              \/ bm'.games = <<>> /\ bm'.status = "ready"
              \/ bm'.games = bm.games
            BY <2>1, <3>1, ApplyFacts DEF JobInv
        <3> QED BY <3>1, <3>2 DEF FillIn, Within, Forgets
    <2>3. CASE ~Live(j.match)
        BY <1>2, <1>6, <2>3 DEF HandleResult
    <2> QED BY <2>2, <2>3
<1> QED BY <1>2, <1>3, <1>4, <1>5, <1>6 DEF Next

\* No step changes or forgets the winner of a map, in the bracket or in a match, but the replay of a series
THEOREM DecisionsStay == Spec => DecidedStays
<1>1. IInv /\ [Next]_vars =>
        [/\ \A n \in DOMAIN bm.games :
              \/ n \in DOMAIN bm'.games /\ bm'.games[n] = bm.games[n]
              \/ bm.status = "live" /\ bm'.status = "ready" /\ bm'.games = <<>>
         /\ \A m \in Match : \A n \in DOMAIN match[m].maps :
              n \in DOMAIN match'[m].maps /\ match'[m].maps[n] = match[m].maps[n]]_vars
    BY RowsStay, GamesStay DEF Within, Forgets
<1> QED BY <1>1, Invariance, PTL DEF Spec, DecidedStays
=============================================================================
