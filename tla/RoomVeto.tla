------------------------------ MODULE RoomVeto -------------------------------
(***************************************************************************)
(* The room vetoes of Rush: packages/shared/src/veto/rooms.ts, one map,    *)
(* and series-rooms.ts, every map of a series, with the formats and pools  *)
(* of config/rush-veto.ts. A veto that is done has to give a path of rooms *)
(* that the game server accepts, or saveVeto throws on its last step.      *)
(***************************************************************************)
EXTENDS Veto

MidPool == [i \in 1..12 |-> <<"mid", i>>]
StartPool == [i \in 1..4 |-> <<"start", i>>]
Castle == [t |-> <<"castle", 1>>, ct |-> <<"castle", 2>>]
SideKey(map, side) == <<"side", map, side>>

Slot == 0..6
CastleSlot == [t |-> 0, ct |-> 6]
StartSlot == 3
Open == <<"open", 0>>

\* isValidRushPath: the rule of the game server
ValidPath(path) ==
    /\ Cardinality({path[slot] : slot \in Slot}) = Cardinality(Slot)
    /\ path[CastleSlot.t] = Castle.t /\ path[CastleSlot.ct] = Castle.ct
    /\ path[StartSlot] \in Items(StartPool)
    /\ \A slot \in Slot \ {StartSlot, CastleSlot.t, CastleSlot.ct} : path[slot] \in Items(MidPool)

\* roomPhaseDone: the veto is past the last step of the phase
PhaseDone(state, phase) ==
    state.done \/ \A i \in DOMAIN state.steps : state.steps[i].phase = phase => state.stepIndex >= i

PicksOf(state, phase, team) ==
    LET entries == AtPlaces(state.history, {i \in DOMAIN state.history :
                       LET h == state.history[i]
                       IN  h.action = "pick" /\ h.team = team /\ state.steps[h.step].phase = phase})
    IN  [i \in DOMAIN entries |-> entries[i].mapId]

LeftOf(state, pool) == Those(state.available, Items(pool))

-----------------------------------------------------------------------------
(* One map: bans and picks of mid rooms, then bans until one start is left *)

RoomFormat ==
    <<[pool |-> MidPool, sequence |-> <<"ban", "ban", "pick", "pick", "ban", "ban", "pick", "pick">>,
       banToOne |-> FALSE, pickSlots |-> <<<<1, 2>>, <<5, 4>>>>, leftoverSlots |-> <<>>],
      [pool |-> StartPool, sequence |-> <<>>, banToOne |-> TRUE, pickSlots |-> <<<<>>, <<>>>>,
       leftoverSlots |-> <<StartSlot>>]>>

PhaseActions(phase) ==
    phase.sequence \o [i \in 1..(IF phase.banToOne THEN Len(phase.pool) - 1 - Len(phase.sequence) ELSE 0) |-> "ban"]

\* Pick k of a team in a phase is for the slot, and has been made
Picks(state, phase, team, k, slot) ==
    /\ k \in DOMAIN RoomFormat[phase].pickSlots[team] /\ RoomFormat[phase].pickSlots[team][k] = slot
    /\ k \in DOMAIN PicksOf(state, phase, team)

\* Room i left of a phase that is over is for the slot
Remains(state, phase, i, slot) ==
    /\ i \in DOMAIN RoomFormat[phase].leftoverSlots /\ RoomFormat[phase].leftoverSlots[i] = slot
    /\ PhaseDone(state, phase) /\ i \in DOMAIN LeftOf(state, RoomFormat[phase].pool)

\* Teams alternate across all phases
RoomVetoSteps(first) ==
    LET mid == PhaseActions(RoomFormat[1])
        actions == mid \o PhaseActions(RoomFormat[2])
    IN  [i \in DOMAIN actions |->
            [Alternate(actions, first, 1)[i] EXCEPT !.phase = IF i <= Len(mid) THEN 1 ELSE 2]]

CreateRoomVeto(teams, first) ==
    CreateVeto(MidPool \o StartPool, teams, RoomVetoSteps(first), RoomFormat)

RoomSlots_AnyTeam(state) ==
    [slot \in Slot |->
        LET picked == {p \in {1, 2} \X {1, 2} \X {1, 2} : Picks(state, p[1], p[2], p[3], slot)}
        IN  IF slot = CastleSlot.t THEN Castle.t
            ELSE IF slot = CastleSlot.ct THEN Castle.ct
            ELSE IF picked # {} THEN LET pick == CHOOSE p \in picked : TRUE IN PicksOf(state, pick[1], pick[2])[pick[3]]
            ELSE IF slot = StartSlot THEN state.available[1]
            ELSE Open]
RoomSlots(state) ==
    [slot \in Slot |->
        LET picked == {p \in {1, 2} \X {1, 2} \X {1, 2} : Picks(state, p[1], p[2], p[3], slot)}
            left == {l \in {1, 2} \X {1} : Remains(state, l[1], l[2], slot)}
        IN  IF slot = CastleSlot.t THEN Castle.t
            ELSE IF slot = CastleSlot.ct THEN Castle.ct
            ELSE IF picked # {} THEN LET pick == CHOOSE p \in picked : TRUE IN PicksOf(state, pick[1], pick[2])[pick[3]]
            ELSE IF left # {} THEN LET last == CHOOSE l \in left : TRUE IN LeftOf(state, RoomFormat[last[1]].pool)[last[2]]
            ELSE Open]

-----------------------------------------------------------------------------
(* A series: three maps, no bans and no room twice                         *)

SeriesMaps == 1..3
SeriesSteps ==
    <<<<1, "side", "second">>, <<1, "mid", "first">>, <<1, "mid", "second">>, <<1, "mid", "first">>,
      <<1, "mid", "second">>, <<1, "start", "second">>,
      <<2, "mid", "second">>, <<2, "mid", "first">>, <<2, "mid", "second">>, <<2, "mid", "first">>,
      <<2, "start", "first">>,
      <<3, "side", "flipWinner">>, <<3, "mid", "flipLoser">>, <<3, "mid", "flipLoser">>,
      <<3, "start", "flipWinner">>>>

RoleTeam(role, first, flipWinner) ==
    CASE role = "first" -> first
      [] role = "second" -> OtherSide(first)
      [] role = "flipWinner" -> flipWinner
      [] role = "flipLoser" -> OtherSide(flipWinner)

\* The phases of a series, one per map and kind in the order of their first step, with their pools
SeriesPhases == <<<<1, "side">>, <<1, "mid">>, <<1, "start">>, <<2, "mid">>, <<2, "start">>,
                  <<3, "side">>, <<3, "mid">>, <<3, "start">>>>
PhasePool(map, kind) ==
    CASE kind = "side" -> <<SideKey(map, "ct"), SideKey(map, "t")>>
      [] kind = "mid" -> MidPool
      [] kind = "start" -> StartPool
PhaseAt(map, kind) == {f \in DOMAIN SeriesPhases : SeriesPhases[f] = <<map, kind>>}

CreateSeriesRoomVeto(teams, first, flipWinner) ==
    CreateVeto(PhasePool(1, "side") \o MidPool \o StartPool \o PhasePool(3, "side"), teams,
        [i \in DOMAIN SeriesSteps |->
            LET s == SeriesSteps[i]
            IN  VetoStep(IF s[2] = "side" THEN "side" ELSE "pick", RoleTeam(s[3], first, flipWinner),
                         CHOOSE f \in PhaseAt(s[1], s[2]) : TRUE)],
        [f \in DOMAIN SeriesPhases |-> [pool |-> PhasePool(SeriesPhases[f][1], SeriesPhases[f][2])]])

\* The team on CT, by choice or by a swap on every map without a side step. 0: not known yet
Sided(state, map) == {i \in DOMAIN state.history : state.steps[state.history[i].step].phase \in PhaseAt(map, "side")}
LastSided(map) ==
    LET sided == {m \in 1..map : PhaseAt(m, "side") # {}}
    IN  CHOOSE m \in sided : \A n \in sided : n <= m
CtTeam_NoSwap(state, map) ==
    LET last == LastSided(map)
        h == state.history[CHOOSE i \in Sided(state, last) : TRUE]
    IN  IF Sided(state, last) = {} THEN 0
        ELSE IF h.mapId = SideKey(last, "ct") THEN h.team
        ELSE OtherSide(h.team)
CtTeam(state, map) ==
    LET last == LastSided(map)
        h == state.history[CHOOSE i \in Sided(state, last) : TRUE]
    IN  IF Sided(state, last) = {} THEN 0
        ELSE IF (h.mapId = SideKey(last, "ct")) = ((map - last) % 2 = 0) THEN h.team
        ELSE OtherSide(h.team)

\* A team's mid picks start beside its own castle
OwnSlots == [t |-> <<1, 2>>, ct |-> <<5, 4>>]
SideOf(team, ct) == IF team = ct THEN "ct" ELSE "t"

SeriesPicks(state, map, kind, team) == PicksOf(state, CHOOSE f \in PhaseAt(map, kind) : TRUE, team)

\* seriesRoomMaps: the slots of one map; open mid slots take what is left once the map's mid picks are over
SeriesSlots(state, map) ==
    LET ct == CtTeam(state, map)
        Mid(team) == SeriesPicks(state, map, "mid", team)
        start == SeriesPicks(state, map, "start", 1) \o SeriesPicks(state, map, "start", 2)
        Taken(team) == {OwnSlots[SideOf(team, ct)][k] : k \in DOMAIN Mid(team) \cap {1, 2}}
        open == Those(OwnSlots.t \o OwnSlots.ct, Slot \ (Taken(1) \cup Taken(2)))
        left == LeftOf(state, MidPool)
        filled == PhaseDone(state, CHOOSE f \in PhaseAt(map, "mid") : TRUE)
    IN  [slot \in Slot |->
            IF slot = CastleSlot.t THEN Castle.t
            ELSE IF slot = CastleSlot.ct THEN Castle.ct
            ELSE IF slot = StartSlot THEN (IF start = <<>> THEN Open ELSE start[1])
            ELSE IF ct = 0 THEN Open
            ELSE IF slot \in Taken(1) \cup Taken(2)
            THEN LET team == CHOOSE team \in {1, 2} : slot \in Taken(team)
                     own == OwnSlots[SideOf(team, ct)]
                 IN  Mid(team)[CHOOSE k \in {1, 2} : own[k] = slot]
            ELSE LET i == CHOOSE i \in DOMAIN open : open[i] = slot
                 IN  IF filled /\ i \in DOMAIN left THEN left[i] ELSE Open]
=============================================================================
