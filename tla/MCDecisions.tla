----------------------------- MODULE MCDecisions -----------------------------
(***************************************************************************)
(* Four pure decisions and the inputs that they are made for: what an      *)
(* accept window resolves to and who forfeits (AcceptRules), whom a pass   *)
(* of the matchmaker puts together (Matchmaker), the level of trust of a   *)
(* player (TrustRules), and what a veto of maps or rooms leads to (Veto,   *)
(* RoomVeto). A behaviour builds up one `input`, for the decision that is  *)
(* its `subject`.                                                          *)
(***************************************************************************)
EXTENDS AcceptRules, Matchmaker, TrustRules, RoomVeto

CONSTANTS MaxTickets,        \* bound: tickets in the queue of the matchmaker
          Bo1Pools,          \* sizes of the pool that one map is left of
          Bo3Pools,          \* sizes of the pool of a best of three
          FirstTeams,        \* teams that may begin a veto
          AnyVote            \* whether votes and chance fall on any choice or, as a bound, on the first and the last

\* A pool is larger than what is kept of it, BO3_MIN_POOL for a best of three
ASSUME PoolAssumption ==
    /\ Bo1Pools \subseteq Nat /\ \A n \in Bo1Pools : n > 1
    /\ Bo3Pools \subseteq Nat /\ \A n \in Bo3Pools : n >= 5
    /\ FirstTeams \subseteq {1, 2}

VARIABLES subject, input

decisionVars == <<subject, input>>

-----------------------------------------------------------------------------
(* Answers, deadline and absences of a match of four                       *)

NoAnswers == [accepted |-> {}, declined |-> {}, timedOut |-> FALSE, missing |-> {}]
Accept(p) == subject = "accept" /\ input' = [input EXCEPT !.accepted = @ \cup {p}] /\ UNCHANGED subject
Decline(p) == subject = "accept" /\ input' = [input EXCEPT !.declined = @ \cup {p}] /\ UNCHANGED subject
Vanish(p) == subject = "accept" /\ input' = [input EXCEPT !.missing = @ \cup {p}] /\ UNCHANGED subject
TimeOut == subject = "accept" /\ input' = [input EXCEPT !.timedOut = TRUE] /\ UNCHANGED subject

-----------------------------------------------------------------------------
(* A queue: alone or in pairs, near and far in rating, trusted and asking  *)
(* for trusted players only, and in another region                         *)

Ticket0 == [size |-> 1, rating |-> 1000, region |-> "eu", minTrust |-> 0, trust |-> 0, wait |-> 0]
Kinds ==
    <<Ticket0, [Ticket0 EXCEPT !.rating = 1150], [Ticket0 EXCEPT !.size = 2],
      [Ticket0 EXCEPT !.rating = 2000, !.trust = 1], [Ticket0 EXCEPT !.trust = 1, !.minTrust = 1],
      [Ticket0 EXCEPT !.region = "us"]>>
Waits == <<300, 50, 10>>

\* Bound: of tickets that wait equally long the one of the earlier kind has joined first
Enqueue(k, w) ==
    /\ subject = "queue" /\ Len(input.tickets) < MaxTickets
    /\ input.tickets # <<>> => w > input.wait \/ (w = input.wait /\ k >= input.kind)
    /\ input' = [input EXCEPT !.tickets = Append(@, [Kinds[k] EXCEPT !.wait = Waits[w]]),
                              !.kind = k, !.wait = w]
    /\ UNCHANGED subject

-----------------------------------------------------------------------------
(* A player, at the edges of each rule                                     *)

Unchecked == [is : {"unknown", "none"}]
SteamBans == [is : {"checked"}, count : {0, 1}, daysSince : {BanGraceDays, BanGraceDays + 1}, community : BOOLEAN]
FaceitSignals == [is : {"checked"}, banned : BOOLEAN, pastBans : {0, 1}, matches : {99, 100, 500}]
TrustInputs ==
    [steam : Unchecked \cup SteamBans, faceit : Unchecked \cup FaceitSignals,
     days : {-1, TrustedMinAccountDays - 1, TrustedMinAccountDays}, minutes : {-1, 6000},
     completed : {VerifiedMinMatches - 1, VerifiedMinMatches, TrustedMinMatches - 1, TrustedMinMatches},
     flags : {0, 1}, activeBan : BOOLEAN]

-----------------------------------------------------------------------------
(* A veto, of maps or of rooms                                             *)

VetoTeams(size) == IF size = 1 THEN <<{1}, {4}>> ELSE <<{1, 2, 3}, {4, 5, 6}>>
Maps(n) == [i \in 1..n |-> <<"map", i>>]
Vetoes ==
    {[format |-> "bo1", state |-> CreateVeto(Maps(n), VetoTeams(3), BanToNSteps(n, 1, first), <<>>)] :
        n \in Bo1Pools, first \in FirstTeams}
    \cup {[format |-> "bo3", state |-> CreateVeto(Maps(n), VetoTeams(1), Bo3Steps(n, first), <<>>)] :
        n \in Bo3Pools, first \in FirstTeams}
    \cup {[format |-> "rooms", state |-> CreateRoomVeto(VetoTeams(1), first)] : first \in FirstTeams}
    \cup {[format |-> "series", state |-> CreateSeriesRoomVeto(VetoTeams(1), first, flip)] :
        first \in FirstTeams, flip \in {1, 2}}

\* Bound, unless AnyVote: votes and chance fall on the first or the last choice. Start rooms are alike, so
\* among those it is the first one; and in room vetoes, where a team of one has no ties, every step is voted on
Reach(state) ==
    LET maps == StepAvailable(state)
    IN  IF AnyVote THEN Items(maps)
        ELSE IF maps[1] \in Items(StartPool) THEN {maps[1]}
        ELSE {maps[1], maps[Len(maps)]}
MayExpire(format) == AnyVote \/ format \in {"bo1", "bo3"}

Vote(p, m) ==
    /\ subject = "veto" /\ MayVote(input.state, p, m) /\ m \in Reach(input.state)
    /\ \E next \in AfterVote(input.state, p, m) : input' = [input EXCEPT !.state = next]
    /\ UNCHANGED subject

\* expireVetoStep
ExpireStep(m) ==
    /\ subject = "veto" /\ MayExpire(input.format) /\ ~input.state.done
    /\ m \in Leaders(input.state) \cap Reach(input.state)
    /\ input' = [input EXCEPT !.state = ResolveStep(@, m)]
    /\ UNCHANGED subject

-----------------------------------------------------------------------------
DecisionInit ==
    \/ subject = "accept" /\ input = NoAnswers
    \/ subject = "queue" /\ \E n \in {1, 2} : input = [teamSize |-> n, tickets |-> <<>>, kind |-> 1, wait |-> 1]
    \/ subject = "trust" /\ input \in TrustInputs
    \/ subject = "veto" /\ input \in Vetoes

DecisionNext ==
    \/ TimeOut
    \/ \E p \in Player : Accept(p) \/ Decline(p) \/ Vanish(p)
    \/ \E k \in DOMAIN Kinds, w \in DOMAIN Waits : Enqueue(k, w)
    \/ subject = "veto" /\ ~input.state.done /\ \E m \in Reach(input.state) : ExpireStep(m) \/ \E p \in 1..6 : Vote(p, m)
DecisionSpec == DecisionInit /\ [][DecisionNext]_decisionVars

-----------------------------------------------------------------------------
\* The accept window and the forfeit, stated in AcceptRules
BlameIsJust ==
    subject = "accept" =>
        WindowIsJust(input.accepted, input.declined, input.timedOut) /\ ForfeitIsJust(input.missing)

\* A pass over the queue, stated in Matchmaker
PassIsComplete == subject = "queue" => PassComplete(input.tickets, input.teamSize)

\* The level of a player and the progress that is shown, stated in TrustRules
TrustAgrees == subject = "trust" => \A requireSteamCheck \in BOOLEAN : LevelsAgree(input, requireSteamCheck)

\* bo3.ts 142-190: only the acting team votes, on what is still there; the map taken has as many of its
\* votes as any other, and a vote of everyone for one map decides
TeamDecides ==
    subject = "veto" =>
        LET s == input.state
        IN  \A i \in DOMAIN s.history :
                LET h == s.history[i]
                    For(m) == {p \in DOMAIN h.votes : h.votes[p] = m}
                IN  /\ DOMAIN h.votes \subseteq s.teams[h.team]
                    /\ \A p \in DOMAIN h.votes : Cardinality(For(h.mapId)) >= Cardinality(For(h.votes[p]))
                    /\ \A j \in 1..(i - 1) : \A p \in DOMAIN h.votes : h.votes[p] # s.history[j].mapId

\* bo3.ts 22-34, rooms.ts 112-118, series-rooms.ts 183-198: a veto that is done can be played. Maps: one, or the
\* picks and what is left, which is three in all, or more of a pool of more than seven, and none that was banned.
\* Rooms: a path the server accepts on every map, no room on two of them, and the sides of map 2 those of map 1 swapped
VetoCanBePlayed ==
    (subject = "veto" /\ input.state.done) =>
        LET s == input.state
            Inner(path) == {path[slot] : slot \in Slot} \ {Castle.t, Castle.ct}
        IN  /\ input.format = "bo1" => Len(s.maps) = 1
            /\ input.format = "bo3" =>
                   /\ Len(s.maps) >= 3 /\ SubSeq(s.maps, 1, 2) = MapsOf(s.history, "pick")
                   /\ Len(s.history) + Len(s.available) <= 7 => Len(s.maps) = 3
                   /\ Items(s.maps) \cap Items(MapsOf(s.history, "ban")) = {}
            /\ input.format = "rooms" => ValidPath(RoomSlots(s))
            /\ input.format = "series" =>
                   /\ \A m \in SeriesMaps : ValidPath(SeriesSlots(s, m)) /\ CtTeam(s, m) # 0
                   /\ \A m, o \in SeriesMaps : m # o => Inner(SeriesSlots(s, m)) \cap Inner(SeriesSlots(s, o)) = {}
                   /\ CtTeam(s, 2) = OtherSide(CtTeam(s, 1))

\* The decisions of a veto are the teams', and together they can be played
VetoStands == TeamDecides /\ VetoCanBePlayed
=============================================================================
