----------------------------- MODULE Matchmaker ------------------------------
(***************************************************************************)
(* One pass of apps/api/src/modules/queue/matchmaker.ts over the tickets   *)
(* waiting in a mode: which tickets it proposes as matches.                *)
(*                                                                         *)
(* The queue is a sequence, the longest waiting ticket first, and a ticket *)
(* is known by its place in it. Teams are sets of places: the code's bit   *)
(* masks. A proposal always has two teams of teamSize players, so means    *)
(* are compared by their sums. Which of two proposals that are equal in    *)
(* every respect is taken is left open.                                    *)
(***************************************************************************)
EXTENDS Integers, Sequences, FiniteSets

CONSTANTS MaxCandidates,   \* tickets looked at around each anchor
          MixAfter         \* wait after which parties may face solo players

ASSUME MatchmakerAssumption == MaxCandidates \in Nat \ {0} /\ MixAfter \in Nat

-----------------------------------------------------------------------------
(* config/queue.ts: what waiting widens                                    *)

AnyGap == -1
WidenSchedule ==
    <<[afterSec |-> 0, maxRatingDiff |-> 100], [afterSec |-> 30, maxRatingDiff |-> 200],
      [afterSec |-> 60, maxRatingDiff |-> 350], [afterSec |-> 120, maxRatingDiff |-> 500],
      [afterSec |-> 180, maxRatingDiff |-> 800], [afterSec |-> 300, maxRatingDiff |-> AnyGap]>>

MaxRatingDiffAfter(wait) ==
    LET reached == {k \in DOMAIN WidenSchedule : wait >= WidenSchedule[k].afterSec}
        last == CHOOSE k \in reached : \A l \in reached : l <= k
    IN  WidenSchedule[last].maxRatingDiff

SoleMatchAfter == 40
CandidateSpread == 2

IsParty(ticket) == ticket.size > 1
CanMix(ticket) == ticket.wait >= MixAfter
Within(gap, window) == window = AnyGap \/ gap <= window
Spread(window) == IF window = AnyGap THEN AnyGap ELSE CandidateSpread * window

TrustCompatible(t, u) == u.trust >= t.minTrust /\ t.trust >= u.minTrust

-----------------------------------------------------------------------------
Abs(n) == IF n < 0 THEN -n ELSE n
Distance(queue, i, j) == Abs(queue[i].rating - queue[j].rating)

\* What the tickets of a team add up to
Total(value, team) ==
    LET upTo[i \in 0..Len(value)] ==
            IF i = 0 THEN 0 ELSE upTo[i - 1] + (IF i \in team THEN value[i] ELSE 0)
    IN  upTo[Len(value)]

Players(queue, team) == Total([i \in DOMAIN queue |-> queue[i].size], team)
Weight(queue, team) == Total([i \in DOMAIN queue |-> queue[i].rating * queue[i].size], team)
Waited(queue, team) == Total([i \in DOMAIN queue |-> queue[i].wait], team)
PartyTeam(queue, team) == \E i \in team : IsParty(queue[i])

\* The tickets that fit in a team, by region
InRegion(queue, region, teamSize) ==
    {i \in DOMAIN queue : queue[i].region = region /\ queue[i].size <= teamSize}

\* Too few players for a second match: waiting longer for a closer opponent gains nothing
Sole(queue, i, teamSize) ==
    /\ queue[i].wait >= SoleMatchAfter
    /\ Players(queue, InRegion(queue, queue[i].region, teamSize)) < 4 * teamSize

Window(queue, i, teamSize) ==
    IF Sole(queue, i, teamSize) THEN AnyGap ELSE MaxRatingDiffAfter(queue[i].wait)

\* RatingIndex.nearest, then sort and slice: the free tickets the anchor can share a match with,
\* the nearest in rating and among those the longest waiting. Others do not crowd them out
NearEnough(queue, i, free, teamSize) ==
    LET spread == Spread(Window(queue, i, teamSize))
    IN  {j \in free : queue[j].region = queue[i].region /\ Within(Distance(queue, i, j), spread)}

Before(queue, i, j, k) ==
    \/ Distance(queue, i, j) < Distance(queue, i, k)
    \/ (Distance(queue, i, j) = Distance(queue, i, k) /\ j < k)

Candidates_TrustLast(queue, i, free, teamSize) ==
    LET near == NearEnough(queue, i, free \ {i}, teamSize)
    IN  {j \in near : /\ Cardinality({k \in near : Before(queue, i, k, j)}) < MaxCandidates
                      /\ TrustCompatible(queue[i], queue[j])}
Candidates_Newest(queue, i, free, teamSize) ==
    LET near == {j \in NearEnough(queue, i, free \ {i}, teamSize) : TrustCompatible(queue[i], queue[j])}
    IN  {j \in near : Cardinality({k \in near : Distance(queue, i, k) < Distance(queue, i, j)
                                      \/ (Distance(queue, i, k) = Distance(queue, i, j) /\ k > j)}) < MaxCandidates}
Candidates(queue, i, free, teamSize) ==
    LET near == {j \in NearEnough(queue, i, free \ {i}, teamSize) : TrustCompatible(queue[i], queue[j])}
    IN  {j \in near : Cardinality({k \in near : Before(queue, i, k, j)}) < MaxCandidates}

-----------------------------------------------------------------------------
(* bestProposal: the anchor's team against another one                     *)

MayMix(queue, i, j, teamSize) == Sole(queue, i, teamSize) \/ CanMix(queue[j])

Members(p) == p[1] \cup p[2]
Mixed(queue, p) == PartyTeam(queue, p[1]) # PartyTeam(queue, p[2])
Gap(queue, p) == Abs(Weight(queue, p[1]) - Weight(queue, p[2]))

\* The anchor's window is on the gap between the means of two teams of teamSize players
Allowed_MixedTeams(queue, i, p, teamSize) ==
    LET window == Window(queue, i, teamSize)
    IN  /\ \A j, k \in Members(p) : TrustCompatible(queue[j], queue[k])
        /\ window = AnyGap \/ Gap(queue, p) <= window * teamSize
        /\ Mixed(queue, p) => MayMix(queue, i, i, teamSize)
Allowed_OpponentsOnly(queue, i, p, teamSize) ==
    LET window == Window(queue, i, teamSize)
    IN  /\ \A j \in p[1], k \in p[2] : TrustCompatible(queue[j], queue[k])
        /\ window = AnyGap \/ Gap(queue, p) <= window * teamSize
        /\ Mixed(queue, p) => \A j \in Members(p) : MayMix(queue, i, j, teamSize)
Allowed(queue, i, p, teamSize) ==
    LET window == Window(queue, i, teamSize)
    IN  /\ \A j, k \in Members(p) : TrustCompatible(queue[j], queue[k])
        /\ window = AnyGap \/ Gap(queue, p) <= window * teamSize
        /\ Mixed(queue, p) => \A j \in Members(p) : MayMix(queue, i, j, teamSize)

Teams(queue, pool, players) == {team \in SUBSET pool : Players(queue, team) = players}

Pairings(queue, i, candidates, teamSize) ==
    {p \in {<<mates \cup {i}, other>> : mates \in Teams(queue, candidates, teamSize - queue[i].size),
                                       other \in Teams(queue, candidates, teamSize)} :
        p[1] \cap p[2] = {} /\ Allowed(queue, i, p, teamSize)}

\* Unmixed first, then the closest means, then the longest waiting players
Better(queue, p, q) ==
    \/ (~Mixed(queue, p) /\ Mixed(queue, q))
    \/ /\ Mixed(queue, p) = Mixed(queue, q)
       /\ \/ Gap(queue, p) < Gap(queue, q)
          \/ /\ Gap(queue, p) = Gap(queue, q)
             /\ Waited(queue, Members(p)) > Waited(queue, Members(q))

BestProposal(queue, i, candidates, teamSize) ==
    LET pairings == Pairings(queue, i, candidates, teamSize)
    IN  CHOOSE p \in pairings : \A q \in pairings : ~Better(queue, q, p)

-----------------------------------------------------------------------------
Used(proposals) == UNION {Members(proposals[k]) : k \in DOMAIN proposals}
Free(queue, teamSize, proposals) == {j \in DOMAIN queue \ Used(proposals) : queue[j].size <= teamSize}

\* The turn of one ticket as the anchor
Propose(queue, teamSize, proposals, i) ==
    LET free == Free(queue, teamSize, proposals)
        candidates == Candidates(queue, i, free, teamSize)
    IN  IF i \notin free \/ Pairings(queue, i, candidates, teamSize) = {}
        THEN proposals
        ELSE Append(proposals, BestProposal(queue, i, candidates, teamSize))

\* Greedy, from the longest waiting ticket on
FindMatches(queue, teamSize) ==
    LET after[i \in 0..Len(queue)] ==
            IF i = 0 THEN <<>> ELSE Propose(queue, teamSize, after[i - 1], i)
    IN  after[Len(queue)]

-----------------------------------------------------------------------------
(* What a pass promises                                                    *)

\* matchmaker.ts 266-286: a match the rules allow with i as its anchor. Two full teams of one region, all of
\* whom meet the trust floors of all; as close as the wait of the anchor allows; parties face single players
\* only when all of them may mix
IsMatch(queue, teamSize, i, p) ==
    LET window == MaxRatingDiffAfter(queue[i].wait)
    IN  /\ p[1] \cap p[2] = {} /\ i \in p[1]
        /\ \A t \in {1, 2} : Players(queue, p[t]) = teamSize
        /\ \A j \in Members(p) : queue[j].region = queue[i].region
        /\ \A j, k \in Members(p) : queue[j].trust >= queue[k].minTrust
        /\ \/ Sole(queue, i, teamSize)
           \/ /\ \/ window = AnyGap
                 \/ /\ Gap(queue, p) <= window * teamSize
                    /\ \A j \in Members(p) : Distance(queue, i, j) <= CandidateSpread * window
              /\ Mixed(queue, p) => \A j \in Members(p) : queue[j].wait >= MixAfter

\* The tickets near an anchor may be more than are looked at
Crowded(queue, teamSize) == teamSize # 1 /\ Len(queue) > MaxCandidates + 1

\* They differ in nothing but how long they have waited
Older(queue, i, j) == queue[i].wait > queue[j].wait /\ queue[j] = [queue[i] EXCEPT !.wait = queue[j].wait]

\* matchmaker.ts 150-207: nobody is in two proposals; each is a match for its anchor; when no more are near
\* than are looked at, no match is left among the tickets left over; and no ticket is passed over for one
\* that differs from it only in having waited less, unless that one is the anchor of a crowded queue
PassComplete(queue, teamSize) ==
    LET found == FindMatches(queue, teamSize)
        left == DOMAIN queue \ Used(found)
    IN  /\ \A k, l \in DOMAIN found : k # l => Members(found[k]) \cap Members(found[l]) = {}
        /\ \A k \in DOMAIN found : \E i \in found[k][1] :
              /\ IsMatch(queue, teamSize, i, found[k])
              /\ \A j \in Members(found[k]), l \in left :
                    Older(queue, l, j) => i = j /\ Crowded(queue, teamSize)
        /\ ~Crowded(queue, teamSize) =>
              \A A \in SUBSET left : \A i \in A, B \in SUBSET (left \ A) :
                 ~IsMatch(queue, teamSize, i, <<A, B>>)
=============================================================================
